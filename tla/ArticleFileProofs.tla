------------------------- MODULE ArticleFileProofs --------------------------
(***************************************************************************)
(* Theorems about ArticleFile: its types, the discipline of its locks and  *)
(* the bounds of the score, whatever the processes do; and, with one       *)
(* session of the author that edits while others comment, that the article *)
(* implements Thread.                                                      *)
(***************************************************************************)
EXTENDS ArticleFile, FiniteSetTheorems, SequenceTheorems, TLAPS

\* A lock is held on a file that was opened, a copy is worked on after it was
\* made.
Copying == {"e_edit", "e_hash", "e_open", "e_size", "e_flock", "e_merge",
            "e_unlink", "e_rename"}
Commenting == {"c_open", "c_flock", "c_reopen", "c_write", "c_unlock", "c_stat"}
FilesKnown ==
    \A p \in Procs : /\ pc[p] \in AtWork => call[p].fd \in Inodes
                     /\ pc[p] \in Copying => call[p].ino \in Inodes
                     /\ pc[p] \in Commenting => call[p].item \in Comments

TypeInv == TypeOK /\ FilesKnown

-----------------------------------------------------------------------------
(* Operators of the model                                                  *)

\* A write to a file, or to none.
LEMMA WriteType ==
    ASSUME NEW t \in [Inodes -> Seq(Item)], NEW f, NEW s, f \in Inodes => s \in Seq(Item)
    PROVE  [t EXCEPT ![f] = s] \in [Inodes -> Seq(Item)]
OBVIOUS

LEMMA ClampType ==
    ASSUME NEW n \in Int
    PROVE  Clamp(n) \in -MAX_RECOMMENDS..MAX_RECOMMENDS
BY ArticleAssumption DEF Clamp

LEMMA VoteType == ASSUME NEW c PROVE Vote(c) \in {-1, 0, 1}
BY DEF Vote

LEMMA NoCallType == NoCall \in Call
BY ArticleAssumption DEF NoCall, Call, Header, Item, File

\* The locals of a comment.
LEMMA CommentCall ==
    ASSUME NEW c \in Comments, NEW u \in {-1, 0, 1}
    PROVE  LET k == [NoCall EXCEPT !.item = c, !.update = u, !.tries = LockRetry] IN
           /\ k \in Call /\ k.item = c /\ k.update = u
<1> DEFINE k == [NoCall EXCEPT !.item = c, !.update = u, !.tries = LockRetry]
<1>1. LockRetry \in 0..LockRetry /\ c \in Item
  BY ArticleAssumption DEF Item
<1> QED
  BY <1>1, NoCallType DEF Call

LEMMA RewrittenType ==
    ASSUME NEW t \in Seq(Item), NEW b \in Bodies
    PROVE  /\ Rewritten(t, b) \in Seq(Item) /\ Len(Rewritten(t, b)) \in Nat \ {0}
           /\ Head(Rewritten(t, b)) = b
           /\ t # <<>> => Tail(Rewritten(t, b)) = Tail(t)
<1>1. CASE t = <<>>
  <2>1. Rewritten(t, b) = <<b>>
    BY <1>1 DEF Rewritten
  <2>2. <<b>> \in Seq(Item) /\ Len(<<b>>) = 1 /\ Head(<<b>>) = b
    BY DEF Item
  <2> QED
    BY SMTT(40), <1>1, <2>1, <2>2
<1>2. CASE t # <<>>
  <2> DEFINE r == [t EXCEPT ![1] = b]
  <2>1. Rewritten(t, b) = r
    BY <1>2 DEF Rewritten
  <2>2. Len(t) \in Nat \ {0} /\ t \in [1..Len(t) -> Item]
    BY <1>2, EmptySeq, LenProperties
  <2>3. r \in [1..Len(t) -> Item] /\ r[1] = b
    BY <2>2 DEF Item
  <2>4. r \in Seq(Item) /\ Len(r) = Len(t)
    BY <2>2, <2>3, SeqDef, LenProperties
  <2>5. \A i \in 2..Len(t) : r[i] = t[i]
    BY <2>2
  <2> HIDE DEF r
  <2>6. Head(r) = b /\ r # <<>>
    BY <2>2, <2>3, <2>4
  <2>7. Tail(r) = Tail(t)
    <3>1. /\ Tail(r) \in Seq(Item) /\ Len(Tail(r)) = Len(t) - 1
          /\ Tail(t) \in Seq(Item) /\ Len(Tail(t)) = Len(t) - 1
          /\ \A i \in 1..Len(t) - 1 : Tail(r)[i] = r[i + 1] /\ Tail(t)[i] = t[i + 1]
      BY <1>2, <2>2, <2>4, <2>6, HeadTailProperties
    <3>2. \A i \in 1..Len(t) - 1 : Tail(r)[i] = Tail(t)[i]
      <4> TAKE i \in 1..Len(t) - 1
      <4>1. i + 1 \in 2..Len(t)
        BY <2>2
      <4> QED
        BY <2>5, <3>1, <4>1
    <3> QED
      BY <3>1, <3>2, SeqEqual
  <2> QED
    BY <2>1, <2>2, <2>4, <2>6, <2>7
<1> QED
  BY <1>1, <1>2

LEMMA AppendedType ==
    ASSUME TypeOK, NEW p \in Procs, call[p].fd \in Inodes
    PROVE  Appended(p) \in Seq(Item)
<1>1. text[call[p].fd] \in Seq(Item) /\ call[p].old \in Seq(Item)
  BY DEF TypeOK, Call
<1>2. Len(text[call[p].fd]) \in Nat /\ Len(call[p].old) \in Nat
  BY <1>1, LenProperties
<1> QED
  BY <1>1, <1>2, SubSeqProperties DEF Appended

LEMMA ModifiedType ==
    ASSUME TypeOK, NEW p \in Procs
    PROVE  Modified(p) \in Header
<1>1. dir \in Header /\ call[p].update \in Int /\ dir.score \in Int
  BY ArticleAssumption DEF TypeOK, Header, Call
<1>2. Clamp(dir.score + call[p].update) \in -MAX_RECOMMENDS..MAX_RECOMMENDS
  BY <1>1, ClampType
<1> QED
  BY <1>1, <1>2 DEF Modified, Header

-----------------------------------------------------------------------------
(* Types                                                                   *)

LEMMA InitType == Init => TypeInv
<1> SUFFICES ASSUME Init PROVE TypeInv
  OBVIOUS
<1>1. <<Body0>> \in Seq(Item) /\ <<>> \in Seq(Item)
  BY ArticleAssumption DEF Item
<1>2. text \in [Inodes -> Seq(Item)]
  BY <1>1 DEF Init
<1>3. call \in [Procs -> Call] /\ pc \in [Procs -> Labels]
  BY NoCallType DEF Init, Labels
<1>4. dir \in Header
  BY ArticleAssumption DEF Init, Header
<1>5. /\ path \in File /\ flk \in [Inodes -> Procs \cup {Nobody}]
      /\ used \subseteq Item /\ acked \subseteq Comments
  BY ArticleAssumption DEF Init, File, Item
<1> QED
  BY <1>2, <1>3, <1>4, <1>5 DEF Init, TypeInv, TypeOK, FilesKnown, AtWork, Copying, Commenting

\* A process gives up or is done.
LEMMA ReturnType ==
    ASSUME TypeInv, NEW p \in Procs, Return(p)
    PROVE  /\ pc' \in [Procs -> Labels] /\ call' \in [Procs -> Call] /\ FilesKnown'
           /\ pc'[p] = "idle" /\ call'[p] = NoCall
           /\ \A q \in Procs \ {p} : pc'[q] = pc[q] /\ call'[q] = call[q]
<1>1. pc' = [pc EXCEPT ![p] = "idle"] /\ call' = [call EXCEPT ![p] = NoCall]
  BY DEF Return, Goto
<1>2. pc \in [Procs -> Labels] /\ call \in [Procs -> Call] /\ FilesKnown
  BY DEF TypeInv, TypeOK
<1>3. pc'[p] = "idle" /\ call'[p] = NoCall
      /\ \A q \in Procs \ {p} : pc'[q] = pc[q] /\ call'[q] = call[q]
  BY <1>1, <1>2
<1>4. pc' \in [Procs -> Labels] /\ call' \in [Procs -> Call]
  BY <1>1, <1>2, NoCallType DEF Labels
<1>5. FilesKnown'
  BY <1>2, <1>3 DEF FilesKnown, AtWork, Copying, Commenting
<1> QED
  BY <1>3, <1>4, <1>5

LEMMA AddRecommendType ==
    ASSUME TypeInv, NEW p \in Procs, AddRecommend(p)
    PROVE  TypeInv'
<1>a. /\ TypeOK /\ FilesKnown
      /\ text \in [Inodes -> Seq(Item)] /\ path \in File
      /\ flk \in [Inodes -> Procs \cup {Nobody}]
      /\ pc \in [Procs -> Labels] /\ call \in [Procs -> Call]
      /\ used \subseteq Item /\ acked \subseteq Comments
  BY DEF TypeInv, TypeOK
<1> USE DEF AtWork, Copying, Commenting
<1>1. CASE CallComment(p)
  <2> PICK c \in Comments \ used :
        /\ used' = used \cup {c}
        /\ call' = [call EXCEPT ![p] = [NoCall EXCEPT !.item = c,
                        !.update = Vote(c), !.tries = LockRetry]]
    BY <1>1 DEF CallComment
  <2>1. /\ [NoCall EXCEPT !.item = c, !.update = Vote(c), !.tries = LockRetry] \in Call
        /\ [NoCall EXCEPT !.item = c, !.update = Vote(c), !.tries = LockRetry].item = c
    BY VoteType, CommentCall
  <2>2. call' \in [Procs -> Call] /\ used' \subseteq Item
    BY <1>a, <2>1 DEF Item
  <2>3. pc' = [pc EXCEPT ![p] = "c_open"]
        /\ UNCHANGED <<text, path, flk, dir, acked>>
    BY <1>1 DEF CallComment, Goto
  <2>4. \A q \in Procs \ {p} : call'[q] = call[q] /\ pc'[q] = pc[q]
    BY <1>a, <2>3
  <2> QED
    BY <1>a, <2>2, <2>3, <2>4 DEF TypeInv, TypeOK, FilesKnown, Labels
<1>2. CASE COpen(p)
  <2>1. CASE path = NoInode
    BY <1>2, <2>1, <1>a, ReturnType DEF COpen, TypeInv, TypeOK
  <2>2. CASE path # NoInode
    <3>1. /\ call' = [call EXCEPT ![p].fd = path] /\ pc' = [pc EXCEPT ![p] = "c_flock"]
          /\ UNCHANGED <<text, path, flk, dir, used, acked>>
      BY <1>2, <2>2 DEF COpen, Goto
    <3>2. call' \in [Procs -> Call]
      BY <1>a, <3>1 DEF Call
    <3> QED
      BY <1>2, <3>1, <3>2, <1>a DEF COpen, TypeInv, TypeOK, FilesKnown, Labels
  <2> QED
    BY <2>1, <2>2
<1>3. CASE CFlock(p)
  <2>1. CASE call[p].tries = 0
    <3>1. GiveUp(p) /\ UNCHANGED flk
      BY <1>3, <2>1 DEF CFlock
    <3> QED
      BY <1>3, <3>1, <1>a, ReturnType DEF CFlock, GiveUp, TypeInv, TypeOK
  <2>2. CASE call[p].tries > 0 /\ CanLock(call[p].fd)
    <3>1. /\ flk' = [flk EXCEPT ![call[p].fd] = p] /\ call' = call
          /\ pc' = [pc EXCEPT ![p] = "c_write"]
          /\ UNCHANGED <<text, path, dir, used, acked>> /\ pc[p] = "c_flock"
      BY <1>3, <2>2 DEF CFlock, Goto
    <3>2. call[p].fd \in Inodes
      BY <1>a, <2>2 DEF CanLock, Call, File
    <3>3. flk' \in [Inodes -> Procs \cup {Nobody}]
      BY <1>a, <3>1
    <3> QED
      BY <3>1, <3>2, <3>3, <1>a DEF TypeInv, TypeOK, FilesKnown, Labels
  <2>3. CASE call[p].tries > 0 /\ ~ CanLock(call[p].fd)
    <3>1. /\ call' = [call EXCEPT ![p].tries = @ - 1, ![p].fd = NoInode]
          /\ pc' = [pc EXCEPT ![p] = "c_reopen"]
          /\ UNCHANGED <<text, path, dir, used, acked, flk>> /\ pc[p] = "c_flock"
      BY <1>3, <2>3 DEF CFlock, Goto
    <3>2. call[p] \in Call /\ call[p].tries \in 0..LockRetry
      BY <1>a DEF Call
    <3>3. call[p].tries - 1 \in 0..LockRetry
      BY <2>3, <3>2, ArticleAssumption
    <3>4. call' \in [Procs -> Call]
      BY <1>a, <3>1, <3>2, <3>3 DEF Call, File
    <3> QED
      BY <3>1, <3>4, <1>a DEF TypeInv, TypeOK, FilesKnown, Labels
  <2> QED
    BY <1>3, <2>1, <2>2, <2>3 DEF CFlock
<1>4. CASE CReopen(p)
  <2>1. /\ call' = [call EXCEPT ![p].fd = path] /\ pc' = [pc EXCEPT ![p] = "c_flock"]
        /\ UNCHANGED <<text, path, flk, dir, used, acked>>
    BY <1>4 DEF CReopen, Goto
  <2>2. pc[p] = "c_reopen"
    BY <1>4 DEF CReopen
  <2>3. call' \in [Procs -> Call]
    BY <1>a, <2>1 DEF Call
  <2>4. pc' \in [Procs -> Labels]
    BY <1>a, <2>1 DEF Labels
  <2>5. TypeOK'
    BY <1>a, <2>1, <2>3, <2>4 DEF TypeOK
  <2>6. call'[p].item = call[p].item /\ \A q \in Procs \ {p} : call'[q] = call[q]
    BY <1>a, <2>1 DEF Call
  <2>7. FilesKnown'
    BY <1>a, <2>1, <2>2, <2>6 DEF FilesKnown
  <2> QED
    BY <2>5, <2>7 DEF TypeInv
<1>5. CASE CWrite(p)
  <2>1. call[p].fd \in Inodes /\ call[p].item \in Item
    BY <1>5, <1>a DEF CWrite, FilesKnown, Call
  <2>2. Append(text[call[p].fd], call[p].item) \in Seq(Item)
    BY <1>a, <2>1
  <2>3. text' \in [Inodes -> Seq(Item)]
    BY <1>5, <2>2, <1>a, WriteType DEF CWrite
  <2> QED
    BY <1>5, <2>1, <2>3, <1>a DEF CWrite, Goto, TypeInv, TypeOK, FilesKnown, Labels
<1>6. CASE CUnlock(p)
  <2>1. flk' \in [Inodes -> Procs \cup {Nobody}]
    BY <1>6, <1>a DEF CUnlock
  <2>2. call' \in [Procs -> Call]
    BY ZenonT(60), <1>6, <1>a DEF CUnlock, Call, File
  <2>3. acked' \subseteq Comments
    BY <1>6, <1>a DEF CUnlock, FilesKnown
  <2> QED
    BY <1>6, <2>1, <2>2, <2>3, <1>a DEF CUnlock, Goto, TypeInv, TypeOK, FilesKnown, Labels
<1>7. CASE CStat(p)
  <2>1. CASE path = NoInode
    BY <1>7, <2>1, <1>a, ReturnType DEF CStat, TypeInv, TypeOK
  <2>2. CASE path # NoInode
    BY <1>7, <2>2, <1>a DEF CStat, Goto, TypeInv, TypeOK, FilesKnown, Labels
  <2> QED
    BY <2>1, <2>2
<1> QED
  BY <1>1, <1>2, <1>3, <1>4, <1>5, <1>6, <1>7 DEF AddRecommend

LEMMA ModifyDirLiteType ==
    ASSUME TypeInv, NEW p \in Procs, ModifyDirLite(p)
    PROVE  TypeInv'
<1>a. /\ TypeOK /\ FilesKnown
      /\ pc \in [Procs -> Labels] /\ call \in [Procs -> Call]
  BY DEF TypeInv, TypeOK
<1>1. CASE ModifyRead(p)
  <2>1. CASE dir.live
    <3>1. /\ call' = [call EXCEPT ![p].hdr = Modified(p)] /\ pc' = [pc EXCEPT ![p] = "m_write"]
          /\ UNCHANGED <<text, path, flk, dir, used, acked>> /\ pc[p] = "m_read"
      BY <1>1, <2>1 DEF ModifyRead, Goto
    <3>2. call' \in [Procs -> Call]
      BY <1>a, <3>1, ModifiedType DEF Call
    <3> QED
      BY <3>1, <3>2, <1>a
        DEF TypeInv, TypeOK, FilesKnown, Labels, AtWork, Copying, Commenting
  <2>2. CASE ~ dir.live
    BY <1>1, <2>2, <1>a, ReturnType DEF ModifyRead, TypeInv, TypeOK
  <2> QED
    BY <2>1, <2>2
<1>2. CASE ModifyWrite(p)
  <2>1. call[p].hdr \in Header
    BY <1>a DEF Call
  <2> QED
    BY <1>2, <2>1, <1>a, ReturnType DEF ModifyWrite, TypeInv, TypeOK
<1> QED
  BY <1>1, <1>2 DEF ModifyDirLite

LEMMA EditPostType ==
    ASSUME TypeInv, NEW p \in Procs, EditPost(p)
    PROVE  TypeInv'
<1>a. /\ TypeOK /\ FilesKnown
      /\ text \in [Inodes -> Seq(Item)] /\ path \in File
      /\ pc \in [Procs -> Labels] /\ call \in [Procs -> Call]
      /\ used \subseteq Item
  BY DEF TypeInv, TypeOK
<1> USE DEF AtWork, Copying, Commenting
<1>1. CASE CallEdit(p)
  BY <1>1, <1>a DEF CallEdit, Goto, TypeInv, TypeOK, FilesKnown, Labels
<1>2. CASE ECopy(p)
  <2> DEFINE t == IF path = NoInode THEN <<>> ELSE text[path]
  <2> PICK i \in Free : /\ text' = [text EXCEPT ![i] = t]
                         /\ call' = [call EXCEPT ![p].ino = i, ![p].old = t]
    BY <1>2 DEF ECopy
  <2>1. t \in Seq(Item)
    BY <1>a DEF File
  <2>2. i \in Inodes
    BY DEF Free
  <2> HIDE DEF t
  <2>3. text' \in [Inodes -> Seq(Item)]
    BY <1>a, <2>1, <2>2
  <2>4. call' \in [Procs -> Call] /\ call'[p].ino = i
        /\ \A q \in Procs \ {p} : call'[q] = call[q]
    BY ZenonT(60), <1>a, <2>1, <2>2 DEF Call, File
  <2>5. /\ pc' = [pc EXCEPT ![p] = "e_edit"]
        /\ UNCHANGED <<path, flk, dir, used, acked>>
    BY <1>2 DEF ECopy, Goto
  <2>6. pc' \in [Procs -> Labels] /\ pc'[p] = "e_edit"
        /\ \A q \in Procs \ {p} : pc'[q] = pc[q]
    BY <1>a, <2>5 DEF Labels
  <2>7. FilesKnown'
    BY <1>a, <2>2, <2>4, <2>6 DEF FilesKnown
  <2> QED
    BY <2>3, <2>4, <2>5, <2>6, <2>7, <1>a DEF TypeInv, TypeOK
<1>3. CASE EEdit(p)
  <2>1. CASE Return(p) /\ UNCHANGED <<text, used>>
    BY <1>3, <2>1, <1>a, ReturnType DEF EEdit, TypeInv, TypeOK
  <2>2. CASE ~ (Return(p) /\ UNCHANGED <<text, used>>)
    <3> PICK b \in Bodies \ used :
          /\ used' = used \cup {b}
          /\ text' = [text EXCEPT ![call[p].ino] = Rewritten(@, b)]
          /\ call' = [call EXCEPT ![p].item = b]
      BY <1>3, <2>2 DEF EEdit
    <3>1. /\ pc' = [pc EXCEPT ![p] = "e_hash"] /\ pc[p] = "e_edit"
          /\ UNCHANGED <<path, flk, dir, acked>>
      BY <1>3, <2>2 DEF EEdit, Goto
    <3>2. call[p].ino \in Inodes
      BY <3>1, <1>a DEF FilesKnown
    <3>3. Rewritten(text[call[p].ino], b) \in Seq(Item)
      BY <1>a, <3>2, RewrittenType
    <3>4. text' \in [Inodes -> Seq(Item)] /\ used' \subseteq Item
      BY <1>a, <3>2, <3>3 DEF Item
    <3>5. call' \in [Procs -> Call] /\ call'[p].ino = call[p].ino /\ b \in Item
          /\ \A q \in Procs \ {p} : call'[q] = call[q]
      BY ZenonT(60), <1>a DEF Call, Item
    <3> QED
      BY <3>1, <3>2, <3>4, <3>5, <1>a DEF TypeInv, TypeOK, FilesKnown, Labels
  <2> QED
    BY <2>1, <2>2
<1>4. CASE EHash(p)
  <2>1. CASE UnchangedSoFar(p)
    BY <1>4, <2>1, <1>a DEF EHash, Goto, TypeInv, TypeOK, FilesKnown, Labels
  <2>2. CASE ~ UnchangedSoFar(p)
    BY <1>4, <2>2, <1>a, ReturnType DEF EHash, TypeInv, TypeOK
  <2> QED
    BY <2>1, <2>2
<1> QED
  BY <1>1, <1>2, <1>3, <1>4 DEF EditPost

\* A process goes to l with the descriptors fd and ino.
LEMMA FilesType ==
    ASSUME TypeInv, NEW p \in Procs, NEW l \in Labels, NEW c \in Call,
           call' = [call EXCEPT ![p] = c], pc' = [pc EXCEPT ![p] = l],
           l \in AtWork => c.fd \in Inodes, l \in Copying => c.ino \in Inodes,
           l \notin Commenting
    PROVE  pc' \in [Procs -> Labels] /\ call' \in [Procs -> Call] /\ FilesKnown'
<1>1. pc \in [Procs -> Labels] /\ call \in [Procs -> Call] /\ FilesKnown
  BY DEF TypeInv, TypeOK
<1>2. pc' \in [Procs -> Labels] /\ call' \in [Procs -> Call]
      /\ pc'[p] = l /\ call'[p] = c
      /\ \A q \in Procs \ {p} : pc'[q] = pc[q] /\ call'[q] = call[q]
  BY <1>1
<1> QED
  BY <1>1, <1>2 DEF FilesKnown

LEMMA AppendMergeReplaceType ==
    ASSUME TypeInv, NEW p \in Procs, AppendMergeReplace(p)
    PROVE  TypeInv'
<1>a. /\ TypeOK /\ FilesKnown
      /\ text \in [Inodes -> Seq(Item)] /\ path \in File
      /\ flk \in [Inodes -> Procs \cup {Nobody}]
      /\ pc \in [Procs -> Labels] /\ call \in [Procs -> Call]
      /\ call[p] \in Call
      /\ pc[p] \in AtWork => call[p].fd \in Inodes
      /\ pc[p] \in Copying => call[p].ino \in Inodes
      /\ call[p].fd \in File /\ call[p].ino \in File
  BY DEF TypeInv, TypeOK, FilesKnown, Call
<1> USE DEF AtWork, Copying, Commenting, Labels
<1>1. CASE EOpen(p)
  <2> DEFINE c == [call[p] EXCEPT !.fd = path]
  <2>1. c \in Call /\ c.ino = call[p].ino
    BY <1>a DEF Call
  <2>2. call' = [call EXCEPT ![p] = c]
    BY <1>1, <1>a DEF EOpen
  <2> HIDE DEF c
  <2>3. pc' \in [Procs -> Labels] /\ call' \in [Procs -> Call] /\ FilesKnown'
    <3>1. CASE path = NoInode
      BY <1>1, <2>1, <2>2, <3>1, <1>a, FilesType DEF EOpen, Goto
    <3>2. CASE path # NoInode
      BY <1>1, <2>1, <2>2, <3>2, <1>a, FilesType DEF EOpen, Goto
    <3> QED
      BY <3>1, <3>2
  <2> QED
    BY <1>1, <2>3, <1>a DEF EOpen, TypeInv, TypeOK
<1>2. CASE ESize(p)
  <2> DEFINE gone == path # NoInode /\ Size(path) < Len(call[p].old)
  <2>1. CASE gone
    <3> DEFINE c == [call[p] EXCEPT !.fd = NoInode]
    <3>1. c \in Call
      BY <1>a DEF Call, File
    <3>2. call' = [call EXCEPT ![p] = c] /\ pc' = [pc EXCEPT ![p] = "m_read"]
      BY <1>2, <2>1, <1>a DEF ESize, Goto
    <3> HIDE DEF c
    <3>3. pc' \in [Procs -> Labels] /\ call' \in [Procs -> Call] /\ FilesKnown'
      BY <3>1, <3>2, FilesType
    <3> QED
      BY <1>2, <3>3, <1>a DEF ESize, TypeInv, TypeOK
  <2>2. CASE ~ gone
    BY <1>2, <2>2, <1>a DEF ESize, Goto, TypeInv, TypeOK, FilesKnown
  <2> QED
    BY <2>1, <2>2
<1>3. CASE EFlock(p)
  <2>1. call[p].fd \in Inodes /\ pc[p] = "e_flock" /\ pc' = [pc EXCEPT ![p] = "e_merge"]
        /\ flk' = [flk EXCEPT ![call[p].fd] = p]
        /\ UNCHANGED <<text, path, dir, call, used, acked>>
    BY <1>3, <1>a DEF EFlock, CanLock, File, Goto
  <2>2. flk' \in [Inodes -> Procs \cup {Nobody}]
    BY <1>a, <2>1
  <2> QED
    BY <2>1, <2>2, <1>a DEF TypeInv, TypeOK, FilesKnown
<1>4. CASE EMerge(p)
  <2>1. call[p].ino \in Inodes /\ call[p].fd \in Inodes
    BY <1>4, <1>a DEF EMerge
  <2>2. text[call[p].ino] \o Appended(p) \in Seq(Item)
    BY <2>1, <1>a, AppendedType, ConcatProperties
  <2>3. text' \in [Inodes -> Seq(Item)]
    BY <1>4, <2>2, <1>a DEF EMerge
  <2> QED
    BY <1>4, <2>1, <2>3, <1>a DEF EMerge, Goto, TypeInv, TypeOK, FilesKnown
<1>5. CASE EUnlink(p)
  <2>1. CASE path = NoInode
    BY <1>5, <2>1, <1>a DEF EUnlink, Goto, TypeInv, TypeOK, FilesKnown, File
  <2>2. CASE path # NoInode
    BY <1>5, <2>2, <1>a DEF EUnlink, Goto, TypeInv, TypeOK, FilesKnown, File
  <2> QED
    BY <2>1, <2>2
<1>6. CASE ERename(p)
  BY <1>6, <1>a DEF ERename, Goto, TypeInv, TypeOK, FilesKnown, File
<1>7. CASE EUnlock(p)
  <2> DEFINE c == [call[p] EXCEPT !.fd = NoInode, !.ino = NoInode]
  <2>1. c \in Call
    BY <1>a DEF Call, File
  <2>2. call' = [call EXCEPT ![p] = c] /\ pc' = [pc EXCEPT ![p] = "m_read"]
    BY <1>7, <1>a DEF EUnlock, Goto
  <2> HIDE DEF c
  <2>3. pc' \in [Procs -> Labels] /\ call' \in [Procs -> Call] /\ FilesKnown'
    BY <2>1, <2>2, FilesType
  <2>4. flk' \in [Inodes -> Procs \cup {Nobody}]
    BY <1>7, <1>a DEF EUnlock
  <2> QED
    BY <1>7, <2>3, <2>4, <1>a DEF EUnlock, TypeInv, TypeOK
<1> QED
  BY <1>1, <1>2, <1>3, <1>4, <1>5, <1>6, <1>7 DEF AppendMergeReplace

LEMMA DelPostType ==
    ASSUME TypeInv, NEW p \in Procs, DelPost(p)
    PROVE  TypeInv'
<1>a. TypeOK /\ FilesKnown /\ pc \in [Procs -> Labels] /\ dir \in Header
  BY DEF TypeInv, TypeOK
<1>1. CASE SafeDelete(p)
  <2>1. dir' \in Header
    BY <1>1, <1>a DEF SafeDelete, Header
  <2> QED
    BY <1>1, <2>1, <1>a
      DEF SafeDelete, Goto, TypeInv, TypeOK, FilesKnown, Labels, AtWork, Copying, Commenting
<1>2. CASE DUnlink(p)
  BY <1>2, <1>a, ReturnType DEF DUnlink, TypeInv, TypeOK, File
<1> QED
  BY <1>1, <1>2 DEF DelPost

LEMMA CrashType ==
    ASSUME TypeInv, NEW p \in Procs, Crash(p)
    PROVE  TypeInv'
<1>1. flk' \in [Inodes -> Procs \cup {Nobody}]
  BY DEF Crash, TypeInv, TypeOK
<1> QED
  BY <1>1, ReturnType DEF Crash, TypeInv, TypeOK

LEMMA NextType == TypeInv /\ [Next]_vars => TypeInv'
<1> SUFFICES ASSUME TypeInv, [Next]_vars PROVE TypeInv'
  OBVIOUS
<1>1. CASE UNCHANGED vars
  BY <1>1 DEF vars, TypeInv, TypeOK, FilesKnown
<1>2. CASE Next
  BY <1>2, AddRecommendType, ModifyDirLiteType, EditPostType, AppendMergeReplaceType,
     DelPostType, CrashType DEF Next
<1> QED
  BY <1>1, <1>2

\* Every variable keeps to its type, whatever the processes do and wherever
\* they die; the score keeps to its cap because modify_dir_lite clamps it
\* (bbs.c:153-158).
THEOREM TypeCorrect == Spec => []TypeOK
<1>1. Spec => []TypeInv
  BY InitType, NextType, PTL DEF Spec
<1>2. TypeInv => TypeOK
  BY DEF TypeInv
<1> QED
  BY <1>1, <1>2, PTL

-----------------------------------------------------------------------------
(* Locks                                                                   *)

LockInv == TypeInv /\ LocksGuardWork

\* Only p moves.
Alone(p) == \A q \in Procs \ {p} : pc'[q] = pc[q] /\ call'[q] = call[q]

\* p has nothing to do with locks, before and after.
LEMMA AwayKeepsLocks ==
    ASSUME LocksGuardWork, TypeInv, NEW p \in Procs, Alone(p),
           UNCHANGED flk, pc[p] \notin AtWork, pc'[p] \notin AtWork
    PROVE  LocksGuardWork'
<1>1. ASSUME NEW q \in Procs, pc'[q] \in AtWork
      PROVE  flk'[call'[q].fd] = q
  BY <1>1 DEF LocksGuardWork, Alone
<1>2. ASSUME NEW f \in Inodes, flk'[f] # Nobody
      PROVE  pc'[flk'[f]] \in AtWork /\ call'[flk'[f]].fd = f
  BY <1>2 DEF LocksGuardWork, TypeInv, TypeOK, Alone
<1> QED
  BY <1>1, <1>2 DEF LocksGuardWork

\* p goes on with the lock it has.
LEMMA WorkKeepsLocks ==
    ASSUME LocksGuardWork, TypeInv, NEW p \in Procs, Alone(p),
           UNCHANGED flk, pc[p] \in AtWork, pc'[p] \in AtWork, call'[p].fd = call[p].fd
    PROVE  LocksGuardWork'
<1>1. ASSUME NEW q \in Procs, pc'[q] \in AtWork
      PROVE  flk'[call'[q].fd] = q
  BY <1>1 DEF LocksGuardWork, Alone
<1>2. ASSUME NEW f \in Inodes, flk'[f] # Nobody
      PROVE  pc'[flk'[f]] \in AtWork /\ call'[flk'[f]].fd = f
  BY <1>2 DEF LocksGuardWork, TypeInv, TypeOK, Alone
<1> QED
  BY <1>1, <1>2 DEF LocksGuardWork

\* p locks its file.
LEMMA LockKeepsLocks ==
    ASSUME LocksGuardWork, TypeInv, NEW p \in Procs, Alone(p), CanLock(call[p].fd),
           flk' = [flk EXCEPT ![call[p].fd] = p],
           pc[p] \notin AtWork, pc'[p] \in AtWork, call'[p].fd = call[p].fd
    PROVE  LocksGuardWork'
<1>1. call[p].fd \in Inodes
  BY DEF TypeInv, TypeOK, CanLock, Call, File
<1>2. flk'[call[p].fd] = p /\ flk[call[p].fd] = Nobody
      /\ \A f \in Inodes \ {call[p].fd} : flk'[f] = flk[f]
  BY <1>1 DEF TypeInv, TypeOK, CanLock
<1>3. ASSUME NEW q \in Procs, pc'[q] \in AtWork
      PROVE  flk'[call'[q].fd] = q
  <2>1. CASE q = p
    BY <1>2, <2>1
  <2>2. CASE q # p
    <3>1. flk[call[q].fd] = q /\ call[q].fd \in Inodes /\ call'[q] = call[q]
      BY <1>3, <2>2 DEF LocksGuardWork, TypeInv, FilesKnown, Alone
    <3> QED
      BY <1>2, <3>1, ArticleAssumption
  <2> QED
    BY <2>1, <2>2
<1>4. ASSUME NEW f \in Inodes, flk'[f] # Nobody
      PROVE  pc'[flk'[f]] \in AtWork /\ call'[flk'[f]].fd = f
  <2>1. CASE f = call[p].fd
    BY <1>2, <2>1
  <2>2. CASE f # call[p].fd
    <3>1. flk'[f] = flk[f] /\ pc[flk[f]] \in AtWork /\ call[flk[f]].fd = f
      BY <1>2, <1>4, <2>2 DEF LocksGuardWork
    <3>2. flk[f] \in Procs \ {p}
      BY <1>4, <3>1 DEF TypeInv, TypeOK
    <3> QED
      BY <3>1, <3>2 DEF Alone
  <2> QED
    BY <2>1, <2>2
<1> QED
  BY <1>3, <1>4 DEF LocksGuardWork

\* p lets go of every file it has locked.
LEMMA UnlockKeepsLocks ==
    ASSUME LocksGuardWork, TypeInv, NEW p \in Procs, Alone(p), pc'[p] \notin AtWork,
           \A f \in Inodes : flk'[f] = IF flk[f] = p THEN Nobody ELSE flk[f]
    PROVE  LocksGuardWork'
<1>1. ASSUME NEW q \in Procs, pc'[q] \in AtWork
      PROVE  flk'[call'[q].fd] = q
  BY <1>1 DEF LocksGuardWork, TypeInv, FilesKnown, Alone
<1>2. ASSUME NEW f \in Inodes, flk'[f] # Nobody
      PROVE  pc'[flk'[f]] \in AtWork /\ call'[flk'[f]].fd = f
  BY <1>2 DEF LocksGuardWork, TypeInv, TypeOK, Alone
<1> QED
  BY <1>1, <1>2 DEF LocksGuardWork

\* Whoever is at work lets go of one file only.
LEMMA OneLock ==
    ASSUME LocksGuardWork, TypeInv, NEW p \in Procs, pc[p] \in AtWork
    PROVE  \A f \in Inodes : [flk EXCEPT ![call[p].fd] = Nobody][f] =
                               IF flk[f] = p THEN Nobody ELSE flk[f]
<1>1. flk \in [Inodes -> Procs \cup {Nobody}] /\ p # Nobody
  BY ArticleAssumption DEF TypeInv, TypeOK
<1>2. flk[call[p].fd] = p
  BY DEF LocksGuardWork
<1>3. \A f \in Inodes : flk[f] = p => f = call[p].fd
  BY <1>1 DEF LocksGuardWork
<1> QED
  BY <1>1, <1>2, <1>3

LEMMA ReturnAlone ==
    ASSUME TypeInv, NEW p \in Procs, Return(p)
    PROVE  Alone(p) /\ pc'[p] = "idle"
<1>1. pc'[p] = "idle" /\ \A q \in Procs \ {p} : call'[q] = call[q] /\ pc'[q] = pc[q]
  BY ZenonT(60), ReturnType
<1> QED
  BY <1>1 DEF Alone

Step(p) == AddRecommend(p) \/ ModifyDirLite(p) \/ EditPost(p)
             \/ AppendMergeReplace(p) \/ DelPost(p) \/ Crash(p)

LEMMA StepAlone ==
    ASSUME TypeInv, NEW p \in Procs, Step(p)
    PROVE  Alone(p)
BY ReturnAlone
  DEF TypeInv, TypeOK, Alone, Goto, Step, AddRecommend, ModifyDirLite, EditPost,
      AppendMergeReplace, DelPost, Crash,
      CallComment, COpen, CFlock, GiveUp, CReopen, CWrite, CUnlock, CStat,
      ModifyRead, ModifyWrite, CallEdit, ECopy, EEdit, EHash, EOpen, ESize, EFlock,
      EMerge, EUnlink, ERename, EUnlock, SafeDelete, DUnlink

LEMMA StepLocks ==
    ASSUME LockInv, NEW p \in Procs, Step(p)
    PROVE  LocksGuardWork'
<1>a. /\ TypeInv /\ TypeOK /\ LocksGuardWork /\ Alone(p)
      /\ pc \in [Procs -> Labels] /\ call \in [Procs -> Call] /\ call[p] \in Call
  BY StepAlone DEF LockInv, TypeInv, TypeOK
<1>b. /\ Return(p) => pc'[p] = "idle"
      /\ \A l : Goto(p, l) => pc'[p] = l
  BY <1>a, ReturnAlone DEF Goto
<1>1. CASE UNCHANGED flk /\ pc[p] \notin AtWork /\ pc'[p] \notin AtWork
  BY <1>1, <1>a, AwayKeepsLocks
<1>2. CASE CFlock(p) \/ EFlock(p)
  <2>1. CASE /\ flk' = [flk EXCEPT ![call[p].fd] = p] /\ CanLock(call[p].fd)
             /\ UNCHANGED call /\ pc'[p] \in AtWork
    <3>1. pc[p] \notin AtWork
      BY <1>2 DEF CFlock, EFlock, AtWork
    <3> QED
      BY <2>1, <3>1, <1>a, LockKeepsLocks
  <2>2. CASE UNCHANGED flk /\ pc'[p] \notin AtWork
    <3>1. pc[p] \notin AtWork
      BY <1>2 DEF CFlock, EFlock, AtWork
    <3> QED
      BY <2>2, <3>1, <1>1
  <2> QED
    BY <1>2, <1>b, <2>1, <2>2 DEF CFlock, EFlock, GiveUp, AtWork
<1>3. CASE CUnlock(p) \/ EUnlock(p)
  <2>1. flk' = [flk EXCEPT ![call[p].fd] = Nobody] /\ pc[p] \in AtWork /\ pc'[p] \notin AtWork
    BY <1>3, <1>b DEF CUnlock, EUnlock, AtWork
  <2> QED
    BY <2>1, <1>a, OneLock, UnlockKeepsLocks
<1>4. CASE CWrite(p) \/ EMerge(p) \/ EUnlink(p) \/ ERename(p)
  <2>1. UNCHANGED flk /\ UNCHANGED call /\ pc[p] \in AtWork /\ pc'[p] \in AtWork
    BY <1>4, <1>b DEF CWrite, EMerge, EUnlink, ERename, AtWork
  <2> QED
    BY <2>1, <1>a, WorkKeepsLocks
<1>5. CASE Crash(p)
  <2>1. pc'[p] \notin AtWork
    BY <1>5, <1>b DEF Crash, AtWork
  <2> QED
    BY <1>5, <2>1, <1>a, UnlockKeepsLocks DEF Crash
<1>6. CASE CallComment(p) \/ COpen(p) \/ CReopen(p) \/ CStat(p)
  BY <1>6, <1>1, <1>b DEF CallComment, COpen, CReopen, CStat, AtWork
<1>7. CASE ModifyDirLite(p)
  BY <1>7, <1>1, <1>b DEF ModifyDirLite, ModifyRead, ModifyWrite, AtWork
<1>8. CASE EditPost(p)
  BY <1>8, <1>1, <1>b DEF EditPost, CallEdit, ECopy, EEdit, EHash, AtWork
<1>9. CASE EOpen(p) \/ ESize(p)
  BY <1>9, <1>1, <1>b DEF EOpen, ESize, AtWork
<1>10. CASE DelPost(p)
  BY <1>10, <1>1, <1>b DEF DelPost, SafeDelete, DUnlink, AtWork
<1> QED
  BY <1>2, <1>3, <1>4, <1>5, <1>6, <1>7, <1>8, <1>9, <1>10
    DEF Step, AddRecommend, AppendMergeReplace

LEMMA NextStep == Next <=> \E p \in Procs : Step(p)
BY DEF Next, Step

LEMMA NextLocks == LockInv /\ [Next]_vars => LockInv'
<1> SUFFICES ASSUME LockInv, [Next]_vars PROVE LockInv'
  OBVIOUS
<1>1. TypeInv'
  BY NextType DEF LockInv
<1>2. CASE UNCHANGED vars
  BY <1>1, <1>2 DEF vars, LockInv, LocksGuardWork
<1>3. CASE Next
  BY <1>1, <1>3, NextStep, StepLocks DEF LockInv
<1> QED
  BY <1>2, <1>3

LEMMA InitLocks == Init => LockInv
BY InitType, ArticleAssumption DEF Init, LockInv, LocksGuardWork, AtWork

\* Whoever writes to the article or replaces it has the lock of the inode it
\* works on, alone, and whoever has a lock is about to release it, also after
\* edits that changed the inode under its name and after deaths
\* (bbs.c:2664-2677, 1777-1793).
THEOREM LocksCorrect == Spec => []LocksGuardWork
<1>1. Spec => []LockInv
  BY InitLocks, NextLocks, PTL DEF Spec
<1>2. LockInv => LocksGuardWork
  BY DEF LockInv
<1> QED
  BY <1>1, <1>2, PTL

-----------------------------------------------------------------------------
(* Votes                                                                   *)

\* A comment was made and its vote may not be in .DIR yet.
Voting == {"c_stat", "m_read", "m_write"}

\* A comment in hand is nobody else's; it is made when it is voted for, and
\* not before.
ItemsKnown ==
    /\ acked \subseteq used
    /\ \A p \in Procs :
        /\ call[p].update = 1 => call[p].item \in Good
        /\ call[p].update = -1 => call[p].item \in Bad
        /\ pc[p] \notin Commenting \cup Voting => call[p].item \notin Comments
        /\ call[p].item \in Comments =>
              /\ call[p].item \in used
              /\ call[p].item \in acked <=> pc[p] \in Voting
              /\ \A q \in Procs \ {p} : call[q].item # call[p].item

\* The comments of which nobody outside Q still has the vote.
Settled(Q) ==
    {c \in acked : \A p \in Procs \ Q : pc[p] \in Voting => call[p].item # c}

\* A score n that counts only comments of S.
Fits(n, S) == n <= Cardinality(S \cap Good) /\ -n <= Cardinality(S \cap Bad)

ScoresFit ==
    /\ Fits(dir.score, Settled({}))
    /\ \A p \in Procs : pc[p] = "m_write" => Fits(call[p].hdr.score, Settled({p}))

VoteInv == TypeInv /\ IsFiniteSet(acked) /\ ItemsKnown /\ ScoresFit

LEMMA FitsMore ==
    ASSUME NEW n \in Int, NEW S, NEW T, S \subseteq T, IsFiniteSet(T), Fits(n, S)
    PROVE  Fits(n, T)
<1> DEFINE A == S \cap Good
           B == T \cap Good
           C == S \cap Bad
           D == T \cap Bad
<1>1. IsFiniteSet(B) /\ IsFiniteSet(D)
  BY FS_Subset
<1>2. A \subseteq B /\ C \subseteq D
  OBVIOUS
<1>3. /\ Cardinality(A) \in Nat /\ Cardinality(B) \in Nat /\ Cardinality(A) <= Cardinality(B)
      /\ Cardinality(C) \in Nat /\ Cardinality(D) \in Nat /\ Cardinality(C) <= Cardinality(D)
  BY <1>1, <1>2, FS_Subset, FS_CardinalityType
<1> QED
  BY <1>3 DEF Fits

\* modify_dir_lite adds one vote, or none, and clamps.
LEMMA ClampFits ==
    ASSUME NEW n \in -MAX_RECOMMENDS..MAX_RECOMMENDS, NEW u \in {-1, 0, 1},
           NEW S, NEW T, NEW c, IsFiniteSet(T), S \subseteq T, Fits(n, S),
           u # 0 => c \in T /\ c \notin S,
           u = 1 => c \in Good, u = -1 => c \in Bad
    PROVE  Fits(Clamp(n + u), T)
<1> DEFINE A == T \cap Good
           B == T \cap Bad
<1>1. IsFiniteSet(A) /\ IsFiniteSet(B)
  BY FS_Subset
<1>2. Cardinality(A) \in Nat /\ Cardinality(B) \in Nat
  BY <1>1, FS_CardinalityType
<1>3. n \in Int /\ MAX_RECOMMENDS \in Nat /\ n + u \in Int
  BY ArticleAssumption
<1>4. n <= Cardinality(A) /\ -n <= Cardinality(B)
  BY <1>3, FitsMore DEF Fits
<1>5. n + u <= Cardinality(A)
  <2>1. CASE u = 1
    <3>1. S \cap Good \subseteq A \ {c} /\ c \in A
      BY <2>1
    <3>2. /\ IsFiniteSet(A \ {c}) /\ Cardinality(A \ {c}) = Cardinality(A) - 1
          /\ Cardinality(S \cap Good) <= Cardinality(A \ {c})
          /\ Cardinality(S \cap Good) \in Nat
      BY <1>1, <3>1, FS_RemoveElement, FS_Subset, FS_CardinalityType
    <3> HIDE DEF A, B
    <3> QED
      BY <1>2, <1>3, <2>1, <3>2 DEF Fits
  <2>2. CASE u # 1
    <3> HIDE DEF A, B
    <3> QED
      BY <1>2, <1>3, <1>4, <2>2
  <2> QED
    BY <2>1, <2>2
<1>6. -(n + u) <= Cardinality(B)
  <2>1. CASE u = -1
    <3>1. S \cap Bad \subseteq B \ {c} /\ c \in B
      BY <2>1
    <3>2. /\ IsFiniteSet(B \ {c}) /\ Cardinality(B \ {c}) = Cardinality(B) - 1
          /\ Cardinality(S \cap Bad) <= Cardinality(B \ {c})
          /\ Cardinality(S \cap Bad) \in Nat
      BY <1>1, <3>1, FS_RemoveElement, FS_Subset, FS_CardinalityType
    <3> HIDE DEF A, B
    <3> QED
      BY <1>2, <1>3, <2>1, <3>2 DEF Fits
  <2>2. CASE u # -1
    <3> HIDE DEF A, B
    <3> QED
      BY <1>2, <1>3, <1>4, <2>2
  <2> QED
    BY <2>1, <2>2
<1> DEFINE m == n + u
<1>7. m \in Int /\ m <= Cardinality(A) /\ -m <= Cardinality(B)
  BY <1>3, <1>5, <1>6
<1> HIDE DEF A, B, m
<1>8. Clamp(m) <= Cardinality(A) /\ -Clamp(m) <= Cardinality(B)
  BY <1>2, <1>3, <1>7 DEF Clamp
<1> QED
  BY <1>8 DEF Fits, A, B, m

LEMMA ReturnItems ==
    ASSUME TypeInv, ItemsKnown, NEW p \in Procs, Return(p), used' = used, acked' = acked
    PROVE  ItemsKnown'
<1>1. /\ pc'[p] = "idle" /\ call'[p].item \notin Comments /\ call'[p].update = 0
      /\ \A q \in Procs \ {p} : pc'[q] = pc[q] /\ call'[q] = call[q]
  BY ReturnType, ArticleAssumption DEF NoCall
<1> QED
  BY <1>1 DEF ItemsKnown, Commenting, Voting

\* The item in hand stays what it is.
LEMMA SameItems ==
    ASSUME ItemsKnown, NEW p \in Procs, Alone(p),
           call'[p].item = call[p].item, call'[p].update = call[p].update,
           used' = used, acked' = acked,
           call[p].item \in Comments =>
               (pc'[p] \in Commenting \cup Voting) /\ (pc'[p] \in Voting <=> pc[p] \in Voting)
    PROVE  ItemsKnown'
BY DEF ItemsKnown, Alone

LEMMA KeepsItem ==
    ASSUME TypeInv, NEW p \in Procs, Step(p)
    PROVE  \/ Return(p) \/ CallComment(p)
           \/ EEdit(p) /\ pc'[p] = "e_hash"
           \/ call'[p].item = call[p].item /\ call'[p].update = call[p].update
<1>a. pc \in [Procs -> Labels] /\ call \in [Procs -> Call] /\ call[p] \in Call
  BY DEF TypeInv, TypeOK
<1>1. CASE AddRecommend(p)
  BY <1>1, <1>a DEF Call, AddRecommend, COpen, CFlock, GiveUp, CReopen, CWrite, CUnlock, CStat
<1>2. CASE ModifyDirLite(p)
  BY <1>2, <1>a DEF Call, ModifyDirLite, ModifyRead, ModifyWrite
<1>3. CASE EditPost(p)
  <2>1. EEdit(p) => Return(p) \/ pc'[p] = "e_hash"
    BY <1>a DEF EEdit, Goto
  <2>2. CASE CallEdit(p) \/ ECopy(p) \/ EHash(p)
    BY ZenonT(60), <2>2, <1>a DEF Call, CallEdit, ECopy, EHash
  <2> QED
    BY <1>3, <2>1, <2>2 DEF EditPost
<1>4. CASE AppendMergeReplace(p)
  BY <1>4, <1>a DEF Call, AppendMergeReplace, EOpen, ESize, EFlock, EMerge, EUnlink,
    ERename, EUnlock
<1>5. CASE DelPost(p) \/ Crash(p)
  BY <1>5, <1>a DEF DelPost, SafeDelete, DUnlink, Crash
<1> QED
  BY <1>1, <1>2, <1>3, <1>4, <1>5 DEF Step

LEMMA StepItems ==
    ASSUME TypeInv, ItemsKnown, NEW p \in Procs, Step(p)
    PROVE  ItemsKnown' /\ acked \subseteq acked'
<1>a. /\ TypeOK /\ Alone(p) /\ pc \in [Procs -> Labels] /\ call \in [Procs -> Call]
      /\ call[p] \in Call /\ used \subseteq Item /\ acked \subseteq Comments
  BY StepAlone DEF TypeInv, TypeOK
<1>b. \A l : Goto(p, l) => pc'[p] = l
  BY <1>a DEF Goto
<1> USE DEF Commenting, Voting
<1>1. CASE Return(p) /\ used' = used /\ acked' = acked
  BY <1>1, ReturnItems
<1>2. CASE /\ call'[p].item = call[p].item /\ call'[p].update = call[p].update
           /\ used' = used /\ acked' = acked
           /\ \/ call[p].item \notin Comments
              \/ pc'[p] \in Commenting \cup Voting /\ (pc'[p] \in Voting <=> pc[p] \in Voting)
  BY <1>2, <1>a, SameItems
<1>3. CASE CallComment(p)
  <2> PICK c \in Comments \ used :
        /\ used' = used \cup {c}
        /\ call' = [call EXCEPT ![p] = [NoCall EXCEPT !.item = c,
                        !.update = Vote(c), !.tries = LockRetry]]
    BY ZenonT(60), <1>3 DEF CallComment
  <2>1. call'[p].item = c /\ call'[p].update = Vote(c) /\ pc'[p] = "c_open" /\ acked' = acked
    <3> DEFINE k == [NoCall EXCEPT !.item = c, !.update = Vote(c), !.tries = LockRetry]
    <3>1. k.item = c /\ k.update = Vote(c)
      BY ZenonT(60), VoteType, CommentCall
    <3> HIDE DEF k
    <3>2. call'[p] = k
      BY <1>a DEF k
    <3>3. Goto(p, "c_open") /\ acked' = acked
      BY <1>3 DEF CallComment
    <3>4. pc'[p] = "c_open"
      BY <1>b, <3>3
    <3> QED
      BY <3>1, <3>2, <3>3, <3>4
  <2>2. \A q \in Procs : call[q].item \in Comments => call[q].item # c
    BY DEF ItemsKnown
  <2>3. (Vote(c) = 1 => c \in Good) /\ (Vote(c) = -1 => c \in Bad)
    BY DEF Vote
  <2>4. c \notin acked
    BY DEF ItemsKnown
  <2> QED
    BY <1>a, <2>1, <2>2, <2>3, <2>4 DEF ItemsKnown, Alone
<1>4. CASE COpen(p) \/ CFlock(p) \/ CReopen(p) \/ CWrite(p) \/ CStat(p)
  <2>1. \/ Return(p) /\ used' = used /\ acked' = acked
        \/ /\ call'[p].item = call[p].item /\ call'[p].update = call[p].update
           /\ used' = used /\ acked' = acked
           /\ pc'[p] \in Commenting \cup Voting /\ (pc'[p] \in Voting <=> pc[p] \in Voting)
    BY <1>4, <1>a, <1>b DEF Call, COpen, CFlock, GiveUp, CReopen, CWrite, CStat
  <2> QED
    BY <2>1, <1>1, <1>2
<1>5. CASE CUnlock(p)
  <2>1. /\ call'[p].item = call[p].item /\ call'[p].update = call[p].update
        /\ used' = used /\ acked' = acked \cup {call[p].item}
        /\ pc[p] = "c_unlock" /\ pc'[p] = "c_stat"
    BY <1>5, <1>a, <1>b DEF CUnlock, Call
  <2>2. call[p].item \in used /\ call[p].item \in Comments
    BY <2>1 DEF TypeInv, FilesKnown, ItemsKnown
  <2>3. \A q \in Procs \ {p} : call[q].item # call[p].item
    BY <2>2 DEF ItemsKnown
  <2> QED
    BY <1>a, <2>1, <2>2, <2>3 DEF ItemsKnown, Alone
<1>6. CASE ModifyDirLite(p)
  <2>1. \/ Return(p) /\ used' = used /\ acked' = acked
        \/ /\ call'[p].item = call[p].item /\ call'[p].update = call[p].update
           /\ used' = used /\ acked' = acked /\ pc[p] = "m_read" /\ pc'[p] = "m_write"
    BY <1>6, <1>a, <1>b DEF Call, ModifyDirLite, ModifyRead, ModifyWrite
  <2> QED
    BY <2>1, <1>1, <1>2
<1>7. CASE EEdit(p)
  <2>1. CASE Return(p) /\ UNCHANGED <<text, used>>
    BY <1>7, <2>1, <1>1 DEF EEdit
  <2>2. CASE ~ (Return(p) /\ UNCHANGED <<text, used>>)
    <3> PICK b \in Bodies \ used :
          /\ used' = used \cup {b}
          /\ call' = [call EXCEPT ![p].item = b]
      BY <1>7, <2>2 DEF EEdit
    <3>1. /\ call'[p].item = b /\ call'[p].update = call[p].update
          /\ acked' = acked /\ pc[p] = "e_edit" /\ pc'[p] = "e_hash"
      BY <1>7, <2>2, <1>a, <1>b DEF EEdit, Call
    <3>2. call[p].item \notin Comments /\ b \notin Comments
      BY <3>1, ArticleAssumption DEF ItemsKnown
    <3>3. call[p].update \notin {1, -1}
      BY <3>2, ArticleAssumption DEF ItemsKnown
    <3> QED
      BY <1>a, <3>1, <3>2, <3>3 DEF ItemsKnown, Alone
  <2> QED
    BY <2>1, <2>2
<1>8. CASE CallEdit(p) \/ ECopy(p) \/ EHash(p) \/ AppendMergeReplace(p)
  <2>1. pc[p] \notin Commenting \cup Voting
    BY <1>8 DEF CallEdit, ECopy, EHash, AppendMergeReplace, EOpen, ESize, EFlock,
        EMerge, EUnlink, ERename, EUnlock
  <2>2. call[p].item \notin Comments
    BY <2>1 DEF ItemsKnown
  <2>3. \/ Return(p) /\ used' = used /\ acked' = acked
        \/ /\ call'[p].item = call[p].item /\ call'[p].update = call[p].update
           /\ used' = used /\ acked' = acked
    <3>1. CASE CallEdit(p) \/ EFlock(p) \/ EMerge(p) \/ EUnlink(p) \/ ERename(p)
      BY <3>1 DEF CallEdit, EFlock, EMerge, EUnlink, ERename
    <3>2. CASE EHash(p) \/ ESize(p)
      BY <3>2, <1>a DEF Call, EHash, ESize
    <3>3. CASE ECopy(p)
      BY <3>3, <1>a DEF Call, ECopy
    <3>4. CASE EOpen(p) \/ EUnlock(p)
      BY <3>4, <1>a DEF Call, EOpen, EUnlock
    <3> QED
      BY <1>8, <3>1, <3>2, <3>3, <3>4 DEF AppendMergeReplace
  <2> QED
    BY <2>2, <2>3, <1>1, <1>2
<1>9. CASE DelPost(p)
  <2>1. CASE SafeDelete(p)
    <3>1. /\ call' = call /\ used' = used /\ acked' = acked /\ pc[p] = "idle"
      BY <2>1 DEF SafeDelete
    <3>2. call[p].item \notin Comments
      BY <3>1 DEF ItemsKnown
    <3> QED
      BY <3>1, <3>2, <1>2
  <2>2. CASE DUnlink(p)
    BY <2>2, <1>1 DEF DUnlink
  <2> QED
    BY <1>9, <2>1, <2>2 DEF DelPost
<1>10. CASE Crash(p)
  BY <1>10, <1>1 DEF Crash
<1> QED
  BY <1>3, <1>4, <1>5, <1>6, <1>7, <1>8, <1>9, <1>10
    DEF Step, AddRecommend, EditPost

\* A comment that is settled stays so: only the vote for a comment that was
\* not made yet is taken up.
LEMMA StepSettled ==
    ASSUME TypeInv, ItemsKnown, NEW p \in Procs, Step(p), NEW Q
    PROVE  Settled(Q) \subseteq Settled(Q)'
<1>a. /\ TypeOK /\ Alone(p) /\ pc \in [Procs -> Labels] /\ call \in [Procs -> Call]
      /\ call[p] \in Call /\ acked \subseteq acked' /\ acked \subseteq Comments
      /\ ItemsKnown' /\ TypeInv'
  BY StepAlone, StepItems, NextStep, NextType DEF TypeInv, TypeOK
<1>c. pc'[p] \in Voting => Return(p) \/ call'[p].item = call[p].item
  <2>1. CallComment(p) => pc'[p] = "c_open"
    BY <1>a DEF CallComment, Goto
  <2> QED
    BY <2>1, KeepsItem DEF Voting
<1>1. ASSUME pc'[p] \in Voting, NEW c \in acked, pc[p] \in Voting => call[p].item # c
      PROVE  call'[p].item # c
  <2>1. CASE pc[p] \in Voting
    <3>1. \/ Return(p)
          \/ call'[p].item = call[p].item
      BY <2>1, <1>1, <1>c
    <3>2. ~ Return(p)
      BY <1>1, ReturnType DEF Voting
    <3> QED
      BY <1>1, <2>1, <3>1, <3>2
  <2>2. CASE pc[p] \notin Voting
    <3>1. call[p].item \notin acked
      BY <1>a, <2>2 DEF ItemsKnown
    <3>2. call'[p].item = call[p].item
      BY <2>2, <1>1, <1>c, ReturnType DEF Voting
    <3> QED
      BY <1>1, <3>1, <3>2
  <2> QED
    BY <2>1, <2>2
<1>2. ASSUME NEW c \in Settled(Q), NEW q \in Procs \ Q, pc'[q] \in Voting
      PROVE  call'[q].item # c
  <2>1. c \in acked /\ (pc[q] \in Voting => call[q].item # c)
    BY DEF Settled
  <2> QED
    BY <1>1, <1>2, <1>a, <2>1 DEF Alone
<1> QED
  BY <1>2, <1>a DEF Settled

LEMMA NextVotes ==
    ASSUME VoteInv, NEW p \in Procs, Step(p)
    PROVE  VoteInv'
<1>a. /\ TypeInv /\ TypeOK /\ ItemsKnown /\ ScoresFit /\ Alone(p) /\ IsFiniteSet(acked)
      /\ pc \in [Procs -> Labels] /\ call \in [Procs -> Call] /\ call[p] \in Call
      /\ dir \in Header /\ TypeInv' /\ ItemsKnown'
      /\ \A Q : Settled(Q) \subseteq Settled(Q)'
  BY StepAlone, StepItems, StepSettled, NextStep, NextType DEF VoteInv, TypeInv, TypeOK
<1>b. IsFiniteSet(acked')
  <2>1. acked' = acked \/ acked' = acked \cup {call[p].item}
    BY DEF Step, AddRecommend, ModifyDirLite, EditPost,
        AppendMergeReplace, DelPost, Crash,
        CallComment, COpen, CFlock, CReopen, CWrite, CUnlock, CStat,
        ModifyRead, ModifyWrite, CallEdit, ECopy, EEdit, EHash, EOpen, ESize, EFlock,
        EMerge, EUnlink, ERename, EUnlock, SafeDelete, DUnlink
  <2>2. IsFiniteSet(acked)
    BY <1>a
  <2>3. IsFiniteSet(acked \cup {call[p].item})
    BY <2>2, FS_AddElement
  <2> QED
    BY <2>1, <2>2, <2>3
<1>c. \A Q : IsFiniteSet(Settled(Q)')
  <2>1. \A Q : Settled(Q)' \subseteq acked'
    BY DEF Settled
  <2> QED
    BY <1>b, <2>1, FS_Subset
<1>d. /\ dir.score \in -MAX_RECOMMENDS..MAX_RECOMMENDS /\ dir.score \in Int
      /\ \A q \in Procs : call[q].hdr.score \in Int
  BY <1>a, ArticleAssumption DEF Header, Call
<1>e. ASSUME NEW n \in Int, NEW Q, Fits(n, Settled(Q)) PROVE Fits(n, Settled(Q)')
  BY <1>a, <1>c, <1>e, FitsMore
<1>f. ASSUME NEW q \in Procs \ {p}, pc'[q] = "m_write"
      PROVE  Fits(call'[q].hdr.score, Settled({q})')
  <2>1. pc[q] = "m_write" /\ call'[q] = call[q]
    BY <1>a, <1>f DEF Alone
  <2>2. Fits(call[q].hdr.score, Settled({q}))
    BY <1>a, <2>1 DEF ScoresFit
  <2> QED
    BY <1>d, <1>e, <2>1, <2>2
<1>1. Fits(dir'.score, Settled({})')
  <2>1. CASE ModifyWrite(p)
    <3>1. dir' = call[p].hdr /\ pc[p] = "m_write" /\ Return(p)
      BY <2>1 DEF ModifyWrite
    <3>2. Fits(dir'.score, Settled({p})')
      BY <1>a, <1>d, <1>e, <3>1 DEF ScoresFit
    <3>3. Settled({p})' = Settled({})'
      <4>1. pc'[p] = "idle"
        BY <3>1, <1>a, ReturnType
      <4> QED
        BY <4>1 DEF Settled, Voting
    <3> QED
      BY <3>2, <3>3
  <2>2. CASE ~ ModifyWrite(p)
    <3>1. dir'.score = dir.score
      BY <1>a, <2>2 DEF Step, AddRecommend, ModifyDirLite, EditPost,
        AppendMergeReplace, DelPost, Crash, Header,
        CallComment, COpen, CFlock, CReopen, CWrite, CUnlock, CStat,
        ModifyRead, CallEdit, ECopy, EEdit, EHash, EOpen, ESize, EFlock,
        EMerge, EUnlink, ERename, EUnlock, SafeDelete, DUnlink
    <3> QED
      BY SMTT(40), <1>a, <1>d, <1>e, <3>1 DEF ScoresFit
  <2> QED
    BY <2>1, <2>2
<1>2. pc'[p] = "m_write" => Fits(call'[p].hdr.score, Settled({p})')
  <2> SUFFICES ASSUME pc'[p] = "m_write" PROVE Fits(call'[p].hdr.score, Settled({p})')
    OBVIOUS
  <2>1. ~ Return(p)
    BY SMTT(40), <1>a, ReturnType
  <2>2. ModifyRead(p)
    BY <1>a, <2>1 DEF Step, AddRecommend, ModifyDirLite, EditPost,
        AppendMergeReplace, DelPost, Crash, Goto,
        CallComment, COpen, CFlock, GiveUp, CReopen, CWrite, CUnlock, CStat,
        ModifyWrite, CallEdit, ECopy, EEdit, EHash, EOpen, ESize, EFlock,
        EMerge, EUnlink, ERename, EUnlock, SafeDelete, DUnlink
  <2> DEFINE u == call[p].update
             c == call[p].item
             S == Settled({})
             T == Settled({p})'
  <2>3. call'[p].hdr = Modified(p) /\ pc[p] = "m_read" /\ acked' = acked
    BY <1>a, <2>1, <2>2 DEF ModifyRead, Call
  <2>4. call'[p].hdr.score = Clamp(dir.score + u)
    BY <1>a, <2>3 DEF Modified, Header
  <2>5. u \in {-1, 0, 1} /\ (u = 1 => c \in Good) /\ (u = -1 => c \in Bad)
    BY <1>a DEF Call, ItemsKnown
  <2>6. S \subseteq T
    BY <1>a DEF Settled
  <2>7. u # 0 => c \in T /\ c \notin S
    <3> SUFFICES ASSUME u # 0 PROVE c \in T /\ c \notin S
      OBVIOUS
    <3>1. c \in Comments
      BY <2>5, ArticleAssumption
    <3>2. c \in acked /\ \A q \in Procs \ {p} : call[q].item # c
      BY <1>a, <2>3, <3>1 DEF ItemsKnown, Voting
    <3>3. c \in T
      BY <1>a, <2>3, <3>2 DEF Settled, Alone
    <3> QED
      BY <2>3, <3>3 DEF Settled, Voting
  <2>8. Fits(dir.score, S) /\ IsFiniteSet(T)
    BY <1>a, <1>c DEF ScoresFit
  <2> HIDE DEF u, c, S, T
  <2>9. Fits(Clamp(dir.score + u), T)
    BY <1>d, <2>5, <2>6, <2>7, <2>8, ClampFits
  <2> QED
    BY <2>4, <2>9 DEF T
<1>3. ScoresFit'
  BY <1>1, <1>2, <1>f DEF ScoresFit
<1> QED
  BY <1>a, <1>b, <1>3 DEF VoteInv

LEMMA InitVotes == Init => VoteInv
<1> SUFFICES ASSUME Init PROVE VoteInv
  OBVIOUS
<1>1. acked = {} /\ IsFiniteSet(acked) /\ dir.score = 0 /\ \A Q : Settled(Q) = {}
  BY FS_EmptySet DEF Init, Settled
<1>2. \A p \in Procs : pc[p] = "idle" /\ call[p].item = Body0 /\ call[p].update = 0
  BY DEF Init, NoCall
<1>3. ItemsKnown
  BY <1>1, <1>2, ArticleAssumption DEF ItemsKnown, Voting, Commenting
<1>4. Fits(0, {})
  <2>1. {} \cap Good = {} /\ {} \cap Bad = {} /\ Cardinality({}) = 0
    BY FS_EmptySet
  <2> QED
    BY <2>1 DEF Fits
<1> QED
  BY <1>1, <1>2, <1>3, <1>4, InitType DEF VoteInv, ScoresFit

\* The score counts no vote that was not made and none twice: neither lost
\* updates nor edits that write the header back put it outside the votes cast
\* (bbs.c:153-168, 2651, 2700-2719).
THEOREM ScoreCorrect == Spec => []ScoreWithinVotes
<1>1. ASSUME VoteInv, [Next]_vars PROVE VoteInv'
  <2>1. CASE UNCHANGED vars
    BY ZenonT(60), <1>1, <2>1 DEF vars, VoteInv, TypeInv, TypeOK, FilesKnown, ItemsKnown, ScoresFit, Settled
  <2>2. CASE Next
    BY <1>1, <2>2, NextStep, NextVotes
  <2> QED
    BY <1>1, <2>1, <2>2
<1>2. Spec => []VoteInv
  BY <1>1, InitVotes, PTL DEF Spec
<1>3. VoteInv => ScoreWithinVotes
  <2> SUFFICES ASSUME VoteInv PROVE ScoreWithinVotes
    OBVIOUS
  <2>1. dir.score \in Int
    BY ArticleAssumption DEF VoteInv, TypeInv, TypeOK, Header
  <2>2. Settled({}) \subseteq acked
    BY DEF Settled
  <2>3. Fits(dir.score, acked)
    BY <2>1, <2>2, FitsMore DEF VoteInv, ScoresFit
  <2> QED
    BY <2>3 DEF Fits, ScoreWithinVotes
<1> QED
  BY <1>2, <1>3, PTL

-----------------------------------------------------------------------------
(* One session of the author edits, whoever comments                       *)

OneEditor ==
    /\ Ops \subseteq {"comment", "edit"}
    /\ \A a, b \in Authors : a = b

\* A body, and what is below it.
IsArticle(t) == t # <<>> /\ Head(t) \in Bodies

IsPrefixOf(s, t) == Len(s) <= Len(t) /\ SubSeq(t, 1, Len(s)) = s

\* A comment that is not written yet is nowhere.
Unwritten == {"c_open", "c_flock", "c_reopen", "c_write"}
TextsKnown ==
    /\ \A f \in Inodes : ItemsOf(text[f]) \subseteq used
    /\ \A p \in Procs : pc[p] \in Unwritten =>
            \A f \in Inodes : call[p].item \notin ItemsOf(text[f])

\* The name leads to an article, except between unlink and rename; the copy
\* is no article and nobody else has it open.
EditLabels == Copying \cup {"e_copy", "e_unlock"}
PathKnown ==
    /\ \A p \in Procs : /\ pc[p] # "d_unlink"
                        /\ pc[p] \in EditLabels => p \in Authors
    /\ path = NoInode <=> \E a \in Procs : pc[a] = "e_rename"
    /\ path # NoInode => IsArticle(text[path])
    /\ \A a \in Procs : pc[a] \in Copying =>
            call[a].ino # path /\ \A q \in Procs : call[q].fd # call[a].ino

\* What the author works on: the article as copied is still the beginning of
\* the article; the copy has another body and, first, the comments that were
\* copied, then, under the lock, those of the article.
Copied == {"e_edit", "e_hash", "e_open", "e_size", "e_flock", "e_merge", "e_unlink"}
Edited == {"e_hash", "e_open", "e_size", "e_flock", "e_merge", "e_unlink"}
Merging == {"e_size", "e_flock", "e_merge", "e_unlink"}
CopyKnown(a) ==
    LET new == text[call[a].ino]  old == call[a].old IN
    /\ pc[a] \in Copied => old # <<>> /\ IsPrefixOf(old, text[path])
    /\ pc[a] = "e_edit" => new = old
    /\ pc[a] \in Edited => /\ IsArticle(new) /\ Head(new) # Head(text[path])
    /\ pc[a] \in Edited \ {"e_unlink"} => Tail(new) = Tail(old)
    /\ pc[a] = "e_unlink" => Tail(new) = Tail(text[path])
    /\ pc[a] \in Merging => call[a].fd = path
    /\ pc[a] = "e_rename" => IsArticle(new)

ThreadInv ==
    /\ LockInv /\ ItemsKnown
    /\ TextsKnown /\ PathKnown /\ \A a \in Procs : CopyKnown(a)

\* Texts that grow.
LEMMA AppendText ==
    ASSUME NEW t \in Seq(Item), NEW x \in Item
    PROVE  /\ ItemsOf(Append(t, x)) \subseteq ItemsOf(t) \cup {x}
           /\ \A s \in Seq(Item) : IsPrefixOf(s, t) => IsPrefixOf(s, Append(t, x))
           /\ t # <<>> => /\ Append(t, x) # <<>> /\ Head(Append(t, x)) = Head(t)
                          /\ Tail(Append(t, x)) = Append(Tail(t), x)
<1> DEFINE u == Append(t, x)
<1>1. /\ u \in Seq(Item) /\ Len(u) = Len(t) + 1 /\ Len(t) \in Nat
      /\ u[Len(t) + 1] = x /\ \A i \in 1..Len(t) : u[i] = t[i]
  BY AppendProperties, LenProperties
<1> HIDE DEF u
<1>2. ItemsOf(u) \subseteq ItemsOf(t) \cup {x}
  <2> SUFFICES ASSUME NEW i \in 1..Len(u) PROVE u[i] \in ItemsOf(t) \cup {x}
    BY DEF ItemsOf
  <2>1. i \in 1..Len(t) \/ i = Len(t) + 1
    BY <1>1
  <2> QED
    BY <1>1, <2>1 DEF ItemsOf
<1>3. ASSUME NEW s \in Seq(Item), IsPrefixOf(s, t) PROVE IsPrefixOf(s, u)
  <2>1. Len(s) \in Nat /\ Len(s) <= Len(t) /\ SubSeq(t, 1, Len(s)) = s
    BY <1>3, LenProperties DEF IsPrefixOf
  <2>2. /\ SubSeq(t, 1, Len(s)) \in Seq(Item) /\ Len(SubSeq(t, 1, Len(s))) = Len(s)
        /\ SubSeq(u, 1, Len(s)) \in Seq(Item) /\ Len(SubSeq(u, 1, Len(s))) = Len(s)
        /\ \A i \in 1..Len(s) : SubSeq(u, 1, Len(s))[i] = u[i] /\ SubSeq(t, 1, Len(s))[i] = t[i]
    BY <1>1, <2>1
  <2>3. \A i \in 1..Len(s) : u[i] = t[i]
    BY <1>1, <2>1
  <2>4. SubSeq(u, 1, Len(s)) = SubSeq(t, 1, Len(s))
    BY <2>2, <2>3, SeqEqual
  <2> QED
    BY <1>1, <2>1, <2>4 DEF IsPrefixOf
<1>4. ASSUME t # <<>>
      PROVE  u # <<>> /\ Head(u) = Head(t) /\ Tail(u) = Append(Tail(t), x)
  BY <1>4, HeadTailAppend DEF u
<1> QED
  BY <1>2, <1>3, <1>4 DEF u

LEMMA RewrittenItems ==
    ASSUME NEW t \in Seq(Item), NEW b \in Bodies
    PROVE  ItemsOf(Rewritten(t, b)) \subseteq ItemsOf(t) \cup {b}
<1>1. CASE t = <<>>
  <2>1. Rewritten(t, b) = <<b>>
    BY <1>1 DEF Rewritten
  <2>2. Len(<<b>>) = 1 /\ <<b>>[1] = b
    OBVIOUS
  <2> QED
    BY <2>1, <2>2 DEF ItemsOf
<1>2. CASE t # <<>>
  <2>1. Rewritten(t, b) = [t EXCEPT ![1] = b]
    BY <1>2 DEF Rewritten
  <2>2. Len([t EXCEPT ![1] = b]) = Len(t) /\ Len(t) \in Nat
        /\ \A i \in 1..Len(t) : [t EXCEPT ![1] = b][i] \in {t[i], b}
    BY LenProperties, <2>1, RewrittenType
  <2> QED
    BY <2>1, <2>2 DEF ItemsOf
<1> QED
  BY <1>1, <1>2

LEMMA PrefixReflexive == ASSUME NEW t \in Seq(Item) PROVE IsPrefixOf(t, t)
<1>1. Len(t) \in Nat
  BY LenProperties
<1>2. SubSeq(t, 1, Len(t)) = t
  <2>1. SubSeq(t, 1, Len(t)) \in Seq(Item) /\ Len(SubSeq(t, 1, Len(t))) = Len(t)
        /\ \A i \in 1..Len(t) : SubSeq(t, 1, Len(t))[i] = t[i]
    BY <1>1
  <2> QED
    BY <2>1, SeqEqual
<1> QED
  BY <1>1, <1>2 DEF IsPrefixOf

\* The merge: new is the copy of s with another body, t has grown from s.
LEMMA MergeText ==
    ASSUME NEW s \in Seq(Item), NEW t \in Seq(Item), NEW new \in Seq(Item),
           s # <<>>, new # <<>>, IsPrefixOf(s, t), Tail(new) = Tail(s)
    PROVE  LET x == SubSeq(t, Len(s) + 1, Len(t)) IN
           /\ new \o x # <<>> /\ Head(new \o x) = Head(new) /\ Tail(new \o x) = Tail(t)
           /\ ItemsOf(new \o x) \subseteq ItemsOf(new) \cup ItemsOf(t)
<1> DEFINE x == SubSeq(t, Len(s) + 1, Len(t))
           m == Len(s)
           u == new \o x
<1>1. Len(s) \in Nat \ {0} /\ Len(t) \in Nat \ {0} /\ m <= Len(t) /\ SubSeq(t, 1, m) = s
      /\ Len(new) \in Nat \ {0} /\ t # <<>>
  <2>1. Len(s) \in Nat \ {0} /\ Len(new) \in Nat \ {0} /\ Len(t) \in Nat
    BY EmptySeq, LenProperties
  <2>2. m <= Len(t) /\ SubSeq(t, 1, m) = s
    BY DEF IsPrefixOf
  <2> QED
    BY <2>1, <2>2, EmptySeq
<1>2. x \in Seq(Item) /\ Len(x) = Len(t) - m /\ \A i \in 1..Len(t) - m : x[i] = t[m + i]
  BY <1>1, SubSeqProperties
<1>3. \A i \in 1..m : s[i] = t[i]
  <2>1. \A i \in 1..m : SubSeq(t, 1, m)[i] = t[i]
    BY <1>1
  <2> QED
    BY <1>1, <2>1
<1>4. Len(new) = m /\ \A i \in 2..m : new[i] = s[i]
  <2>1. /\ Len(Tail(new)) = Len(new) - 1 /\ Len(Tail(s)) = m - 1
        /\ \A i \in 1..Len(new) - 1 : Tail(new)[i] = new[i + 1]
        /\ \A i \in 1..m - 1 : Tail(s)[i] = s[i + 1]
    BY HeadTailProperties
  <2>2. Len(new) = m
    <3>1. Len(new) - 1 = Len(s) - 1
      BY <2>1
    <3> QED
      BY SMTT(40), <1>1, <3>1
  <2>3. ASSUME NEW i \in 2..m PROVE new[i] = s[i]
    <3>1. i - 1 \in 1..m - 1 /\ i = (i - 1) + 1
      BY <1>1
    <3> QED
      BY <2>1, <2>2, <3>1
  <2> QED
    BY <2>2, <2>3
<1>5. /\ u \in Seq(Item) /\ Len(u) = Len(t)
      /\ \A i \in 1..m : u[i] = new[i]
      /\ \A i \in m + 1..Len(t) : u[i] = x[i - m]
  <2>1. /\ u \in Seq(Item) /\ Len(u) = Len(new) + Len(x)
        /\ \A i \in 1 .. Len(new) + Len(x) :
              u[i] = IF i <= Len(new) THEN new[i] ELSE x[i - Len(new)]
    BY <1>2, ConcatProperties
  <2> HIDE DEF u, x
  <2>2. m \in Nat /\ Len(t) \in Nat /\ m <= Len(t) /\ Len(new) = m /\ Len(x) = Len(t) - m
    BY <1>1, <1>2, <1>4
  <2> HIDE DEF m
  <2>3. Len(u) = Len(t) /\ \A i \in 1..Len(t) : u[i] = IF i <= m THEN new[i] ELSE x[i - m]
    BY <2>1, <2>2
  <2>4. ASSUME NEW i \in 1..m PROVE u[i] = new[i]
    <3>1. i \in 1..Len(t) /\ i <= m
      BY <2>2
    <3> QED
      BY <2>3, <3>1
  <2>5. ASSUME NEW i \in m + 1..Len(t) PROVE u[i] = x[i - m]
    <3>1. i \in 1..Len(t) /\ ~(i <= m)
      BY <2>2
    <3> QED
      BY <2>3, <3>1
  <2> QED
    BY <2>1, <2>3, <2>4, <2>5
<1> HIDE DEF u, x
<1>6. \A i \in m + 1..Len(t) : u[i] = t[i]
  <2> TAKE i \in m + 1..Len(t)
  <2>1. i - m \in 1..Len(t) - m /\ m + (i - m) = i
    BY <1>1
  <2> QED
    BY <1>2, <1>5, <2>1
<1>7. u # <<>> /\ Head(u) = Head(new) /\ u[1] = new[1]
  BY <1>1, <1>5
<1>8. \A i \in 2..Len(t) : u[i] = t[i]
  <2> TAKE i \in 2..Len(t)
  <2>1. i \in 2..m \/ i \in m + 1..Len(t)
    BY <1>1
  <2> QED
    BY <1>1, <1>3, <1>4, <1>5, <1>6, <2>1
<1>9. Tail(u) = Tail(t)
  <2>1. /\ Tail(u) \in Seq(Item) /\ Len(Tail(u)) = Len(t) - 1
        /\ Tail(t) \in Seq(Item) /\ Len(Tail(t)) = Len(t) - 1
        /\ \A i \in 1..Len(t) - 1 : Tail(u)[i] = u[i + 1] /\ Tail(t)[i] = t[i + 1]
    BY <1>1, <1>5, <1>7, HeadTailProperties
  <2>2. \A i \in 1..Len(t) - 1 : Tail(u)[i] = Tail(t)[i]
    <3> TAKE i \in 1..Len(t) - 1
    <3>1. i + 1 \in 2..Len(t)
      BY <1>1
    <3> QED
      BY <1>8, <2>1, <3>1
  <2> QED
    BY <2>1, <2>2, SeqEqual
<1>10. ItemsOf(u) \subseteq ItemsOf(new) \cup ItemsOf(t)
  <2> SUFFICES ASSUME NEW i \in 1..Len(t) PROVE u[i] \in ItemsOf(new) \cup ItemsOf(t)
    BY <1>5 DEF ItemsOf
  <2>1. CASE i = 1
    BY <1>1, <1>7, <2>1 DEF ItemsOf
  <2>2. CASE i # 1
    BY <1>8, <2>2 DEF ItemsOf
  <2> QED
    BY <2>1, <2>2
<1> QED
  BY <1>7, <1>9, <1>10 DEF u, x

LEMMA EditorAlone ==
    ASSUME OneEditor, PathKnown, NEW a \in Procs, NEW q \in Procs,
           pc[a] \in EditLabels, pc[q] \in EditLabels
    PROVE  a = q
<1>1. a \in Authors /\ q \in Authors
  BY DEF PathKnown, EditLabels
<1> QED
  BY <1>1 DEF OneEditor

\* The steps that leave the texts and the name alone.
Quiet(p) ==
    /\ UNCHANGED <<text, path>>
    /\ call'[p].fd \in {call[p].fd, path, NoInode}
    /\ pc[p] \notin {"e_unlink", "e_rename"} /\ pc'[p] # "e_rename"

LEMMA EditorSteps ==
    ASSUME OneEditor, ThreadInv, NEW p \in Procs, Step(p)
    PROVE  /\ ~ DelPost(p) /\ ~ Crash(p)
           /\ \/ Quiet(p) \/ CWrite(p) \/ ECopy(p)
              \/ EEdit(p) /\ ~ Return(p)
              \/ EMerge(p) \/ EUnlink(p) \/ ERename(p)
<1>a. /\ TypeInv /\ PathKnown /\ pc \in [Procs -> Labels] /\ call \in [Procs -> Call]
      /\ call[p] \in Call
  BY DEF ThreadInv, LockInv, TypeInv, TypeOK
<1>1. ~ DelPost(p) /\ ~ Crash(p)
  <2>1. "delete" \notin Ops /\ "crash" \notin Ops
    BY DEF OneEditor
  <2>2. pc[p] # "d_unlink"
    BY <1>a DEF PathKnown
  <2> QED
    BY <2>1, <2>2 DEF DelPost, SafeDelete, DUnlink, Crash
<1>2. \A l : Goto(p, l) => pc'[p] = l
  BY <1>a DEF Goto
<1>3. ASSUME UNCHANGED <<text, path>>, Return(p), pc[p] \notin {"e_unlink", "e_rename"}
      PROVE  Quiet(p)
  <2>1. call'[p] = NoCall /\ pc'[p] = "idle"
    BY <1>a, <1>3, ReturnType
  <2> QED
    BY <1>3, <2>1 DEF Quiet, NoCall
<1>4. CASE CallComment(p)
  <2> PICK c \in Comments \ used :
        call' = [call EXCEPT ![p] = [NoCall EXCEPT !.item = c,
                        !.update = Vote(c), !.tries = LockRetry]]
    BY <1>4 DEF CallComment
  <2>1. call'[p].fd = NoInode
    BY <1>a DEF NoCall
  <2> QED
    BY <1>1, <1>4, <1>2, <2>1 DEF CallComment, Quiet
<1>5. CASE COpen(p) \/ CReopen(p) \/ CStat(p)
  BY <1>1, <1>5, <1>2, <1>3, <1>a DEF COpen, CReopen, CStat, Quiet, Call
<1>6. CASE CFlock(p) \/ CUnlock(p)
  BY <1>1, <1>6, <1>2, <1>3, <1>a DEF CFlock, CUnlock, GiveUp, Quiet, Call
<1>7. CASE ModifyDirLite(p)
  BY <1>1, <1>7, <1>2, <1>3, <1>a DEF ModifyDirLite, ModifyRead, ModifyWrite, Quiet, Call
<1>8. CASE CallEdit(p) \/ EHash(p)
  BY <1>1, <1>8, <1>2, <1>3, <1>a DEF CallEdit, EHash, Quiet, Call
<1>9. CASE EEdit(p) /\ Return(p)
  <2>1. pc'[p] = "idle"
    BY <1>9, <1>a, ReturnType
  <2>2. UNCHANGED <<text, path>> /\ pc[p] = "e_edit"
    BY <1>9, <1>2, <2>1 DEF EEdit
  <2> QED
    BY <1>1, <1>9, <1>3, <2>2
<1>10. CASE EOpen(p) \/ ESize(p)
  BY <1>1, <1>10, <1>2, <1>a DEF EOpen, ESize, Quiet, Call
<1>11. CASE EFlock(p) \/ EUnlock(p)
  BY <1>1, <1>11, <1>2, <1>a DEF EFlock, EUnlock, Quiet, Call
<1> QED
  BY <1>1, <1>4, <1>5, <1>6, <1>7, <1>8, <1>9, <1>10, <1>11
    DEF Step, AddRecommend, EditPost, AppendMergeReplace

\* Where the items of the texts come from.
LEMMA TextItems ==
    ASSUME OneEditor, ThreadInv, NEW p \in Procs, Step(p), NEW f \in Inodes,
           NEW x \in ItemsOf(text'[f])
    PROVE  \/ x \in Bodies \cap used'
           \/ \E g \in Inodes : x \in ItemsOf(text[g])
           \/ CWrite(p) /\ x = call[p].item /\ x \in Comments /\ x \in used
<1>a. /\ TypeInv /\ TypeOK /\ PathKnown /\ FilesKnown /\ ItemsKnown /\ CopyKnown(p)
      /\ text \in [Inodes -> Seq(Item)] /\ call[p] \in Call /\ path \in File
      /\ \A g \in Inodes : text[g] \in Seq(Item)
  BY DEF ThreadInv, LockInv, TypeInv, TypeOK
<1>1. CASE UNCHANGED text
  BY <1>1
<1>2. CASE CWrite(p)
  <2>1. call[p].fd \in Inodes /\ call[p].item \in Comments /\ call[p].item \in Item
    BY <1>2, <1>a DEF CWrite, FilesKnown, AtWork, Commenting, Item
  <2>2. call[p].item \in used
    BY <1>a, <2>1 DEF ItemsKnown
  <2>3. text' = [text EXCEPT ![call[p].fd] = Append(text[call[p].fd], call[p].item)]
    BY <1>2 DEF CWrite
  <2>4. text[call[p].fd] \in Seq(Item)
    BY <1>a, <2>1
  <2>5. ItemsOf(Append(text[call[p].fd], call[p].item))
          \subseteq ItemsOf(text[call[p].fd]) \cup {call[p].item}
    BY <2>1, <2>4, AppendText
  <2>6. \/ text'[f] = text[f]
        \/ f = call[p].fd /\ text'[f] = Append(text[call[p].fd], call[p].item)
    BY <1>a, <2>3
  <2> QED
    BY <1>2, <2>1, <2>2, <2>5, <2>6
<1>3. CASE ECopy(p)
  <2> DEFINE t == IF path = NoInode THEN <<>> ELSE text[path]
  <2> PICK i \in Free : text' = [text EXCEPT ![i] = t]
    BY <1>3 DEF ECopy
  <2>1. text'[f] = text[f] \/ text'[f] = t
    BY <1>a
  <2>2. ItemsOf(<<>>) = {}
    BY DEF ItemsOf
  <2>3. path # NoInode => path \in Inodes
    BY <1>a DEF File
  <2> QED
    BY <2>1, <2>2, <2>3
<1>4. CASE EEdit(p) /\ ~ Return(p)
  <2> PICK b \in Bodies \ used :
          /\ used' = used \cup {b}
          /\ text' = [text EXCEPT ![call[p].ino] = Rewritten(text[call[p].ino], b)]
    BY <1>4 DEF EEdit
  <2>1. call[p].ino \in Inodes /\ text[call[p].ino] \in Seq(Item)
    BY <1>4, <1>a DEF EEdit, FilesKnown, Copying
  <2>2. \/ text'[f] = text[f]
        \/ f = call[p].ino /\ text'[f] = Rewritten(text[call[p].ino], b)
    BY <1>a
  <2>3. ItemsOf(Rewritten(text[call[p].ino], b)) \subseteq ItemsOf(text[call[p].ino]) \cup {b}
    BY <2>1, RewrittenItems
  <2> QED
    BY <2>1, <2>2, <2>3
<1>5. CASE EMerge(p)
  <2> DEFINE new == text[call[p].ino]
             old == call[p].old
             t == text[path]
  <2>1. pc[p] = "e_merge" /\ text' = [text EXCEPT ![call[p].ino] = new \o Appended(p)]
    BY <1>5 DEF EMerge
  <2>2. call[p].ino \in Inodes /\ call[p].fd \in Inodes /\ call[p].fd = path
    BY <1>a, <2>1 DEF FilesKnown, AtWork, Copying, CopyKnown, Merging
  <2>3. new \in Seq(Item) /\ old \in Seq(Item) /\ t \in Seq(Item)
    BY <1>a, <2>2 DEF Call
  <2>4. old # <<>> /\ new # <<>> /\ IsPrefixOf(old, t) /\ Tail(new) = Tail(old)
    BY <1>a, <2>1 DEF CopyKnown, Copied, Edited, IsArticle
  <2>5. Appended(p) = SubSeq(t, Len(old) + 1, Len(t))
    BY <2>2 DEF Appended
  <2>6. text'[f] = text[f] \/ text'[f] = new \o Appended(p)
    BY <1>a, <2>1
  <2> HIDE DEF new, old, t
  <2>7. ItemsOf(new \o Appended(p)) \subseteq ItemsOf(new) \cup ItemsOf(t)
    BY <2>3, <2>4, <2>5, MergeText
  <2> QED
    BY <2>2, <2>6, <2>7 DEF new, t
<1> QED
  BY <1>1, <1>2, <1>3, <1>4, <1>5, EditorSteps DEF Quiet, EUnlink, ERename

LEMMA StepTexts ==
    ASSUME OneEditor, ThreadInv, NEW p \in Procs, Step(p)
    PROVE  TextsKnown'
<1>a. /\ TypeInv /\ TypeOK /\ TextsKnown /\ FilesKnown /\ ItemsKnown /\ Alone(p)
      /\ pc \in [Procs -> Labels] /\ call \in [Procs -> Call] /\ call[p] \in Call
  BY StepAlone DEF ThreadInv, LockInv, TypeInv, TypeOK
<1>b. used \subseteq used'
  BY DEF Step, AddRecommend, ModifyDirLite, EditPost,
        AppendMergeReplace, DelPost, Crash,
        CallComment, COpen, CFlock, CReopen, CWrite, CUnlock, CStat,
        ModifyRead, ModifyWrite, CallEdit, ECopy, EEdit, EHash, EOpen, ESize, EFlock,
        EMerge, EUnlink, ERename, EUnlock, SafeDelete, DUnlink
<1>1. ASSUME NEW f \in Inodes PROVE ItemsOf(text'[f]) \subseteq used'
  BY <1>a, <1>b, TextItems DEF TextsKnown
<1>2. ASSUME NEW q \in Procs \ {p}, pc'[q] \in Unwritten, NEW f \in Inodes
      PROVE  call'[q].item \notin ItemsOf(text'[f])
  <2>1. pc[q] \in Unwritten /\ call'[q] = call[q]
    BY <1>a, <1>2 DEF Alone
  <2>2. call[q].item \in Comments /\ call[q].item \notin Bodies
    BY <1>a, <2>1, ArticleAssumption DEF FilesKnown, Unwritten, Commenting
  <2>3. call[p].item # call[q].item
    BY <1>a, <2>2 DEF ItemsKnown
  <2>4. \A g \in Inodes : call[q].item \notin ItemsOf(text[g])
    BY <1>a, <2>1 DEF TextsKnown
  <2> QED
    BY <2>1, <2>2, <2>3, <2>4, TextItems
<1>3. ASSUME pc'[p] \in Unwritten, NEW f \in Inodes
      PROVE  call'[p].item \notin ItemsOf(text'[f])
  <2>a. ~ Return(p) /\ \A l : Goto(p, l) => pc'[p] = l
    BY <1>3, <1>a, ReturnType DEF Unwritten, Goto
  <2>1. CASE CallComment(p)
    <3> PICK c \in Comments \ used :
        call' = [call EXCEPT ![p] = [NoCall EXCEPT !.item = c,
                        !.update = Vote(c), !.tries = LockRetry]]
      BY ZenonT(60), <2>1 DEF CallComment
    <3>1. call'[p].item = c /\ text' = text
      BY ZenonT(60), <2>1, <1>a, VoteType, CommentCall DEF CallComment
    <3> QED
      BY <1>a, <3>1 DEF TextsKnown
  <2>2. CASE COpen(p) \/ CFlock(p) \/ CReopen(p)
    <3>1. text' = text /\ pc[p] \in Unwritten /\ call'[p].item = call[p].item
      BY <2>2, <2>a, <1>a DEF COpen, CFlock, GiveUp, CReopen, Unwritten, Call
    <3> QED
      BY <1>a, <3>1 DEF TextsKnown
  <2>3. CallComment(p) \/ COpen(p) \/ CFlock(p) \/ CReopen(p)
    BY <1>3, <2>a DEF Unwritten, Step, AddRecommend, ModifyDirLite, EditPost,
        AppendMergeReplace, DelPost, Crash,
        CWrite, CUnlock, CStat,
        ModifyRead, ModifyWrite, CallEdit, ECopy, EEdit, EHash, EOpen, ESize, EFlock,
        EMerge, EUnlink, ERename, EUnlock, SafeDelete, DUnlink
  <2> QED
    BY <2>1, <2>2, <2>3
<1> QED
  BY <1>1, <1>2, <1>3 DEF TextsKnown

LEMMA PrimedTypes ==
    ASSUME ThreadInv, NEW p \in Procs, Step(p)
    PROVE  /\ TypeInv /\ TypeOK /\ FilesKnown /\ LocksGuardWork /\ ItemsKnown /\ Alone(p)
           /\ TextsKnown /\ PathKnown /\ \A a \in Procs : CopyKnown(a)
           /\ text \in [Inodes -> Seq(Item)] /\ path \in File
           /\ \A f \in Inodes : text[f] \in Seq(Item)
           /\ pc \in [Procs -> Labels] /\ call \in [Procs -> Call] /\ call[p] \in Call
           /\ TypeInv' /\ TypeOK' /\ FilesKnown' /\ LocksGuardWork' /\ ItemsKnown'
           /\ \A l : Goto(p, l) => pc'[p] = l
<1>1. TypeInv /\ TypeOK /\ TypeInv'
  BY NextStep, NextType DEF ThreadInv, LockInv, TypeInv
<1>2. LocksGuardWork'
  BY StepLocks DEF ThreadInv
<1>3. ItemsKnown'
  BY <1>1, StepItems DEF ThreadInv
<1> QED
  BY <1>1, <1>2, <1>3, StepAlone DEF ThreadInv, LockInv, TypeInv, TypeOK, Goto

\* Steps of the author.
EditStep(p) ==
    ECopy(p) \/ EEdit(p) \/ EMerge(p) \/ EUnlink(p) \/ ERename(p)

LEMMA StepLabels ==
    ASSUME OneEditor, ThreadInv, NEW p \in Procs, Step(p)
    PROVE  /\ pc'[p] # "d_unlink"
           /\ pc'[p] \in EditLabels => p \in Authors
           /\ pc[p] \in EditLabels => p \in Authors
           /\ EditStep(p) => pc[p] \in EditLabels /\ p \in Authors
           /\ pc'[p] \in Copying /\ ~ ECopy(p) =>
                 pc[p] \in Copying /\ call'[p].ino = call[p].ino
<1>a. /\ PathKnown /\ \A l : Goto(p, l) => pc'[p] = l
      /\ Return(p) => pc'[p] = "idle"
      /\ pc \in [Procs -> Labels] /\ call \in [Procs -> Call] /\ call[p] \in Call
  BY PrimedTypes, ReturnType
<1>b. pc[p] \in EditLabels => p \in Authors
  BY <1>a DEF PathKnown
<1> USE DEF EditLabels, Copying
<1>1. CASE AddRecommend(p)
  <2>1. pc'[p] \notin EditLabels /\ pc'[p] # "d_unlink" /\ pc[p] \notin EditLabels
    BY <1>1, <1>a DEF AddRecommend, CallComment, COpen, CFlock, GiveUp, CReopen,
       CWrite, CUnlock, CStat
  <2>2. ~ EditStep(p)
    BY <2>1 DEF EditStep, ECopy, EEdit, EMerge, EUnlink, ERename
  <2> QED
    BY <2>1, <2>2
<1>2. CASE ModifyDirLite(p)
  <2>1. pc'[p] \notin EditLabels /\ pc'[p] # "d_unlink" /\ pc[p] \notin EditLabels
    BY <1>2, <1>a DEF ModifyDirLite, ModifyRead, ModifyWrite
  <2>2. ~ EditStep(p)
    BY <2>1 DEF EditStep, ECopy, EEdit, EMerge, EUnlink, ERename
  <2> QED
    BY <2>1, <2>2
<1>3. CASE CallEdit(p)
  <2>1. p \in Authors /\ pc'[p] = "e_copy" /\ pc[p] = "idle"
    BY <1>3, <1>a DEF CallEdit
  <2>2. ~ EditStep(p)
    BY <2>1 DEF EditStep, ECopy, EEdit, EMerge, EUnlink, ERename
  <2> QED
    BY <2>1, <2>2
<1>4. CASE ECopy(p)
  <2>1. pc[p] = "e_copy" /\ pc'[p] = "e_edit"
    BY <1>4, <1>a DEF ECopy
  <2> QED
    BY <2>1, <1>4, <1>b
<1>5. CASE EEdit(p) \/ EHash(p)
  <2>1. /\ pc[p] \in {"e_edit", "e_hash"} /\ pc'[p] \in {"e_hash", "e_open", "idle"}
        /\ pc'[p] # "idle" => call'[p].ino = call[p].ino
    BY <1>5, <1>a DEF EEdit, EHash, Call
  <2> QED
    BY <2>1, <1>b
<1>6. CASE AppendMergeReplace(p)
  <2>1. /\ pc[p] \in Copying \cup {"e_unlock"} /\ pc'[p] \in EditLabels \cup {"m_read"}
        /\ pc'[p] \in Copying => pc[p] \in Copying /\ call'[p].ino = call[p].ino
    BY <1>6, <1>a DEF AppendMergeReplace, EOpen, ESize, EFlock, EMerge,
       EUnlink, ERename, EUnlock, Call
  <2> QED
    BY <2>1, <1>b
<1> QED
  BY <1>1, <1>2, <1>3, <1>4, <1>5, <1>6, EditorSteps DEF Step, EditPost

\* Up to the unlink the author works beside the article.
LEMMA CopyAside ==
    ASSUME OneEditor, ThreadInv, NEW p \in Procs, Step(p),
           ECopy(p) \/ (EEdit(p) /\ ~ Return(p)) \/ EMerge(p)
    PROVE  /\ path \in Inodes /\ path' = path /\ text'[path] = text[path]
           /\ text[path] \in Seq(Item) /\ IsArticle(text[path])
<1>a. /\ PathKnown /\ pc[p] \in EditLabels \ {"e_rename"} /\ path \in File /\ path' = path
      /\ text \in [Inodes -> Seq(Item)]
  BY PrimedTypes DEF ECopy, EEdit, EMerge, EditLabels, Copying
<1>1. path # NoInode
  <2> SUFFICES ASSUME path = NoInode PROVE FALSE
    OBVIOUS
  <2> PICK a \in Procs : pc[a] = "e_rename"
    BY <1>a DEF PathKnown
  <2> QED
    BY <1>a, EditorAlone DEF EditLabels, Copying
<1>2. path \in Inodes /\ IsArticle(text[path])
  BY <1>a, <1>1 DEF File, PathKnown
<1>3. text'[path] = text[path]
  <2>1. CASE ECopy(p)
    <3> PICK i \in Free :
          text' = [text EXCEPT ![i] = IF path = NoInode THEN <<>> ELSE text[path]]
      BY <2>1 DEF ECopy
    <3>1. i # path
      BY DEF Free
    <3> QED
      BY <1>a, <1>2, <3>1
  <2>2. CASE EEdit(p) /\ ~ Return(p)
    <3>1. call[p].ino # path
      BY <1>a, <2>2 DEF EEdit, PathKnown, Copying
    <3> PICK b : text' = [text EXCEPT ![call[p].ino] = Rewritten(text[call[p].ino], b)]
      BY <2>2 DEF EEdit
    <3> QED
      BY <1>a, <1>2, <3>1
  <2>3. CASE EMerge(p)
    <3>1. call[p].ino # path
      BY <1>a, <2>3 DEF EMerge, PathKnown, Copying
    <3> QED
      BY <1>a, <1>2, <2>3, <3>1 DEF EMerge
  <2> QED
    BY <2>1, <2>2, <2>3
<1> QED
  BY <1>a, <1>2, <1>3

LEMMA StepPath ==
    ASSUME OneEditor, ThreadInv, NEW p \in Procs, Step(p)
    PROVE  PathKnown'
<1>a. /\ TypeOK /\ PathKnown /\ FilesKnown /\ Alone(p) /\ CopyKnown(p) /\ FilesKnown'
      /\ text \in [Inodes -> Seq(Item)] /\ path \in File
      /\ \A f \in Inodes : text[f] \in Seq(Item)
      /\ pc \in [Procs -> Labels] /\ call \in [Procs -> Call] /\ call[p] \in Call
      /\ \A l : Goto(p, l) => pc'[p] = l
  BY PrimedTypes
<1>b. NoInode \notin Inodes
  BY ArticleAssumption
<1>c. ASSUME NEW a \in Procs \ {p}, pc[a] \in EditLabels
      PROVE  pc[p] \notin EditLabels /\ pc'[p] \notin EditLabels
  BY <1>a, <1>c, StepLabels DEF PathKnown, OneEditor
<1>1. ASSUME NEW q \in Procs
      PROVE  pc'[q] # "d_unlink" /\ (pc'[q] \in EditLabels => q \in Authors)
  BY <1>a, StepLabels DEF PathKnown, Alone
<1>2. path' = NoInode <=> \E a \in Procs : pc'[a] = "e_rename"
  <2>1. CASE EUnlink(p)
    <3>1. pc[p] = "e_unlink" /\ path' = NoInode
      BY <2>1 DEF EUnlink
    <3>2. ASSUME path = NoInode PROVE FALSE
      <4> PICK a \in Procs : pc[a] = "e_rename"
        BY <1>a, <3>2 DEF PathKnown
      <4>1. a = p
        BY <1>a, <3>1, EditorAlone DEF EditLabels, Copying
      <4> QED
        BY <3>1, <4>1
    <3>3. pc'[p] = "e_rename"
      BY <1>a, <2>1, <3>2 DEF EUnlink
    <3> QED
      BY <3>1, <3>3
  <2>2. CASE ERename(p)
    <3>1. pc[p] = "e_rename" /\ path' = call[p].ino /\ pc'[p] = "e_unlock"
      BY <1>a, <2>2 DEF ERename
    <3>2. path' # NoInode
      BY <1>a, <1>b, <3>1 DEF FilesKnown, Copying
    <3>3. \A a \in Procs \ {p} : pc'[a] # "e_rename"
      BY <1>a, <1>c, <3>1 DEF Alone, EditLabels, Copying
    <3> QED
      BY <3>1, <3>2, <3>3
  <2>3. CASE ~ EUnlink(p) /\ ~ ERename(p)
    <3>1. path' = path /\ (pc'[p] = "e_rename" <=> pc[p] = "e_rename")
      BY <1>a, <2>3, EditorSteps DEF Quiet, CWrite, ECopy, EEdit, EMerge
    <3> QED
      BY <1>a, <3>1 DEF PathKnown, Alone
  <2> QED
    BY <2>1, <2>2, <2>3
<1>3. ASSUME path' # NoInode PROVE IsArticle(text'[path'])
  <2>1. CASE CWrite(p)
    <3>1. path' = path /\ path \in Inodes /\ IsArticle(text[path])
      BY <1>a, <1>3, <2>1 DEF CWrite, File, PathKnown
    <3>2. text' = [text EXCEPT ![call[p].fd] = Append(text[call[p].fd], call[p].item)]
          /\ call[p].item \in Item
      BY <1>a, <2>1 DEF CWrite, Call
    <3>3. CASE call[p].fd = path
      <4>1. text'[path] = Append(text[path], call[p].item)
        BY <1>a, <3>1, <3>2, <3>3
      <4> QED
        BY <1>a, <3>1, <3>2, <4>1, AppendText DEF IsArticle
    <3>4. CASE call[p].fd # path
      BY <1>a, <3>1, <3>2, <3>4
    <3> QED
      BY <3>3, <3>4
  <2>2. CASE ECopy(p) \/ (EEdit(p) /\ ~ Return(p)) \/ EMerge(p)
    BY <2>2, CopyAside
  <2>5. CASE EUnlink(p)
    BY <1>3, <2>5 DEF EUnlink
  <2>6. CASE ERename(p)
    BY <1>a, <2>6 DEF ERename, CopyKnown
  <2>7. CASE Quiet(p)
    BY <1>a, <1>3, <2>7 DEF Quiet, PathKnown
  <2> QED
    BY <2>1, <2>2, <2>5, <2>6, <2>7, EditorSteps
<1>4. ASSUME NEW a \in Procs, pc'[a] \in Copying
      PROVE  call'[a].ino # path' /\ \A q \in Procs : call'[q].fd # call'[a].ino
  <2>1. CASE ECopy(p)
    <3>1. a = p
      <4> SUFFICES ASSUME a # p PROVE FALSE
        OBVIOUS
      <4>1. pc[a] \in EditLabels /\ pc[p] \in EditLabels
        BY <1>a, <1>4, <2>1 DEF ECopy, EditLabels, Alone
      <4> QED
        BY <1>c, <4>1
    <3> PICK i \in Free :
          call' = [call EXCEPT ![p].ino = i,
                               ![p].old = IF path = NoInode THEN <<>> ELSE text[path]]
      BY <2>1 DEF ECopy
    <3>2. call'[p].ino = i /\ call'[p].fd = call[p].fd
      BY <1>a DEF Call
    <3>3. i # path /\ \A q \in Procs : call[q].fd # i
      BY DEF Free
    <3> QED
      BY <1>a, <2>1, <3>1, <3>2, <3>3 DEF ECopy, Alone
  <2>2. CASE ~ ECopy(p)
    <3>1. pc[a] \in Copying /\ call'[a].ino = call[a].ino /\ call[a].ino \in Inodes
      <4>1. pc[a] \in Copying /\ call'[a].ino = call[a].ino
        BY <1>a, <1>4, <2>2, StepLabels DEF Alone
      <4> QED
        BY <1>a, <4>1 DEF FilesKnown
    <3>2. call[a].ino # path /\ call[a].ino # NoInode /\ \A q \in Procs : call[q].fd # call[a].ino
      BY <1>a, <1>b, <3>1 DEF PathKnown
    <3>3. ~ ERename(p)
      <4> SUFFICES ASSUME ERename(p) PROVE FALSE
        OBVIOUS
      <4>1. pc[p] = "e_rename" /\ pc'[p] = "e_unlock"
        BY <1>a DEF ERename
      <4>2. a # p
        BY <1>4, <4>1 DEF Copying
      <4> QED
        BY <1>c, <3>1, <4>1, <4>2 DEF EditLabels, Copying
    <3>4. path' \in {path, NoInode} /\ call'[p].fd \in {call[p].fd, path, NoInode}
      BY <1>a, <2>2, <3>3, EditorSteps DEF Quiet, CWrite, EEdit, EMerge, EUnlink, Call
    <3> QED
      BY <1>a, <3>1, <3>2, <3>4 DEF Alone
  <2> QED
    BY <2>1, <2>2
<1> QED
  BY <1>1, <1>2, <1>3, <1>4 DEF PathKnown

\* A comment is written to the article, or to a file that nobody merges.
LEMMA WriteBesides ==
    ASSUME OneEditor, ThreadInv, NEW p \in Procs, Step(p), CWrite(p)
    PROVE  /\ path' = path /\ call[p].fd \in Inodes /\ call[p].item \in Comments
           /\ call[p].item \in Item
           /\ text'[call[p].fd] = Append(text[call[p].fd], call[p].item)
           /\ \A f \in Inodes \ {call[p].fd} : text'[f] = text[f]
           /\ \A a \in Procs : pc[a] \in Copying =>
                   a # p /\ call[a].ino # call[p].fd /\ text'[call[a].ino] = text[call[a].ino]
<1>a. /\ FilesKnown /\ PathKnown /\ text \in [Inodes -> Seq(Item)]
  BY PrimedTypes
<1>1. pc[p] = "c_write" /\ path' = path /\ call[p].fd \in Inodes /\ call[p].item \in Comments
  BY <1>a DEF CWrite, FilesKnown, AtWork, Commenting
<1>2. text' = [text EXCEPT ![call[p].fd] = Append(text[call[p].fd], call[p].item)]
  BY DEF CWrite
<1>3. /\ text'[call[p].fd] = Append(text[call[p].fd], call[p].item)
      /\ \A f \in Inodes \ {call[p].fd} : text'[f] = text[f]
  BY <1>a, <1>1, <1>2
<1>4. ASSUME NEW a \in Procs, pc[a] \in Copying
      PROVE  a # p /\ call[a].ino # call[p].fd /\ text'[call[a].ino] = text[call[a].ino]
  <2>1. call[a].ino # call[p].fd /\ call[a].ino \in Inodes
    BY <1>a, <1>4 DEF PathKnown, FilesKnown
  <2> QED
    BY <1>1, <1>3, <1>4, <2>1 DEF Copying
<1> QED
  BY <1>1, <1>3, <1>4 DEF Item

LEMMA OthersCopy ==
    ASSUME OneEditor, ThreadInv, NEW p \in Procs, Step(p), NEW a \in Procs \ {p}
    PROVE  CopyKnown(a)'
<1>a. /\ PathKnown /\ FilesKnown /\ Alone(p) /\ CopyKnown(a) /\ LocksGuardWork
      /\ text \in [Inodes -> Seq(Item)] /\ path \in File
      /\ \A f \in Inodes : text[f] \in Seq(Item)
      /\ call[a] \in Call
  BY PrimedTypes DEF TypeOK
<1>b. pc'[a] = pc[a] /\ call'[a] = call[a]
  BY <1>a DEF Alone
<1>1. CASE pc[a] \notin Copying
  BY <1>b, <1>1 DEF CopyKnown, Copying, Copied, Edited, Merging
<1>2. CASE pc[a] \in Copying
  <2>1. pc[p] \notin EditLabels
    BY <1>a, <1>2, EditorAlone DEF EditLabels
  <2>2. Quiet(p) \/ CWrite(p)
    BY <2>1, EditorSteps, StepLabels DEF EditStep
  <2>3. CASE Quiet(p)
    BY <1>a, <1>b, <2>3 DEF Quiet, CopyKnown
  <2>4. CASE CWrite(p)
    <3>1. /\ path' = path /\ text'[call[a].ino] = text[call[a].ino]
          /\ call[p].fd \in Inodes /\ call[p].item \in Item
          /\ text'[call[p].fd] = Append(text[call[p].fd], call[p].item)
          /\ \A f \in Inodes \ {call[p].fd} : text'[f] = text[f]
      BY <1>2, <2>4, WriteBesides
    <3>2. CASE call[p].fd # path /\ path # NoInode
      <4>1. text'[path] = text[path]
        BY <1>a, <3>1, <3>2 DEF File
      <4> QED
        BY <1>a, <1>b, <3>1, <4>1 DEF CopyKnown
    <3>3. CASE path = NoInode
      <4> PICK b \in Procs : pc[b] = "e_rename"
        BY <1>a, <3>3 DEF PathKnown
      <4>1. pc[a] = "e_rename"
        BY <1>a, <1>2, EditorAlone DEF EditLabels, Copying
      <4> QED
        BY <1>a, <1>b, <3>1, <4>1 DEF CopyKnown, Copied, Edited, Merging
    <3>4. CASE call[p].fd = path /\ path # NoInode
      <4>1. /\ text'[path] = Append(text[path], call[p].item) /\ text[path] \in Seq(Item)
            /\ text[path] # <<>>
        BY <1>a, <3>1, <3>4 DEF PathKnown, IsArticle
      <4>2. Head(text'[path]) = Head(text[path])
        BY <3>1, <4>1, AppendText
      <4>3. IsPrefixOf(call[a].old, text[path]) => IsPrefixOf(call[a].old, text'[path])
        BY <1>a, <3>1, <4>1, AppendText DEF Call
      <4>4. pc[a] # "e_unlink"
        <5> SUFFICES ASSUME pc[a] = "e_unlink" PROVE FALSE
          OBVIOUS
        <5>1. call[a].fd = path
          BY <1>a DEF CopyKnown, Merging
        <5>2. flk[path] = a /\ flk[path] = p
          BY <1>a, <2>4, <3>4, <5>1 DEF LocksGuardWork, AtWork, CWrite
        <5> QED
          BY <5>2
      <4> QED
        BY <1>a, <1>b, <3>1, <4>2, <4>3, <4>4 DEF CopyKnown
    <3> QED
      BY <3>2, <3>3, <3>4
  <2> QED
    BY <2>2, <2>3, <2>4
<1> QED
  BY <1>1, <1>2

LEMMA OwnCopy ==
    ASSUME OneEditor, ThreadInv, NEW p \in Procs, Step(p)
    PROVE  CopyKnown(p)'
<1>a. /\ PathKnown /\ FilesKnown /\ CopyKnown(p) /\ TextsKnown /\ TypeOK
      /\ text \in [Inodes -> Seq(Item)] /\ path \in File
      /\ \A f \in Inodes : text[f] \in Seq(Item)
      /\ pc \in [Procs -> Labels] /\ call \in [Procs -> Call] /\ call[p] \in Call
      /\ \A l : Goto(p, l) => pc'[p] = l
      /\ Return(p) => pc'[p] = "idle"
  BY PrimedTypes, ReturnType
<1>1. CASE pc'[p] \notin Copying \/ Return(p)
  BY <1>1, <1>a DEF CopyKnown, Copying, Copied, Edited, Merging
<1>2. CASE ECopy(p)
  <2>1. /\ path \in Inodes /\ path' = path /\ text'[path] = text[path]
        /\ text[path] \in Seq(Item) /\ IsArticle(text[path]) /\ path # NoInode
    BY <1>2, CopyAside, ArticleAssumption
  <2> DEFINE t == text[path]
  <2> PICK i \in Free : /\ text' = [text EXCEPT ![i] = t]
                         /\ call' = [call EXCEPT ![p].ino = i, ![p].old = t]
    BY <1>2, <2>1 DEF ECopy
  <2>2. pc'[p] = "e_edit" /\ i \in Inodes
    BY <1>2, <1>a DEF ECopy, Free
  <2>3. call'[p].ino = i /\ call'[p].old = t
    BY <1>a DEF Call
  <2>4. text'[i] = t
    BY <1>a, <2>2
  <2>5. IsPrefixOf(t, t) /\ t # <<>>
    BY <2>1, PrefixReflexive DEF IsArticle
  <2> HIDE DEF t
  <2>6. text'[path'] = t
    BY <2>1 DEF t
  <2> QED
    BY <2>2, <2>3, <2>4, <2>5, <2>6 DEF CopyKnown, Copied, Edited, Merging
<1>3. CASE EEdit(p) /\ ~ Return(p)
  <2>1. /\ path \in Inodes /\ path' = path /\ text'[path] = text[path]
        /\ text[path] \in Seq(Item) /\ IsArticle(text[path])
    BY <1>3, CopyAside
  <2> PICK b \in Bodies \ used :
        /\ text' = [text EXCEPT ![call[p].ino] = Rewritten(text[call[p].ino], b)]
        /\ call' = [call EXCEPT ![p].item = b]
    BY <1>3 DEF EEdit
  <2>2. pc[p] = "e_edit" /\ pc'[p] = "e_hash" /\ call[p].ino \in Inodes
        /\ call'[p].ino = call[p].ino /\ call'[p].old = call[p].old
    BY <1>3, <1>a DEF EEdit, Call, FilesKnown, Copying
  <2> DEFINE old == call[p].old
  <2>3. /\ text'[call[p].ino] = Rewritten(old, b) /\ old # <<>> /\ old \in Seq(Item)
        /\ IsPrefixOf(old, text[path])
    BY <1>a, <2>2 DEF CopyKnown, Copied, Call
  <2>4. Head(text[path]) # b
    <3>1. Head(text[path]) \in ItemsOf(text[path])
      <4>1. Len(text[path]) \in Nat \ {0}
        BY <2>1, EmptySeq DEF IsArticle
      <4> QED
        BY <2>1, <4>1 DEF ItemsOf
    <3> QED
      BY <1>a, <2>1, <3>1 DEF TextsKnown
  <2> HIDE DEF old
  <2>5. IsArticle(Rewritten(old, b)) /\ Head(Rewritten(old, b)) = b
        /\ Tail(Rewritten(old, b)) = Tail(old)
    <3>1. /\ Rewritten(old, b) \in Seq(Item) /\ Len(Rewritten(old, b)) \in Nat \ {0}
          /\ Head(Rewritten(old, b)) = b /\ Tail(Rewritten(old, b)) = Tail(old)
      BY <2>3, RewrittenType
    <3>2. Rewritten(old, b) # <<>>
      BY <3>1
    <3> QED
      BY <3>1, <3>2 DEF IsArticle
  <2> DEFINE new == Rewritten(old, b)
  <2> HIDE DEF new
  <2>6. /\ text'[call'[p].ino] = new /\ call'[p].old = old /\ text'[path'] = text[path]
        /\ IsArticle(new) /\ Head(new) = b /\ Tail(new) = Tail(old)
    BY <2>1, <2>2, <2>3, <2>5 DEF new, old
  <2> QED
    BY <2>2, <2>3, <2>4, <2>6 DEF CopyKnown, Copied, Edited, Merging
<1>4. CASE (EHash(p) \/ EOpen(p) \/ ESize(p) \/ EFlock(p)) /\ pc'[p] \in Copying /\ ~ Return(p)
  <2>1. /\ UNCHANGED <<text, path>> /\ call'[p].ino = call[p].ino /\ call'[p].old = call[p].old
        /\ \/ pc[p] = "e_hash" /\ pc'[p] = "e_open"
           \/ pc[p] = "e_open" /\ pc'[p] = "e_size" /\ call'[p].fd = path
           \/ pc[p] = "e_size" /\ pc'[p] = "e_flock" /\ call'[p].fd = call[p].fd
           \/ pc[p] = "e_flock" /\ pc'[p] = "e_merge" /\ call'[p].fd = call[p].fd
    BY <1>4, <1>a DEF EHash, EOpen, ESize, EFlock, Call, Copying
  <2> QED
    BY <1>a, <2>1 DEF CopyKnown, Copied, Edited, Merging
<1>5. CASE EMerge(p)
  <2>1. /\ path \in Inodes /\ path' = path /\ text'[path] = text[path]
        /\ text[path] \in Seq(Item) /\ IsArticle(text[path])
    BY <1>5, CopyAside
  <2> DEFINE new == text[call[p].ino]
             old == call[p].old
             t == text[path]
  <2>2. /\ pc[p] = "e_merge" /\ pc'[p] = "e_unlink" /\ call' = call
        /\ text' = [text EXCEPT ![call[p].ino] = new \o Appended(p)]
    BY <1>5, <1>a DEF EMerge
  <2>3. call[p].ino \in Inodes /\ call[p].fd = path
    BY <1>a, <2>2 DEF FilesKnown, Copying, CopyKnown, Merging
  <2>4. /\ new \in Seq(Item) /\ old \in Seq(Item) /\ t \in Seq(Item)
        /\ old # <<>> /\ IsArticle(new) /\ IsPrefixOf(old, t) /\ Tail(new) = Tail(old)
        /\ Head(new) # Head(t)
    BY <1>a, <2>1, <2>2, <2>3 DEF CopyKnown, Copied, Edited, Call
  <2>5. Appended(p) = SubSeq(t, Len(old) + 1, Len(t))
    BY <2>3 DEF Appended
  <2>6. text'[call[p].ino] = new \o Appended(p)
    BY <1>a, <2>2, <2>3
  <2> HIDE DEF new, old, t
  <2> DEFINE u == new \o Appended(p)
  <2>7. u # <<>> /\ Head(u) = Head(new) /\ Tail(u) = Tail(t)
    <3>1. new # <<>>
      BY <2>4 DEF IsArticle
    <3> DEFINE x == SubSeq(t, Len(old) + 1, Len(t))
    <3>2. new \o x # <<>> /\ Head(new \o x) = Head(new) /\ Tail(new \o x) = Tail(t)
      BY ZenonT(60), <2>4, <3>1, MergeText
    <3> HIDE DEF x
    <3>3. Appended(p) = x
      BY <2>5 DEF x
    <3> QED
      BY <3>2, <3>3
  <2>8. IsArticle(u) /\ Head(u) # Head(t)
    BY <2>4, <2>7 DEF IsArticle
  <2> HIDE DEF u
  <2>9. /\ text'[call'[p].ino] = u /\ call'[p].old = old /\ text'[path'] = t
        /\ call'[p].fd = path'
    BY <2>1, <2>2, <2>3, <2>6 DEF u, old, t
  <2> QED
    BY <2>2, <2>4, <2>7, <2>8, <2>9 DEF CopyKnown, Copied, Edited, Merging
<1>6. CASE EUnlink(p) /\ pc'[p] \in Copying
  <2>1. pc[p] = "e_unlink" /\ pc'[p] = "e_rename" /\ UNCHANGED <<text, call>>
    BY <1>6, <1>a DEF EUnlink, Copying
  <2>2. IsArticle(text[call[p].ino])
    BY <1>a, <2>1 DEF CopyKnown, Edited
  <2> QED
    BY <2>1, <2>2 DEF CopyKnown, Copied, Edited, Merging
<1>7. CASE AddRecommend(p) \/ ModifyDirLite(p) \/ CallEdit(p) \/ ERename(p) \/ EUnlock(p)
  <2>1. pc'[p] \notin Copying
    BY <1>7, <1>a DEF AddRecommend, CallComment, COpen, CFlock, GiveUp, CReopen,
       CWrite, CUnlock, CStat, ModifyDirLite, ModifyRead, ModifyWrite, CallEdit,
       ERename, EUnlock, Copying
  <2> QED
    BY <2>1, <1>1
<1> QED
  BY <1>1, <1>2, <1>3, <1>4, <1>5, <1>6, <1>7, EditorSteps
    DEF Step, EditPost, AppendMergeReplace

LEMMA NextThread == OneEditor /\ ThreadInv /\ [Next]_vars => ThreadInv'
<1> SUFFICES ASSUME OneEditor, ThreadInv, [Next]_vars PROVE ThreadInv'
  OBVIOUS
<1>1. CASE UNCHANGED vars
  <2>1. LockInv' /\ ItemsKnown'
    BY <1>1, NextLocks DEF ThreadInv, vars, ItemsKnown
  <2>2. TextsKnown' /\ PathKnown'
    BY <1>1 DEF ThreadInv, vars, TextsKnown, PathKnown
  <2>3. \A a \in Procs : CopyKnown(a)'
    BY <1>1 DEF ThreadInv, vars, CopyKnown
  <2> QED
    BY <2>1, <2>2, <2>3 DEF ThreadInv
<1>2. ASSUME NEW p \in Procs, Step(p) PROVE ThreadInv'
  <2>1. LockInv' /\ ItemsKnown'
    BY <1>2, PrimedTypes DEF LockInv
  <2>2. \A a \in Procs : CopyKnown(a)'
    BY <1>2, OthersCopy, OwnCopy
  <2> QED
    BY <1>2, <2>1, <2>2, StepTexts, StepPath DEF ThreadInv
<1> QED
  BY <1>1, <1>2, NextStep

LEMMA InitThread == Init => ThreadInv
<1> SUFFICES ASSUME Init PROVE ThreadInv
  OBVIOUS
<1>1. LockInv /\ ItemsKnown
  BY InitLocks, InitVotes DEF VoteInv
<1>2. /\ \A p \in Procs : pc[p] = "idle"
      /\ path = Inode0 /\ Inode0 \in Inodes /\ path # NoInode
      /\ \A f \in Inodes : text[f] = IF f = Inode0 THEN <<Body0>> ELSE <<>>
      /\ used = {Body0}
  BY ArticleAssumption DEF Init
<1>3. TextsKnown
  <2>1. ItemsOf(<<Body0>>) = {Body0} /\ ItemsOf(<<>>) = {}
    BY DEF ItemsOf
  <2> QED
    BY <1>2, <2>1 DEF TextsKnown, Unwritten
<1>4. IsArticle(<<Body0>>)
  BY ArticleAssumption DEF IsArticle
<1>5. PathKnown
  BY <1>2, <1>4 DEF PathKnown, EditLabels, Copying
<1>6. \A a \in Procs : CopyKnown(a)
  BY <1>2 DEF CopyKnown, Copied, Edited, Merging
<1> QED
  BY <1>1, <1>3, <1>5, <1>6 DEF ThreadInv

\* What the article is while it has no name.
LEMMA ArticleRenamed ==
    ASSUME OneEditor, PathKnown, path = NoInode, NEW a \in Procs, pc[a] = "e_rename"
    PROVE  Article = text[call[a].ino]
<1>1. Renaming = {a}
  BY EditorAlone DEF Renaming, EditLabels, Copying
<1>2. (CHOOSE x \in Renaming : TRUE) = a
  BY <1>1
<1> QED
  BY <1>1, <1>2 DEF Article

\* A write by a commenter adds its comment, if the file still is the article.
LEMMA WriteAdds ==
    ASSUME OneEditor, ThreadInv, NEW p \in Procs, Step(p), CWrite(p)
    PROVE  \/ Article' = Article
           \/ \E c \in Comments \ ItemsOf(Article) :
                 Article # <<>> /\ Article \in Seq(Item) /\ Article' = Append(Article, c)
<1>a. /\ PathKnown /\ TextsKnown /\ Alone(p) /\ pc[p] = "c_write"
      /\ path \in File /\ \A f \in Inodes : text[f] \in Seq(Item)
      /\ \A l : Goto(p, l) => pc'[p] = l
  BY PrimedTypes DEF CWrite
<1>b. /\ path' = path /\ call[p].fd \in Inodes /\ call[p].item \in Comments
      /\ text'[call[p].fd] = Append(text[call[p].fd], call[p].item)
      /\ \A f \in Inodes \ {call[p].fd} : text'[f] = text[f]
      /\ \A a \in Procs : pc[a] \in Copying => a # p /\ text'[call[a].ino] = text[call[a].ino]
  BY WriteBesides
<1>1. CASE path # NoInode
  <2>1. Article = text[path] /\ Article' = text'[path] /\ path \in Inodes
    BY <1>a, <1>b, <1>1 DEF Article, File
  <2>2. CASE call[p].fd # path
    BY <1>b, <2>1, <2>2
  <2>3. CASE call[p].fd = path
    <3>1. call[p].item \notin ItemsOf(text[path])
      BY <1>a, <2>1 DEF TextsKnown, Unwritten
    <3>2. text[path] # <<>>
      BY <1>a, <1>1 DEF PathKnown, IsArticle
    <3> QED
      BY <1>a, <1>b, <2>1, <2>3, <3>1, <3>2
  <2> QED
    BY <2>2, <2>3
<1>2. CASE path = NoInode
  <2> PICK a \in Procs : pc[a] = "e_rename"
    BY <1>a, <1>2 DEF PathKnown
  <2>1. a # p /\ text'[call[a].ino] = text[call[a].ino]
    BY <1>b DEF Copying
  <2>2. pc'[a] = "e_rename" /\ call'[a] = call[a]
    BY <1>a, <2>1 DEF Alone
  <2>3. PathKnown' /\ path' = NoInode
    BY <1>b, <1>2, StepPath
  <2>4. Article = text[call[a].ino]
    BY <1>a, <1>2, ArticleRenamed
  <2>5. Article' = text'[call'[a].ino]
    <3>1. Renaming' = {a}
      BY <2>2, <2>3 DEF Renaming, PathKnown, OneEditor, EditLabels, Copying
    <3>2. (CHOOSE x \in Renaming' : TRUE) = a
      BY <3>1
    <3> QED
      BY <2>3, <3>1, <3>2 DEF Article
  <2> QED
    BY <2>1, <2>2, <2>4, <2>5
<1> QED
  BY <1>1, <1>2

\* The other steps leave the article alone, or the unlink shows the copy.
LEMMA StepArticle ==
    ASSUME OneEditor, ThreadInv, NEW p \in Procs, Step(p), ~ CWrite(p)
    PROVE  \/ Article' = Article
           \/ /\ Head(Article') \in Bodies /\ Head(Article') # Head(Article)
              /\ Tail(Article') = Tail(Article)
<1>a. /\ PathKnown /\ Alone(p) /\ CopyKnown(p) /\ FilesKnown
      /\ path \in File /\ pc \in [Procs -> Labels]
      /\ \A l : Goto(p, l) => pc'[p] = l
  BY PrimedTypes
<1>b. PathKnown'
  BY StepPath
<1>c. ASSUME NEW a \in Procs, pc'[a] = "e_rename", path' = NoInode
      PROVE  Article' = text'[call'[a].ino]
  <2>1. Renaming' = {a}
    BY <1>b, <1>c DEF Renaming, PathKnown, OneEditor, EditLabels, Copying
  <2>2. (CHOOSE x \in Renaming' : TRUE) = a
    BY <2>1
  <2> QED
    BY <1>c, <2>1, <2>2 DEF Article
<1>1. CASE Quiet(p)
  <2>1. CASE path # NoInode
    BY <1>1, <2>1 DEF Quiet, Article
  <2>2. CASE path = NoInode
    <3> PICK a \in Procs : pc[a] = "e_rename"
      BY <1>a, <2>2 DEF PathKnown
    <3>1. a # p /\ path' = NoInode /\ text' = text
      BY <1>1, <2>2 DEF Quiet
    <3>2. pc'[a] = "e_rename" /\ call'[a] = call[a]
      BY <1>a, <3>1 DEF Alone
    <3> QED
      BY <1>a, <1>c, <2>2, <3>1, <3>2, ArticleRenamed
  <2> QED
    BY <2>1, <2>2
<1>2. CASE ECopy(p) \/ (EEdit(p) /\ ~ Return(p)) \/ EMerge(p)
  <2>1. path \in Inodes /\ path' = path /\ text'[path] = text[path]
    BY <1>2, CopyAside
  <2>2. path # NoInode
    BY <2>1, ArticleAssumption
  <2> QED
    BY <2>1, <2>2 DEF Article
<1>3. CASE EUnlink(p)
  <2>1. pc[p] = "e_unlink" /\ path' = NoInode /\ text' = text /\ call' = call
    BY <1>3 DEF EUnlink
  <2>2. path # NoInode
    <3> SUFFICES ASSUME path = NoInode PROVE FALSE
      OBVIOUS
    <3> PICK a \in Procs : pc[a] = "e_rename"
      BY <1>a DEF PathKnown
    <3> QED
      BY <1>a, <2>1, EditorAlone DEF EditLabels, Copying
  <2>3. pc'[p] = "e_rename"
    BY <1>a, <1>3, <2>2 DEF EUnlink
  <2>4. Article' = text[call[p].ino] /\ Article = text[path]
    BY <1>c, <2>1, <2>2, <2>3 DEF Article
  <2> QED
    BY <1>a, <2>1, <2>4 DEF CopyKnown, Edited, IsArticle
<1>4. CASE ERename(p)
  <2>1. pc[p] = "e_rename" /\ path' = call[p].ino /\ text' = text /\ call' = call
    BY <1>4 DEF ERename
  <2>2. path = NoInode
    BY <1>a, <2>1 DEF PathKnown
  <2>3. path' # NoInode
    BY <1>a, <2>1, ArticleAssumption DEF FilesKnown, Copying
  <2>4. Article = text[call[p].ino]
    BY <1>a, <2>1, <2>2, ArticleRenamed
  <2> QED
    BY <2>1, <2>3, <2>4 DEF Article
<1> QED
  BY <1>1, <1>2, <1>3, <1>4, EditorSteps

LEMMA StepThread ==
    ASSUME OneEditor, ThreadInv, [Next]_vars
    PROVE  [AThread!AddComment \/ AThread!EditBody]_<<Head(Article), Tail(Article)>>
<1>1. CASE Article' = Article
  BY <1>1
<1>2. ASSUME NEW c \in Comments \ ItemsOf(Article), Article # <<>>, Article \in Seq(Item),
             Article' = Append(Article, c)
      PROVE  AThread!AddComment
  <2> DEFINE t == Article
             s == Tail(t)
  <2>1. c \in Item
    BY DEF Item
  <2>2. Head(Append(t, c)) = Head(t) /\ Tail(Append(t, c)) = Append(s, c)
    BY <1>2, <2>1, AppendText
  <2>3. /\ Len(s) = Len(t) - 1 /\ \A i \in 1..Len(s) : s[i] = t[i + 1]
        /\ Len(t) \in Nat
    BY <1>2, HeadTailProperties, LenProperties
  <2>4. \A i \in 1..Len(s) : s[i] # c
    <3> SUFFICES ASSUME NEW i \in 1..Len(s) PROVE s[i] \in ItemsOf(t)
      OBVIOUS
    <3>1. i + 1 \in 1..Len(t)
      BY <2>3
    <3> QED
      BY <2>3, <3>1 DEF ItemsOf
  <2>5. c \notin AThread!Made
    BY <2>4 DEF AThread!Made
  <2>6. Tail(Article)' = Append(Tail(Article), c) /\ Head(Article)' = Head(Article)
    BY <1>2, <2>2
  <2> QED
    BY <2>5, <2>6 DEF AThread!AddComment
<1>3. ASSUME Head(Article') \in Bodies, Head(Article') # Head(Article),
             Tail(Article') = Tail(Article)
      PROVE  AThread!EditBody
  BY <1>3 DEF AThread!EditBody
<1>4. CASE UNCHANGED vars
  <2>1. Article' = Article
    BY <1>4 DEF vars, Article, Renaming
  <2> QED
    BY <1>1, <2>1
<1>5. ASSUME NEW p \in Procs, Step(p)
      PROVE  [AThread!AddComment \/ AThread!EditBody]_<<Head(Article), Tail(Article)>>
  <2>1. CASE CWrite(p)
    BY <1>1, <1>2, <1>5, <2>1, WriteAdds
  <2>2. CASE ~ CWrite(p)
    BY <1>1, <1>3, <1>5, <2>2, StepArticle
  <2> QED
    BY <2>1, <2>2
<1> QED
  BY <1>4, <1>5, NextStep

LEMMA InitArticle == Init => AThread!ThreadInit
<1> SUFFICES ASSUME Init PROVE AThread!ThreadInit
  OBVIOUS
<1>1. Article = <<Body0>>
  BY ArticleAssumption DEF Init, Article
<1>2. Head(<<Body0>>) = Body0 /\ Tail(<<Body0>>) = <<>>
  OBVIOUS
<1> QED
  BY <1>1, <1>2, ArticleAssumption DEF AThread!ThreadInit

\* With one session of the author, however many comment, an edit replaces the
\* body and keeps every comment the article shows, in order and once, also
\* those made while the author was writing (append_merge_replace, bbs.c:1740,
\* under the assumptions it states).
THEOREM ThreadCorrect ==
    ASSUME OneEditor
    PROVE  Spec => ImplementsThread
<1>1. ThreadInv /\ [Next]_vars =>
        /\ ThreadInv'
        /\ [AThread!AddComment \/ AThread!EditBody]_<<Head(Article), Tail(Article)>>
  BY NextThread, StepThread
<1> QED
  BY <1>1, InitThread, InitArticle, PTL DEF Spec, ImplementsThread, AThread!ThreadSpec

=============================================================================
