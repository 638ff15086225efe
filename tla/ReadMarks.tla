------------------------------ MODULE ReadMarks ------------------------------
(***************************************************************************)
(* Which articles a user has read (mbbsd/brc.c).  A session keeps the list *)
(* of the board it is in and, for all boards, a buffer of bounded size     *)
(* that it loads at login and saves at logout.  An article is known by the *)
(* time of its creation; the clock itself is left out.  One step is one    *)
(* command of the user, with all calls of brc.c that it makes.             *)
(***************************************************************************)
EXTENDS Integers, Sequences, FiniteSets, SequencesExt

CONSTANTS
    Boards, Nobid,  \* Nobid for 0
    Articles,       \* times of creation
    Mods,           \* times of modification, 0 and -1 for those not known
    Now,            \* when everything is marked as read; some come later
    Expires,        \* what brc_expire_time is, login after login
    BRC_MAXNUM, BRC_MAXSIZE, BRC_BLOCKSIZE

\* sizeof(brcbid_t) + sizeof(brcnbrd_t), sizeof(brc_rec)
HeaderSize == 6
RecSize == 8

\* The time in the list of a board where nothing was read.
Unread == 1

ASSUME ReadMarksAssumption ==
    /\ Nobid \notin Boards
    /\ Articles \subseteq Nat /\ Mods \subseteq Nat \cup {-1}
    /\ Now \in Nat /\ Expires \subseteq Nat
    /\ \A e \in Expires : Unread < e /\ e < Now
    /\ \A t \in Articles : Unread < t /\ t # Now
    /\ Expires \cap Articles = {}
    /\ BRC_MAXNUM \in Nat \ {0}
    /\ BRC_BLOCKSIZE \in Nat \ {0} /\ BRC_MAXSIZE \in Nat \ {0}
    /\ BRC_MAXSIZE % BRC_BLOCKSIZE = 0
    /\ HeaderSize + RecSize * BRC_MAXNUM <= BRC_BLOCKSIZE

VARIABLES
    brc_buf,   \* its records, and the bytes of a record that was cut off
    brc_alloc,
    user_brc3,  \* the set of what .brc3 holds, empty if there is none
    brc_expire_time, brc_changed, brc_currbid,
    brc_list,  \* with brc_num entries
    at,        \* where the user is: in the list of boards, or in a board
    watched,   \* the board, any of them, that the history is about
    seen,      \* history: one <<article, modified>> that was read there
    newest     \* history: the newest that was read there

buffer == <<brc_buf, brc_alloc>>
current == <<brc_changed, brc_currbid, brc_list>>
history == <<watched, seen, newest>>
vars == <<buffer, user_brc3, brc_expire_time, current, at, history>>

-----------------------------------------------------------------------------
(* The buffer                                                              *)

Rec(create, modified) == [create |-> create, modified |-> modified]
Mark == [create : Nat, modified : Nat \cup {-1}]

\* A buffer or a file of records; tail: bytes of a piece behind them.
Buffer == [recs : Seq([bid : Boards, list : Seq(Mark)]), tail : Nat]

\* The places of all marks in recs.
Places(recs) == UNION {{i} \X DOMAIN recs[i].list : i \in DOMAIN recs}
BytesOf(recs) == HeaderSize * Len(recs) + RecSize * Cardinality(Places(recs))
Size(buf) == BytesOf(buf.recs) + buf.tail  \* brc_size
EmptyBuf == [recs |-> <<>>, tail |-> 0]

\* brc_findrecord_in
Find(buf, bid) == SelectInSeq(buf.recs, LAMBDA r : r.bid = bid)
ListOf(buf, bid) ==
    LET i == Find(buf, bid) IN IF i = 0 THEN <<>> ELSE buf.recs[i].list

\* Variant: all records stay when the buffer overflows.
CutNothing(buf, max) == [buf EXCEPT !.tail = max - BytesOf(buf.recs)]

\* What is left of buf in max bytes: the records that fit, and a piece.
Cut(buf, max) ==
    LET fits == {n \in 0..Len(buf.recs) : BytesOf(SubSeq(buf.recs, 1, n)) <= max}
        n == CHOOSE n \in fits : \A k \in fits : k <= n
        recs == SubSeq(buf.recs, 1, n)
    IN [recs |-> recs, tail |-> max - BytesOf(recs)]

\* The times before brc_expire_time are not written.
Trim(list, expire) ==
    SubSeq(list, 1, SelectLastInSeq(list, LAMBDA r : r.create >= expire))

\* Variant: a new record goes behind the others.
PutAtEnd(recs, new) == Append(recs, new)

\* A new record goes to the beginning.
Put(recs, new) == <<new>> \o recs

\* The records and the piece after them when bid gets a list.  A piece that is
\* too short for a header is not seen, and stays.
Replaced(buf, bid, list) ==
    LET i == Find(buf, bid)  new == [bid |-> bid, list |-> list] IN
    IF i = 0
    THEN [recs |-> IF list = <<>> THEN buf.recs ELSE Put(buf.recs, new),
          tail |-> IF buf.tail > HeaderSize THEN 0 ELSE buf.tail]
    ELSE [recs |-> IF list = <<>> THEN RemoveAt(buf.recs, i)
                   ELSE [buf.recs EXCEPT ![i] = new],
          tail |-> buf.tail]

\* Variant: the buffer is never made larger.
EnlargedNot(alloc) == alloc

\* brc_enlarge_buf
Enlarged(alloc) == IF alloc >= BRC_MAXSIZE THEN alloc ELSE alloc + BRC_BLOCKSIZE

\* brc_insert_record: the buffer and its allocated size.
Insert(buf, alloc, bid, list, expire) ==
    LET new == Replaced(buf, bid, Trim(list, expire)) IN
    IF Size(new) <= alloc THEN <<new, alloc>>
    ELSE IF Enlarged(alloc) # alloc THEN <<new, Enlarged(alloc)>>
    ELSE <<Cut(new, BRC_MAXSIZE), alloc>>

\* brc_get_buf
Allocated(size) ==
    IF size = 0 THEN BRC_BLOCKSIZE
    ELSE LET blocks == (size + BRC_BLOCKSIZE - 1) \div BRC_BLOCKSIZE IN
         IF blocks * BRC_BLOCKSIZE > BRC_MAXSIZE THEN BRC_MAXSIZE
         ELSE blocks * BRC_BLOCKSIZE

-----------------------------------------------------------------------------
(* The list of the board the user is in                                    *)

\* The first mark that is not newer than t, or 0.
FirstUpTo(list, t) == SelectInSeq(list, LAMBDA r : r.create <= t)

\* brc_addlist: the list, and whether brc_changed is set.
AddTo(list, t, m) ==
    LET i == FirstUpTo(list, t)
        added == InsertAt(list, i, Rec(t, m))
        known == IF list[i].modified = -1 THEN 0 ELSE list[i].modified
    IN  IF list = <<>> THEN <<<<Rec(t, m)>>, TRUE>>
        ELSE IF i = 0 \/ (list[i].create = t /\ m = -1) THEN <<list, FALSE>>
        ELSE IF list[i].create = t
        THEN <<[list EXCEPT ![i].modified = IF m > known THEN m ELSE known], m > known>>
        ELSE <<SubSeq(added, 1, IF Len(list) < BRC_MAXNUM THEN Len(added) ELSE BRC_MAXNUM),
               TRUE>>

\* Variant: without a record the list of the last board stays.
ReadStale(buf, bid) ==
    IF Find(buf, bid) = 0 THEN brc_list ELSE ListOf(buf, bid)

\* brc_read_record; the modified of a record of time Unread is never read.
Unvisited == <<Rec(Unread, 0)>>
ReadRecord(buf, bid) ==
    IF Find(buf, bid) = 0 THEN Unvisited ELSE ListOf(buf, bid)

\* brc_unread_time: 1 if it was created, 2 if it was modified since.
brc_unread_time(bid, t, m) ==
    LET list == IF brc_currbid # Nobid /\ bid = brc_currbid THEN brc_list
                ELSE ListOf(brc_buf, bid)
        i == FirstUpTo(list, t)
    IN  IF t <= brc_expire_time THEN 0
        ELSE IF list = <<>> THEN 1
        ELSE IF i = 0 THEN 0
        ELSE IF list[i].create < t THEN 1
        ELSE IF m \in {0, -1} \/ list[i].modified \in {0, -1} THEN 0
        ELSE IF m > list[i].modified THEN 2 ELSE 0

-----------------------------------------------------------------------------
(* Commands of the user                                                    *)

Init ==
    /\ brc_buf = EmptyBuf /\ brc_alloc = 0 /\ user_brc3 = {}
    /\ brc_expire_time \in Expires
    /\ brc_changed = FALSE /\ brc_currbid = Nobid /\ brc_list = <<>>
    /\ at = "list"
    /\ watched \in Boards /\ seen = {} /\ newest = Unread

\* When the buffer overflows, the boards that it does not hold any more are
\* forgotten, but never one that has just come into it.
Remembered(bid, list) ==
    LET new == Replaced(brc_buf, bid, Trim(list, brc_expire_time))
        buf == Insert(brc_buf, brc_alloc, bid, list, brc_expire_time)[1]
    IN  IF \/ buf = new \/ Find(buf, watched) # 0
           \/ watched = bid /\ Find(brc_buf, bid) = 0
        THEN seen ELSE {}

\* brc_update
Dirty == brc_currbid # Nobid /\ brc_changed /\ brc_list # <<>>
Updated ==
    IF Dirty THEN Insert(brc_buf, brc_alloc, brc_currbid, brc_list, brc_expire_time)
    ELSE buffer
UpdatedSeen == IF Dirty THEN Remembered(brc_currbid, brc_list) ELSE seen

Update ==
    /\ LET u == Updated IN brc_buf' = u[1] /\ brc_alloc' = u[2]
    /\ brc_changed' = IF Dirty THEN FALSE ELSE brc_changed
    /\ seen' = UpdatedSeen

\* enter_board: brc_update, brc_initial_board.  The user may go straight from
\* one board to another.
EnterBoard(b) ==
    /\ at \in {"list", "board"}
    /\ Update
    /\ brc_currbid' = b
    /\ brc_list' = IF b = brc_currbid THEN brc_list ELSE ReadRecord(Updated[1], b)
    /\ at' = "board"
    /\ UNCHANGED <<user_brc3, brc_expire_time, watched, newest>>

\* brc_addlist: an article is read, posted, edited or commented on.  A board
\* that the buffer has lost stays forgotten until its list changes.
MarkRead(t, m) ==
    LET added == AddTo(brc_list, t, m)
        kept == added[2] \/ brc_changed \/ Find(brc_buf, brc_currbid) # 0
    IN
    /\ at = "board"
    /\ t > brc_expire_time
    /\ brc_list' = added[1]
    /\ brc_changed' = (brc_changed \/ added[2])
    /\ seen' \in {seen} \cup IF kept /\ brc_currbid = watched THEN {{<<t, m>>}} ELSE {}
    /\ newest' = IF brc_currbid = watched /\ t > newest THEN t ELSE newest
    /\ UNCHANGED <<buffer, user_brc3, brc_expire_time, brc_currbid, at, watched>>

\* brc_trunc: what is older than t is read, the rest is not.
Truncate(b, t) ==
    LET list == <<Rec(t, t)>>
        buf == Insert(brc_buf, brc_alloc, b, list, brc_expire_time)
    IN
    /\ brc_buf' = buf[1] /\ brc_alloc' = buf[2]
    /\ brc_list' = IF b = brc_currbid THEN list ELSE brc_list
    /\ brc_changed' = FALSE
    /\ seen' = {s \in Remembered(b, list) : b # watched \/ s[1] < t}
    /\ newest' = IF b = watched THEN t ELSE newest
    /\ UNCHANGED <<user_brc3, brc_expire_time, brc_currbid, at, watched>>

\* b_mark_read_unread, for the board the user is in
MarkBoard ==
    /\ at = "board"
    /\ \E t \in Articles \cup {Unread, Now} : Truncate(brc_currbid, t)

\* 'v' and 'V' in the list of boards
MarkInList(b) ==
    /\ at = "list"
    /\ \E t \in {Unread, Now} : Truncate(b, t)

\* Read returns.
LeaveBoard ==
    /\ at = "board"
    /\ Update
    /\ at' = "list"
    /\ UNCHANGED <<user_brc3, brc_expire_time, brc_currbid, brc_list, watched, newest>>

\* brc_finalize: save_local_brc writes nothing if there is no buffer.
Saved == LET u == Updated IN IF u[2] = 0 THEN user_brc3 ELSE {u[1]}

\* load_local_brc
Loaded(file) ==
    IF file = {} THEN <<EmptyBuf, 0>>
    ELSE LET buf == CHOOSE buf \in file : TRUE IN <<buf, Allocated(Size(buf))>>

\* 'w' in the list of boards: brc_finalize; the next use of the marks reads
\* the file again.
SaveMarks ==
    /\ at = "list"
    /\ LET saved == Saved  loaded == Loaded(saved)
       IN /\ user_brc3' = saved
          /\ brc_buf' = loaded[1] /\ brc_alloc' = loaded[2]
    /\ brc_changed' = FALSE
    /\ seen' = UpdatedSeen
    /\ UNCHANGED <<brc_expire_time, brc_currbid, brc_list, at, watched, newest>>

\* u_exit, wherever the user is: brc_finalize.
Logout ==
    /\ at \in {"list", "board"}
    /\ at' = "out"
    /\ user_brc3' = Saved
    /\ brc_buf' = EmptyBuf /\ brc_alloc' = 0
    /\ brc_changed' = FALSE /\ brc_currbid' = Nobid /\ brc_list' = <<>>
    /\ seen' = UpdatedSeen
    /\ UNCHANGED <<brc_expire_time, watched, newest>>

\* A later session, as brc_initialize finds it.
Login ==
    /\ at = "out"
    /\ at' = "list"
    /\ \E e \in Expires : e >= brc_expire_time /\ brc_expire_time' = e
    /\ brc_buf' = Loaded(user_brc3)[1] /\ brc_alloc' = Loaded(user_brc3)[2]
    /\ UNCHANGED <<user_brc3, current, history>>

Next ==
    \/ \E b \in Boards : EnterBoard(b) \/ MarkInList(b)
    \/ \E t \in Articles, m \in Mods : MarkRead(t, m)
    \/ MarkBoard \/ LeaveBoard \/ SaveMarks \/ Logout \/ Login

Spec == Init /\ [][Next]_vars

-----------------------------------------------------------------------------
(* Properties                                                              *)

\* Every variable keeps to its type.
TypeOK ==
    /\ brc_buf \in Buffer /\ user_brc3 \subseteq Buffer
    /\ \A f, g \in user_brc3 : f = g
    /\ brc_alloc \in Nat /\ brc_expire_time \in Expires
    /\ brc_changed \in BOOLEAN /\ brc_currbid \in Boards \cup {Nobid}
    /\ brc_list \in Seq(Mark)
    /\ at \in {"list", "board", "out"}
    /\ watched \in Boards /\ newest \in Nat
    /\ seen \subseteq Articles \X Mods /\ \A s, u \in seen : s = u

Falling(list) ==
    /\ Len(list) <= BRC_MAXNUM
    /\ \A i, j \in 1..Len(list) : i < j => list[i].create > list[j].create

\* The buffer never outgrows what was allocated for it, although
\* brc_enlarge_buf adds one block only, holds a board at most once, although a
\* record may have been cut off, and its lists are as brc_read_record asserts
\* and the searches assume (brc.c:141-176, 191-247, 469).
BufferKept ==
    /\ Size(brc_buf) <= brc_alloc /\ brc_alloc <= BRC_MAXSIZE
    /\ Falling(brc_list)
    /\ \A i \in 1..Len(brc_buf.recs) :
        /\ brc_buf.recs[i].list # <<>> /\ Falling(brc_buf.recs[i].list)
        /\ \A j \in 1..Len(brc_buf.recs) :
                brc_buf.recs[i].bid = brc_buf.recs[j].bid => i = j

\* What was read stays read, through lists that are full, boards that are
\* left and entered, times that expire and sessions that end, until the user
\* marks it unread or the buffer overflows (docs/brc.txt; brc.c:596-637).
ReadStays == at # "out" => \A s \in seen : brc_unread_time(watched, s[1], s[2]) = 0

\* An article newer than all that were read, or marked, in its board shows as
\* unread, whatever the buffer has forgotten (brc.c:464-476, 614-621).
NewIsUnread ==
    at # "out" => \A t \in Articles :
        t > newest /\ t > brc_expire_time => brc_unread_time(watched, t, 0) = 1
=============================================================================
