-------------------------- MODULE ReadMarksProofs ---------------------------
(***************************************************************************)
(* Theorems about ReadMarks, for any boards, articles, times and sizes.    *)
(* They rest on one invariant, IInv: the buffer (BufferInv) and the list   *)
(* of the current board (BoardInv) are sound, and what the history says of *)
(* the watched board is in that list or, once it is written, in the buffer *)
(* (SeenInv, NewInv).  Before the steps stand the lemmas on the searches,  *)
(* on the lists, and on the bytes and the size of the buffer.              *)
(***************************************************************************)
EXTENDS ReadMarks, FiniteSetTheorems, SequenceTheorems, WellFoundedInduction, TLAPS

-----------------------------------------------------------------------------
(* What a list says of an article, without the search.                     *)

\* A time of modification m that a mark with time k covers.  To brc_unread_time
\* a k that is not known covers all, but brc_addlist may replace it.
Covered(k, m) == m <= 0 \/ m <= k

\* The article s shows as read where list is the list of its board.
ReadIn(list, e, s) ==
    \/ s[1] <= e
    \/ /\ list # <<>>
       /\ \/ \A i \in 1..Len(list) : list[i].create > s[1]
          \/ \E i \in 1..Len(list) :
                list[i].create = s[1] /\ Covered(list[i].modified, s[2])

UpTo(list, t) == \A i \in 1..Len(list) : list[i].create <= t

\* The records of a buffer or a file.
BoardRec == [bid : Boards, list : Seq(Mark)]
KeptRecs(recs) ==
    \A i \in 1..Len(recs) :
        /\ recs[i].list # <<>> /\ Falling(recs[i].list)
        /\ \A j \in 1..Len(recs) : recs[i].bid = recs[j].bid => i = j

-----------------------------------------------------------------------------
(* The invariant.                                                          *)

Whole(n) == \E k \in 0..n : n = k * BRC_BLOCKSIZE

\* The allocated size is a number of blocks, and what the file holds fits; a
\* session without a buffer has found no file.
BufferInv ==
    /\ BufferKept
    /\ Whole(brc_alloc)
    /\ \A buf \in user_brc3 : KeptRecs(buf.recs) /\ Size(buf) <= BRC_MAXSIZE
    /\ at # "out" /\ brc_alloc = 0 => user_brc3 = {}

\* The list is that of a board, and only there it differs from the buffer.
BoardInv ==
    /\ brc_currbid # Nobid <=> brc_list # <<>>
    /\ at = "board" => brc_currbid # Nobid
    /\ at = "out" => brc_currbid = Nobid
    /\ brc_changed => at = "board"

\* What an article in the history is compared with.
Here == at # "out" /\ brc_currbid = watched
Stored == IF at = "out" THEN Loaded(user_brc3)[1] ELSE brc_buf

SeenInv ==
    /\ \A s \in seen :
        /\ Here => ReadIn(brc_list, brc_expire_time, s)
        /\ ~ (Here /\ brc_changed) =>
                ReadIn(ListOf(Stored, watched), brc_expire_time, s)
    /\ Here /\ ~ brc_changed /\ Find(brc_buf, watched) # 0 =>
        \A s \in Articles \X Mods : ReadIn(brc_list, brc_expire_time, s) =>
                ReadIn(ListOf(brc_buf, watched), brc_expire_time, s)

NewInv ==
    /\ newest >= Unread
    /\ Here => UpTo(brc_list, newest)
    /\ UpTo(ListOf(Stored, watched), newest)

IInv == TypeOK /\ BufferInv /\ BoardInv /\ SeenInv /\ NewInv

-----------------------------------------------------------------------------
(* Searches                                                                *)

LEMMA MinIs ==
    ASSUME NEW T, T \subseteq Nat, T # {}
    PROVE  Min(T) \in T /\ \A m \in T : Min(T) <= m
<1>1. PICK n \in T : \A m \in T : ~ (<<m, n>> \in OpToRel(<, Nat))
  BY NatLessThanWellFounded, WFMin
<1>2. \A m \in T : ~ (m < n)
  BY <1>1 DEF OpToRel
<1>3. \A m \in T : n <= m
  BY <1>2
<1> QED
  BY <1>3 DEF Min

\* A set of numbers below n has a greatest one: the least distance from n.
LEMMA MaxIs ==
    ASSUME NEW n \in Nat, NEW T, T \subseteq 0..n, T # {}
    PROVE  Max(T) \in T /\ \A m \in T : m <= Max(T)
<1> DEFINE D == {d \in 0..n : n - d \in T}
<1>1. D \subseteq Nat /\ D # {}
  <2>1. PICK m \in T : TRUE
    OBVIOUS
  <2>2. n - m \in 0..n /\ n - (n - m) = m
    BY <2>1
  <2>3. n - m \in D
    BY <2>1, <2>2
  <2> QED
    BY <2>3
<1>2. Min(D) \in D /\ \A d \in D : Min(D) <= d
  <2> HIDE DEF D
  <2> QED
    BY <1>1, MinIs
<1>3. n - Min(D) \in T /\ Min(D) \in 0..n
  BY <1>2
<1>4. \A m \in T : m <= n - Min(D)
  <2> TAKE m \in T
  <2>1. n - m \in 0..n /\ n - (n - m) = m
    OBVIOUS
  <2>2. n - m \in D
    BY <2>1
  <2>3. Min(D) <= n - m /\ Min(D) \in Nat /\ m \in Nat
    BY <1>2, <1>3, <2>2
  <2> HIDE DEF D
  <2> QED
    BY <2>3
<1>5. \A m \in T : n - Min(D) >= m
  BY <1>3, <1>4
<1>6. Max(T) \in T /\ \A m \in T : Max(T) >= m
  BY <1>3, <1>5 DEF Max
<1>7. \A m \in T : m \in Int
  OBVIOUS
<1> QED
  BY <1>6, <1>7

\* brc_findrecord_in finds the first record of the board.
LEMMA FindIs ==
    ASSUME NEW buf, Len(buf.recs) \in Nat, NEW bid
    PROVE  /\ Find(buf, bid) \in 0..Len(buf.recs)
           /\ Find(buf, bid) # 0 => buf.recs[Find(buf, bid)].bid = bid
           /\ Find(buf, bid) = 0 => \A i \in 1..Len(buf.recs) : buf.recs[i].bid # bid
<1> DEFINE I == {i \in 1..Len(buf.recs) : buf.recs[i].bid = bid}
<1>1. Find(buf, bid) = IF I # {} THEN Min(I) ELSE 0
  BY DEF Find, SelectInSeq
<1>2. CASE I = {}
  BY <1>1, <1>2
<1>3. CASE I # {}
  <2>1. I \subseteq Nat
    OBVIOUS
  <2>2. Min(I) \in I
    <3> HIDE DEF I
    <3> QED
      BY <1>3, <2>1, MinIs
  <2>3. Find(buf, bid) \in 1..Len(buf.recs) /\ buf.recs[Find(buf, bid)].bid = bid
    BY <1>1, <1>3, <2>2
  <2> QED
    BY <2>3
<1> QED
  BY <1>2, <1>3

LEMMA MarksIn ==
    ASSUME NEW list \in Seq(Mark)
    PROVE  /\ Len(list) \in Nat
           /\ \A j \in 1..Len(list) :
                list[j] \in Mark /\ list[j].create \in Nat
                /\ list[j].modified \in Nat \cup {-1} /\ list[j].modified \in Int
<1>1. Len(list) \in Nat /\ \A j \in 1..Len(list) : list[j] \in Mark
  BY LenProperties, ElementOfSeq
<1>2. \A r \in Mark : r.create \in Nat /\ r.modified \in Nat \cup {-1}
  BY DEF Mark
<1> QED
  BY <1>1, <1>2

LEMMA FirstUpToIs ==
    ASSUME NEW list \in Seq(Mark), NEW t \in Int
    PROVE  LET i == FirstUpTo(list, t) IN
           /\ i \in 0..Len(list)
           /\ i = 0 => \A j \in 1..Len(list) : list[j].create > t
           /\ i # 0 => list[i].create <= t /\ \A j \in 1..(i - 1) : list[j].create > t
<1> DEFINE I == {i \in 1..Len(list) : list[i].create <= t}
           i == FirstUpTo(list, t)
<1>0. Len(list) \in Nat /\ \A j \in 1..Len(list) : list[j].create \in Nat
  BY MarksIn
<1>1. i = IF I # {} THEN Min(I) ELSE 0
  BY DEF FirstUpTo, SelectInSeq
<1>2. CASE I = {}
  <2>1. \A j \in 1..Len(list) : ~ (list[j].create <= t)
    BY <1>2
  <2> QED
    BY <1>0, <1>1, <1>2, <2>1
<1>3. CASE I # {}
  <2>1. I \subseteq Nat
    OBVIOUS
  <2>2. Min(I) \in I /\ \A j \in I : Min(I) <= j
    <3> HIDE DEF I
    <3> QED
      BY <1>3, <2>1, MinIs
  <2>3. i \in 1..Len(list) /\ list[i].create <= t /\ \A j \in I : i <= j
    BY <1>1, <1>3, <2>2
  <2>4. \A j \in 1..(i - 1) : list[j].create > t
    <3> HIDE DEF i
    <3> TAKE j \in 1..(i - 1)
    <3>1. j \in 1..Len(list) /\ ~ (i <= j)
      BY <1>0, <2>3
    <3>2. j \notin I
      BY <2>3, <3>1
    <3> QED
      BY <1>0, <3>1, <3>2
  <2> QED
    BY <2>3, <2>4
<1> QED
  BY <1>2, <1>3

\* The marks that are written: those before the last one that is not older
\* than expire.
LEMMA TrimIs ==
    ASSUME NEW list \in Seq(Mark), NEW e \in Nat
    PROVE  \E n \in 0..Len(list) :
              /\ Trim(list, e) = SubSeq(list, 1, n)
              /\ n # 0 => list[n].create >= e
              /\ \A i \in (n + 1)..Len(list) : list[i].create < e
<1> DEFINE I == {i \in 1..Len(list) : list[i].create >= e}
           n == IF I # {} THEN Max(I) ELSE 0
<1>0. Len(list) \in Nat /\ \A j \in 1..Len(list) : list[j].create \in Nat
  BY MarksIn
<1>1. Trim(list, e) = SubSeq(list, 1, n)
  BY DEF Trim, SelectLastInSeq
<1>2. CASE I = {}
  <2>1. \A i \in 1..Len(list) : ~ (list[i].create >= e)
    BY <1>2
  <2>2. \A i \in (0 + 1)..Len(list) : list[i].create < e
    BY <1>0, <2>1
  <2>3. n = 0
    BY <1>2
  <2> HIDE DEF n
  <2> QED
    BY <1>0, <1>1, <2>2, <2>3
<1>3. CASE I # {}
  <2>1. I \subseteq 0..Len(list)
    BY <1>0
  <2>2. Max(I) \in I /\ \A j \in I : j <= Max(I)
    <3> HIDE DEF I
    <3> QED
      BY <1>0, <1>3, <2>1, MaxIs
  <2>3. n \in 1..Len(list) /\ list[n].create >= e /\ \A j \in I : j <= n
    BY <1>3, <2>2
  <2> HIDE DEF n
  <2>4. \A i \in (n + 1)..Len(list) : list[i].create < e
    <3> TAKE i \in (n + 1)..Len(list)
    <3>1. i \in 1..Len(list) /\ ~ (i <= n)
      BY <1>0, <2>3
    <3>2. i \notin I
      BY <2>3, <3>1
    <3> QED
      BY <1>0, <3>1, <3>2
  <2>5. n \in 0..Len(list)
    BY <2>3
  <2> QED
    BY <1>1, <2>3, <2>4, <2>5
<1> QED
  BY <1>2, <1>3

-----------------------------------------------------------------------------
(* Lists                                                                   *)

LEMMA PrefixOf ==
    ASSUME NEW S, NEW list \in Seq(S), NEW n \in 0..Len(list)
    PROVE  /\ SubSeq(list, 1, n) \in Seq(S)
           /\ Len(SubSeq(list, 1, n)) = n
           /\ \A i \in 1..n : SubSeq(list, 1, n)[i] = list[i]
<1>0. Len(list) \in Nat /\ \A i \in 1..Len(list) : list[i] \in S
  BY LenProperties, ElementOfSeq
<1>1. n \in Int /\ 1 \in Int /\ n \in Nat
  BY <1>0
<1>2. \A i \in 1..n : list[i] \in S
  BY <1>0
<1>3. /\ SubSeq(list, 1, n) \in Seq(S)
      /\ Len(SubSeq(list, 1, n)) = IF 1 <= n THEN n - 1 + 1 ELSE 0
      /\ \A i \in 1..(n - 1 + 1) : SubSeq(list, 1, n)[i] = list[1 + i - 1]
  BY <1>1, <1>2, SubSeqProperties
<1>4. \A i \in 1..n : SubSeq(list, 1, n)[i] = list[i]
  <2> TAKE i \in 1..n
  <2>1. i \in 1..(n - 1 + 1) /\ 1 + i - 1 = i
    BY <1>1
  <2> QED
    BY <1>3, <2>1
<1> QED
  BY <1>1, <1>3, <1>4

LEMMA SuffixOf ==
    ASSUME NEW S, NEW list \in Seq(S), NEW n \in 1..(Len(list) + 1)
    PROVE  /\ SubSeq(list, n, Len(list)) \in Seq(S)
           /\ Len(SubSeq(list, n, Len(list))) = Len(list) + 1 - n
           /\ \A i \in 1..(Len(list) + 1 - n) : SubSeq(list, n, Len(list))[i] = list[n + i - 1]
<1>0. Len(list) \in Nat /\ \A i \in 1..Len(list) : list[i] \in S
  BY LenProperties, ElementOfSeq
<1>1. n \in Int /\ Len(list) \in Int /\ n >= 1 /\ n <= Len(list) + 1
  BY <1>0
<1>2. \A i \in n..Len(list) : list[i] \in S
  BY <1>0, <1>1
<1>3. /\ SubSeq(list, n, Len(list)) \in Seq(S)
      /\ Len(SubSeq(list, n, Len(list))) = IF n <= Len(list) THEN Len(list) - n + 1 ELSE 0
      /\ \A i \in 1..(Len(list) - n + 1) :
            SubSeq(list, n, Len(list))[i] = list[n + i - 1]
  BY <1>1, <1>2, SubSeqProperties
<1>4. Len(list) - n + 1 = Len(list) + 1 - n
  BY <1>1
<1>5. (IF n <= Len(list) THEN Len(list) - n + 1 ELSE 0) = Len(list) + 1 - n
  BY <1>1
<1> QED
  BY <1>3, <1>4, <1>5

LEMMA PlacedAt ==
    ASSUME NEW S, NEW list \in Seq(S), NEW i \in 1..Len(list), NEW r \in S
    PROVE  /\ InsertAt(list, i, r) \in Seq(S)
           /\ Len(InsertAt(list, i, r)) = Len(list) + 1
           /\ \A j \in 1..(Len(list) + 1) : InsertAt(list, i, r)[j] =
                    IF j < i THEN list[j] ELSE IF j = i THEN r ELSE list[j - 1]
<1> DEFINE a == SubSeq(list, 1, i - 1)
           b == SubSeq(list, i, Len(list))
           k == i - 1
<1>0. Len(list) \in Nat /\ k \in 0..Len(list) /\ i \in 1..(Len(list) + 1)
      /\ i = k + 1 /\ i \in Nat
  BY LenProperties
<1>1. a \in Seq(S) /\ Len(a) = k /\ \A j \in 1..k : a[j] = list[j]
  <2> HIDE DEF k
  <2>1. /\ SubSeq(list, 1, k) \in Seq(S)
        /\ Len(SubSeq(list, 1, k)) = k
        /\ \A j \in 1..k : SubSeq(list, 1, k)[j] = list[j]
    BY <1>0, PrefixOf
  <2> QED
    BY <2>1 DEF k
<1>2. b \in Seq(S) /\ Len(b) = Len(list) + 1 - i
      /\ \A j \in 1..(Len(list) + 1 - i) : b[j] = list[i + j - 1]
  BY <1>0, SuffixOf
<1> HIDE DEF a, b, k
<1>3. <<r>> \in Seq(S) /\ Len(<<r>>) = 1 /\ <<r>>[1] = r
  OBVIOUS
<1>4. /\ a \o <<r>> \in Seq(S)
      /\ Len(a \o <<r>>) = k + 1
      /\ \A j \in 1..(k + 1) : (a \o <<r>>)[j] = IF j <= k THEN a[j] ELSE <<r>>[j - k]
  BY <1>1, <1>3, ConcatProperties
<1>5. /\ (a \o <<r>>) \o b \in Seq(S)
      /\ Len((a \o <<r>>) \o b) = (k + 1) + (Len(list) + 1 - i)
      /\ \A j \in 1..((k + 1) + (Len(list) + 1 - i)) : ((a \o <<r>>) \o b)[j] =
            IF j <= k + 1 THEN (a \o <<r>>)[j] ELSE b[j - (k + 1)]
  <2> DEFINE c == a \o <<r>>
  <2>0. c \in Seq(S) /\ Len(c) = k + 1
    BY <1>4
  <2> HIDE DEF c
  <2>1. /\ c \o b \in Seq(S)
        /\ Len(c \o b) = Len(c) + Len(b)
        /\ \A j \in 1..(Len(c) + Len(b)) :
            (c \o b)[j] = IF j <= Len(c) THEN c[j] ELSE b[j - Len(c)]
    BY <1>2, <2>0, ConcatProperties
  <2>2. Len(c) = k + 1 /\ Len(b) = Len(list) + 1 - i
    BY <1>2, <2>0
  <2>3. /\ c \o b \in Seq(S)
        /\ Len(c \o b) = (k + 1) + (Len(list) + 1 - i)
        /\ \A j \in 1..((k + 1) + (Len(list) + 1 - i)) :
            (c \o b)[j] = IF j <= k + 1 THEN c[j] ELSE b[j - (k + 1)]
    BY <2>1, <2>2
  <2> QED
    BY <2>3 DEF c
<1>6. InsertAt(list, i, r) = (a \o <<r>>) \o b
  BY DEF InsertAt, a, b
<1>7. (k + 1) + (Len(list) + 1 - i) = Len(list) + 1
  BY <1>0
<1>8. ASSUME NEW j \in 1..(Len(list) + 1)
      PROVE  ((a \o <<r>>) \o b)[j] =
                IF j < i THEN list[j] ELSE IF j = i THEN r ELSE list[j - 1]
  <2>1. CASE j < i
    <3>1. j \in 1..k /\ j \in 1..(k + 1) /\ j <= k + 1 /\ j <= k
      BY <1>0, <2>1
    <3> QED
      BY <1>1, <1>4, <1>5, <1>7, <2>1, <3>1
  <2>2. CASE j = i
    <3>1. j \in 1..(k + 1) /\ j <= k + 1 /\ ~ (j <= k) /\ j - k = 1 /\ ~ (j < i)
      BY <1>0, <2>2
    <3> QED
      BY <1>3, <1>4, <1>5, <1>7, <2>2, <3>1
  <2>3. CASE j > i
    <3>1. /\ ~ (j <= k + 1) /\ j - (k + 1) \in 1..(Len(list) + 1 - i)
          /\ i + (j - (k + 1)) - 1 = j - 1 /\ ~ (j < i) /\ ~ (j = i)
      BY <1>0, <2>3
    <3> QED
      BY <1>2, <1>5, <1>7, <3>1
  <2>4. j < i \/ j = i \/ j > i
    BY <1>0
  <2> QED
    BY <2>1, <2>2, <2>3, <2>4
<1> QED
  BY <1>5, <1>6, <1>7, <1>8

LEMMA Without ==
    ASSUME NEW S, NEW list \in Seq(S), NEW i \in 1..Len(list)
    PROVE  /\ RemoveAt(list, i) \in Seq(S)
           /\ Len(RemoveAt(list, i)) = Len(list) - 1
           /\ \A j \in 1..(Len(list) - 1) : RemoveAt(list, i)[j] =
                    IF j < i THEN list[j] ELSE list[j + 1]
<1> DEFINE a == SubSeq(list, 1, i - 1)
           b == SubSeq(list, i + 1, Len(list))
           k == i - 1
           n == i + 1
<1>0. Len(list) \in Nat /\ k \in 0..Len(list) /\ n \in 1..(Len(list) + 1)
      /\ i = k + 1 /\ n = k + 2 /\ i \in Nat
  BY LenProperties
<1>1. a \in Seq(S) /\ Len(a) = k /\ \A j \in 1..k : a[j] = list[j]
  <2> HIDE DEF k
  <2>1. /\ SubSeq(list, 1, k) \in Seq(S)
        /\ Len(SubSeq(list, 1, k)) = k
        /\ \A j \in 1..k : SubSeq(list, 1, k)[j] = list[j]
    BY <1>0, PrefixOf
  <2> QED
    BY <2>1 DEF k
<1>2. b \in Seq(S) /\ Len(b) = Len(list) + 1 - n
      /\ \A j \in 1..(Len(list) + 1 - n) : b[j] = list[n + j - 1]
  <2> HIDE DEF n
  <2>1. /\ SubSeq(list, n, Len(list)) \in Seq(S)
        /\ Len(SubSeq(list, n, Len(list))) = Len(list) + 1 - n
        /\ \A j \in 1..(Len(list) + 1 - n) : SubSeq(list, n, Len(list))[j] = list[n + j - 1]
    BY <1>0, SuffixOf
  <2> QED
    BY <2>1 DEF n
<1> HIDE DEF a, b, k, n
<1>3. /\ a \o b \in Seq(S)
      /\ Len(a \o b) = k + (Len(list) + 1 - n)
      /\ \A j \in 1..(k + (Len(list) + 1 - n)) :
            (a \o b)[j] = IF j <= k THEN a[j] ELSE b[j - k]
  <2>1. /\ a \o b \in Seq(S)
        /\ Len(a \o b) = Len(a) + Len(b)
        /\ \A j \in 1..(Len(a) + Len(b)) :
            (a \o b)[j] = IF j <= Len(a) THEN a[j] ELSE b[j - Len(a)]
    BY <1>1, <1>2, ConcatProperties
  <2>2. Len(a) = k /\ Len(b) = Len(list) + 1 - n
    BY <1>1, <1>2
  <2> QED
    BY <2>1, <2>2
<1>4. RemoveAt(list, i) = a \o b
  BY DEF RemoveAt, a, b
<1>5. k + (Len(list) + 1 - n) = Len(list) - 1
  BY <1>0
<1>6. ASSUME NEW j \in 1..(Len(list) - 1)
      PROVE  (a \o b)[j] = IF j < i THEN list[j] ELSE list[j + 1]
  <2>1. CASE j < i
    <3>1. j \in 1..k /\ j <= k
      BY <1>0, <2>1
    <3> QED
      BY <1>1, <1>3, <1>5, <2>1, <3>1
  <2>2. CASE ~ (j < i)
    <3>1. /\ ~ (j <= k) /\ j - k \in 1..(Len(list) + 1 - n)
          /\ n + (j - k) - 1 = j + 1
      BY <1>0, <2>2
    <3> QED
      BY <1>2, <1>3, <1>5, <2>2, <3>1
  <2> QED
    BY <2>1, <2>2
<1> QED
  BY <1>3, <1>4, <1>5, <1>6

\* What is written to the buffer loses nothing that brc_expire_time does not.
LEMMA TrimKeeps ==
    ASSUME NEW list \in Seq(Mark), Falling(list), NEW e \in Nat
    PROVE  /\ Trim(list, e) \in Seq(Mark)
           /\ Falling(Trim(list, e))
           /\ \A n \in Nat : UpTo(list, n) => UpTo(Trim(list, e), n)
           /\ \A s \in Nat \X Int : ReadIn(list, e, s) => ReadIn(Trim(list, e), e, s)
<1>0. Len(list) \in Nat /\ \A j \in 1..Len(list) : list[j].create \in Nat
  BY MarksIn
<1>1. PICK n \in 0..Len(list) :
            /\ Trim(list, e) = SubSeq(list, 1, n)
            /\ n # 0 => list[n].create >= e
            /\ \A i \in (n + 1)..Len(list) : list[i].create < e
  BY TrimIs
<1> DEFINE L == Trim(list, e)
<1>2. L \in Seq(Mark) /\ Len(L) = n /\ \A i \in 1..n : L[i] = list[i]
  BY <1>1, PrefixOf
<1> HIDE DEF L
<1>3. n \in Nat /\ n <= Len(list) /\ \A i \in 1..n : i \in 1..Len(list)
  BY <1>0
<1>4. Falling(L)
  BY <1>0, <1>2, <1>3, ReadMarksAssumption DEF Falling
<1>5. ASSUME NEW k \in Nat, UpTo(list, k) PROVE UpTo(L, k)
  BY <1>2, <1>3, <1>5 DEF UpTo
<1>6. ASSUME NEW s \in Nat \X Int, ReadIn(list, e, s) PROVE ReadIn(L, e, s)
  <2>0. s[1] \in Nat /\ s[2] \in Int
    OBVIOUS
  <2>1. CASE s[1] <= e
    BY <2>1 DEF ReadIn
  <2>2. CASE s[1] > e /\ list # <<>> /\ \A i \in 1..Len(list) : list[i].create > s[1]
    <3>1. Len(list) # 0
      BY <2>2, EmptySeq
    <3>2. n = Len(list)
      <4> SUFFICES ASSUME n # Len(list) PROVE FALSE
        OBVIOUS
      <4>1. Len(list) \in (n + 1)..Len(list) /\ Len(list) \in 1..Len(list)
        BY <1>0, <1>3, <3>1
      <4>2. list[Len(list)].create < e /\ list[Len(list)].create > s[1]
        BY <1>1, <2>2, <4>1
      <4>3. list[Len(list)].create \in Nat
        BY <1>0, <4>1
      <4> QED
        BY <2>0, <2>2, <4>2, <4>3
    <3>3. L # <<>>
      BY <1>2, <3>1, <3>2, EmptySeq
    <3>4. \A i \in 1..Len(L) : L[i].create > s[1]
      BY <1>2, <2>2, <3>2
    <3> QED
      BY <3>3, <3>4 DEF ReadIn
  <2>3. CASE s[1] > e /\ \E i \in 1..Len(list) :
                list[i].create = s[1] /\ Covered(list[i].modified, s[2])
    <3>1. PICK i \in 1..Len(list) :
                list[i].create = s[1] /\ Covered(list[i].modified, s[2])
      BY <2>3
    <3>2. i \in 1..n
      <4> SUFFICES ASSUME i \notin 1..n PROVE FALSE
        OBVIOUS
      <4>1. i \in (n + 1)..Len(list)
        BY <1>0, <1>3
      <4>2. s[1] < e
        BY <1>1, <3>1, <4>1
      <4> QED
        BY <2>0, <2>3, <4>2
    <3>3. L[i] = list[i] /\ i \in 1..Len(L)
      BY <1>2, <3>2
    <3>4. L # <<>>
      BY <1>2, <3>2, EmptySeq
    <3> QED
      BY <3>1, <3>3, <3>4 DEF ReadIn
  <2>4. s[1] <= e \/ s[1] > e
    BY <2>0
  <2> QED
    BY <1>6, <2>1, <2>2, <2>3, <2>4 DEF ReadIn
<1> QED
  BY <1>2, <1>4, <1>5, <1>6 DEF L

\* brc_unread_time shows what is read in the list.
LEMMA ReadShows ==
    ASSUME NEW bid \in Boards, NEW list \in Seq(Mark), Falling(list),
           list = IF brc_currbid # Nobid /\ bid = brc_currbid THEN brc_list
                  ELSE ListOf(brc_buf, bid),
           brc_expire_time \in Nat,
           NEW s \in Nat \X (Nat \cup {-1}), ReadIn(list, brc_expire_time, s)
    PROVE  brc_unread_time(bid, s[1], s[2]) = 0
<1> DEFINE i == FirstUpTo(list, s[1])
<1>0. /\ Len(list) \in Nat
      /\ \A j \in 1..Len(list) : list[j].create \in Nat /\ list[j].modified \in Nat \cup {-1}
  BY MarksIn
<1>1. s[1] \in Nat /\ s[2] \in Nat \cup {-1} /\ s[2] \in Int /\ s[1] \in Int
  OBVIOUS
<1>2. /\ i \in 0..Len(list)
      /\ i = 0 => \A j \in 1..Len(list) : list[j].create > s[1]
      /\ i # 0 => list[i].create <= s[1] /\ \A j \in 1..(i - 1) : list[j].create > s[1]
  <2>1. \A t \in Int : LET k == FirstUpTo(list, t) IN
           /\ k \in 0..Len(list)
           /\ k = 0 => \A j \in 1..Len(list) : list[j].create > t
           /\ k # 0 => list[k].create <= t /\ \A j \in 1..(k - 1) : list[j].create > t
    BY FirstUpToIs
  <2> QED
    BY <1>1, <2>1
<1> HIDE DEF i
<1>3. brc_unread_time(bid, s[1], s[2]) =
        IF s[1] <= brc_expire_time THEN 0
        ELSE IF list = <<>> THEN 1
        ELSE IF i = 0 THEN 0
        ELSE IF list[i].create < s[1] THEN 1
        ELSE IF s[2] \in {0, -1} \/ list[i].modified \in {0, -1} THEN 0
        ELSE IF s[2] > list[i].modified THEN 2 ELSE 0
  BY DEF brc_unread_time, i
<1>4. CASE s[1] <= brc_expire_time
  BY <1>3, <1>4
<1>5. CASE ~ (s[1] <= brc_expire_time) /\ i = 0
  BY <1>3, <1>5 DEF ReadIn
<1>6. CASE ~ (s[1] <= brc_expire_time) /\ i # 0
  <2>1. i \in 1..Len(list) /\ list[i].create <= s[1]
    BY <1>0, <1>2, <1>6
  <2>2. PICK j \in 1..Len(list) :
            list[j].create = s[1] /\ Covered(list[j].modified, s[2])
    BY <1>0, <1>1, <1>6, <2>1 DEF ReadIn
  <2>3. j = i
    <3>1. ~ (j < i)
      <4> SUFFICES ASSUME j < i PROVE FALSE
        OBVIOUS
      <4>1. j \in 1..(i - 1)
        BY <1>0, <2>1
      <4> QED
        BY <1>0, <1>1, <1>2, <1>6, <2>2, <4>1
    <3>2. ~ (i < j)
      <4> SUFFICES ASSUME i < j PROVE FALSE
        OBVIOUS
      <4>1. list[i].create > list[j].create
        BY <2>1 DEF Falling
      <4> QED
        BY <1>0, <1>1, <2>1, <2>2, <4>1
    <3>3. i \in Nat /\ j \in Nat
      BY <1>0, <2>1
    <3> QED
      BY <3>1, <3>2, <3>3
  <2>4. list[i].create = s[1] /\ (s[2] <= 0 \/ s[2] <= list[i].modified)
    BY <2>2, <2>3 DEF Covered
  <2>5. list # <<>> /\ ~ (list[i].create < s[1])
    BY <1>1, <1>6, <2>4 DEF ReadIn
  <2>6. s[2] \in {0, -1} \/ ~ (s[2] > list[i].modified)
    <3>1. \A m \in Nat \cup {-1}, k \in Nat \cup {-1} :
            m <= 0 \/ m <= k => m \in {0, -1} \/ ~ (m > k)
      OBVIOUS
    <3>2. list[i].modified \in Nat \cup {-1}
      BY <1>0, <2>1
    <3>3. s[2] \in Nat \cup {-1}
      BY <1>1
    <3> HIDE DEF i
    <3> QED
      BY <2>4, <3>1, <3>2, <3>3
  <2> QED
    BY <1>3, <1>6, <2>5, <2>6
<1> QED
  BY <1>4, <1>5, <1>6

\* A list whose marks are all older shows an article as unread.
LEMMA NewerShows ==
    ASSUME NEW bid \in Boards, NEW list \in Seq(Mark),
           list = IF brc_currbid # Nobid /\ bid = brc_currbid THEN brc_list
                  ELSE ListOf(brc_buf, bid),
           brc_expire_time \in Nat, NEW n \in Nat, UpTo(list, n),
           NEW t \in Nat, t > n, t > brc_expire_time
    PROVE  brc_unread_time(bid, t, 0) = 1
<1> DEFINE i == FirstUpTo(list, t)
<1>0. Len(list) \in Nat /\ \A j \in 1..Len(list) : list[j].create \in Nat
  BY MarksIn
<1>1. /\ i \in 0..Len(list)
      /\ i = 0 => \A j \in 1..Len(list) : list[j].create > t
  <2>1. \A u \in Int : LET k == FirstUpTo(list, u) IN
           /\ k \in 0..Len(list)
           /\ k = 0 => \A j \in 1..Len(list) : list[j].create > u
    BY FirstUpToIs
  <2>2. t \in Int
    OBVIOUS
  <2> QED
    BY <2>1, <2>2
<1> HIDE DEF i
<1>2. brc_unread_time(bid, t, 0) =
        IF t <= brc_expire_time THEN 0
        ELSE IF list = <<>> THEN 1
        ELSE IF i = 0 THEN 0
        ELSE IF list[i].create < t THEN 1
        ELSE IF 0 \in {0, -1} \/ list[i].modified \in {0, -1} THEN 0
        ELSE IF 0 > list[i].modified THEN 2 ELSE 0
  BY DEF brc_unread_time, i
<1>3. ~ (t <= brc_expire_time)
  OBVIOUS
<1>4. CASE list = <<>>
  BY <1>2, <1>3, <1>4
<1>5. CASE list # <<>>
  <2>1. 1 \in 1..Len(list)
    BY <1>0, <1>5, EmptySeq
  <2>2. \A j \in 1..Len(list) : list[j].create < t
    BY <1>0 DEF UpTo
  <2>3. i # 0
    BY <1>0, <1>1, <2>1, <2>2
  <2>4. list[i].create < t
    BY <1>0, <1>1, <2>2, <2>3
  <2> QED
    BY <1>2, <1>3, <1>5, <2>3, <2>4
<1> QED
  BY <1>4, <1>5

-----------------------------------------------------------------------------
(* brc_addlist                                                             *)

\* The time of modification that takes part in the comparison.
Known(k) == IF k = -1 THEN 0 ELSE k

LEMMA MarkIs ==
    ASSUME NEW t \in Nat, NEW m \in Nat \cup {-1}
    PROVE  Rec(t, m) \in Mark /\ Rec(t, m).create = t /\ Rec(t, m).modified = m
BY DEF Rec, Mark

\* The three things that can happen to a list with marks.
Outcome(list, t, m, i) ==
    \/ AddTo(list, t, m) = <<list, FALSE>> /\ (i = 0 \/ (list[i].create = t /\ m = -1))
    \/ /\ i # 0 /\ list[i].create = t /\ m # -1
       /\ AddTo(list, t, m) =
            << [list EXCEPT ![i].modified = IF m > Known(list[i].modified)
                                            THEN m ELSE Known(list[i].modified)],
               m > Known(list[i].modified) >>
    \/ /\ i # 0 /\ list[i].create # t
       /\ AddTo(list, t, m) =
            << SubSeq(InsertAt(list, i, Rec(t, m)), 1,
                      IF Len(list) < BRC_MAXNUM
                      THEN Len(InsertAt(list, i, Rec(t, m))) ELSE BRC_MAXNUM),
               TRUE >>

LEMMA AddToCases ==
    ASSUME NEW list \in Seq(Mark), list # <<>>, NEW t \in Nat, NEW m \in Nat \cup {-1}
    PROVE  Outcome(list, t, m, FirstUpTo(list, t))
<1> DEFINE i == FirstUpTo(list, t)
<1> SUFFICES Outcome(list, t, m, i)
  OBVIOUS
<1>1. CASE i = 0 \/ (list[i].create = t /\ m = -1)
  <2>1. AddTo(list, t, m) = <<list, FALSE>>
    BY <1>1 DEF AddTo
  <2> QED
    BY <1>1, <2>1 DEF Outcome
<1>2. CASE i # 0 /\ list[i].create = t /\ m # -1
  BY <1>2 DEF AddTo, Known, Outcome
<1>3. CASE i # 0 /\ list[i].create # t
  BY <1>3 DEF AddTo, Outcome
<1> QED
  BY <1>1, <1>2, <1>3

\* What brc_addlist promises, for its result L and flag f.
Added(list, t, m, L, f) ==
    /\ L \in Seq(Mark) /\ L # <<>> /\ Falling(L)
    /\ \A n \in Nat : UpTo(list, n) /\ t <= n => UpTo(L, n)
    /\ \A e \in Nat :
        /\ ReadIn(L, e, <<t, m>>)
        /\ \A s \in Nat \X (Nat \cup {-1}) :
            /\ ReadIn(list, e, s) => ReadIn(L, e, s)
            /\ ~ f /\ ReadIn(L, e, s) => ReadIn(list, e, s)

\* Only the modified of one mark changes, from k to Known(k) or more.
LEMMA Remarked ==
    ASSUME NEW list \in Seq(Mark), list # <<>>, Falling(list),
           NEW t \in Nat, NEW m \in Nat \cup {-1}, m # -1,
           NEW i \in 1..Len(list), list[i].create = t,
           NEW k, k = Known(list[i].modified),
           NEW L, L = [list EXCEPT ![i].modified = IF m > k THEN m ELSE k]
    PROVE  Added(list, t, m, L, m > k)
<1> DEFINE x == IF m > k THEN m ELSE k
<1>0. /\ Len(list) \in Nat
      /\ \A j \in 1..Len(list) : list[j] \in Mark /\ list[j].create \in Nat
            /\ list[j].modified \in Nat \cup {-1} /\ list[j].modified \in Int
  BY MarksIn
<1>1. m \in Nat /\ k \in Nat /\ x \in Nat /\ m <= x /\ k <= x
  <2>1. list[i].modified \in Nat \cup {-1}
    BY <1>0
  <2>2. k \in Nat
    BY <2>1 DEF Known
  <2> QED
    BY <2>2
<1>2. list[i].modified <= x /\ (x = k /\ list[i].modified # k => x = 0)
  <2>1. list[i].modified \in Nat \cup {-1}
    BY <1>0
  <2>2. k = list[i].modified \/ (list[i].modified = -1 /\ k = 0)
    BY <2>1 DEF Known
  <2> QED
    BY <1>1, <2>2
<1> HIDE DEF x
<1>3. L = [list EXCEPT ![i] = [list[i] EXCEPT !.modified = x]]
  BY DEF x
<1>4. [list[i] EXCEPT !.modified = x] \in Mark
      /\ [list[i] EXCEPT !.modified = x].create = list[i].create
      /\ [list[i] EXCEPT !.modified = x].modified = x
  BY <1>0, <1>1 DEF Mark
<1>5. L \in Seq(Mark) /\ Len(L) = Len(list)
      /\ \A j \in 1..Len(list) : L[j] = IF j = i THEN [list[i] EXCEPT !.modified = x] ELSE list[j]
  <2> DEFINE r == [list[i] EXCEPT !.modified = x]
  <2>0. r \in Mark /\ L = [list EXCEPT ![i] = r]
    BY <1>3, <1>4
  <2> HIDE DEF r
  <2>1. /\ [list EXCEPT ![i] = r] \in Seq(Mark)
        /\ Len([list EXCEPT ![i] = r]) = Len(list)
        /\ \A j \in 1..Len(list) : [list EXCEPT ![i] = r][j] = IF j = i THEN r ELSE list[j]
    BY <2>0, ExceptSeq
  <2>2. L \in Seq(Mark) /\ Len(L) = Len(list)
        /\ \A j \in 1..Len(list) : L[j] = IF j = i THEN r ELSE list[j]
    BY <2>0, <2>1
  <2> QED
    BY <2>2 DEF r
<1>6. /\ \A j \in 1..Len(list) : L[j].create = list[j].create
      /\ L[i].modified = x
      /\ \A j \in 1..Len(list) : j # i => L[j].modified = list[j].modified
  BY <1>4, <1>5
<1>7. L # <<>> /\ Len(list) # 0
  BY <1>0, <1>5, EmptySeq
<1>8. Falling(L)
  BY <1>5, <1>6 DEF Falling
<1>9. \A n \in Nat : UpTo(list, n) => UpTo(L, n)
  BY <1>5, <1>6 DEF UpTo
<1>10. ASSUME NEW e \in Nat PROVE ReadIn(L, e, <<t, m>>)
  <2>1. L[i].create = <<t, m>>[1] /\ Covered(L[i].modified, <<t, m>>[2]) /\ i \in 1..Len(L)
    BY <1>1, <1>5, <1>6 DEF Covered
  <2> QED
    BY <1>7, <2>1 DEF ReadIn
<1>11. ASSUME NEW e \in Nat, NEW s \in Nat \X (Nat \cup {-1}), ReadIn(list, e, s)
       PROVE  ReadIn(L, e, s)
  <2>1. CASE s[1] <= e
    BY <2>1 DEF ReadIn
  <2>2. CASE \A j \in 1..Len(list) : list[j].create > s[1]
    <3>1. \A j \in 1..Len(L) : L[j].create > s[1]
      BY <1>5, <1>6, <2>2
    <3> QED
      BY <1>7, <3>1 DEF ReadIn
  <2>3. CASE \E j \in 1..Len(list) : list[j].create = s[1] /\ Covered(list[j].modified, s[2])
    <3>1. PICK j \in 1..Len(list) : list[j].create = s[1] /\ Covered(list[j].modified, s[2])
      BY <2>3
    <3>2. Covered(L[j].modified, s[2])
      <4>1. CASE j = i
        <5>1. \A a, b, c \in Int : Covered(a, c) /\ a <= b => Covered(b, c)
          BY DEF Covered
        <5>2. list[i].modified \in Int /\ x \in Int /\ s[2] \in Int
          BY <1>0, <1>1
        <5> QED
          BY <1>2, <1>6, <3>1, <4>1, <5>1, <5>2
      <4>2. CASE j # i
        BY <1>6, <3>1, <4>2
      <4> QED
        BY <4>1, <4>2
    <3>3. L[j].create = s[1] /\ j \in 1..Len(L)
      BY <1>5, <1>6, <3>1
    <3> QED
      BY <1>7, <3>2, <3>3 DEF ReadIn
  <2> QED
    BY <1>11, <2>1, <2>2, <2>3 DEF ReadIn
<1>12. ASSUME ~ (m > k), NEW e \in Nat, NEW s \in Nat \X (Nat \cup {-1}), ReadIn(L, e, s)
       PROVE  ReadIn(list, e, s)
  <2>0. x = k
    BY <1>12 DEF x
  <2>1. CASE s[1] <= e
    BY <2>1 DEF ReadIn
  <2>2. CASE \A j \in 1..Len(L) : L[j].create > s[1]
    <3>1. \A j \in 1..Len(list) : list[j].create > s[1]
      BY <1>5, <1>6, <2>2
    <3> QED
      BY <3>1 DEF ReadIn
  <2>3. CASE \E j \in 1..Len(L) : L[j].create = s[1] /\ Covered(L[j].modified, s[2])
    <3>1. PICK j \in 1..Len(L) : L[j].create = s[1] /\ Covered(L[j].modified, s[2])
      BY <2>3
    <3>2. Covered(list[j].modified, s[2])
      <4>1. CASE j = i
        <5>1. Covered(x, s[2])
          BY <1>6, <3>1, <4>1
        <5>2. x = list[i].modified \/ x = 0
          BY <1>2, <2>0
        <5>3. \A c \in Int, a \in Int : Covered(0, c) => Covered(a, c)
          BY DEF Covered
        <5>4. list[i].modified \in Int /\ s[2] \in Int
          BY <1>0
        <5> QED
          BY <4>1, <5>1, <5>2, <5>3, <5>4
      <4>2. CASE j # i
        BY <1>5, <1>6, <3>1, <4>2
      <4> QED
        BY <4>1, <4>2
    <3>3. list[j].create = s[1] /\ j \in 1..Len(list)
      BY <1>5, <1>6, <3>1
    <3> QED
      BY <3>2, <3>3 DEF ReadIn
  <2> QED
    BY <1>12, <2>1, <2>2, <2>3 DEF ReadIn
<1> QED
  BY <1>5, <1>7, <1>8, <1>9, <1>10, <1>11, <1>12 DEF Added

\* A new mark goes before the first that is older; the last one may fall off.
LEMMA Inserted ==
    ASSUME NEW list \in Seq(Mark), list # <<>>, Falling(list),
           NEW t \in Nat, NEW m \in Nat \cup {-1},
           NEW i \in 1..Len(list), list[i].create < t,
           \A j \in 1..(i - 1) : list[j].create > t,
           NEW n, n = IF Len(list) < BRC_MAXNUM
                      THEN Len(InsertAt(list, i, Rec(t, m))) ELSE BRC_MAXNUM,
           NEW L, L = SubSeq(InsertAt(list, i, Rec(t, m)), 1, n)
    PROVE  Added(list, t, m, L, TRUE)
<1> DEFINE A == InsertAt(list, i, Rec(t, m))
<1>0. /\ Len(list) \in Nat
      /\ \A j \in 1..Len(list) : list[j].create \in Nat /\ list[j].modified \in Nat \cup {-1}
  BY MarksIn
<1>1. /\ BRC_MAXNUM \in Nat /\ Len(list) <= BRC_MAXNUM
      /\ \A j, k \in 1..Len(list) : j < k => list[j].create > list[k].create
  BY ReadMarksAssumption DEF Falling
<1>2. Rec(t, m) \in Mark /\ Rec(t, m).create = t /\ Rec(t, m).modified = m
  BY MarkIs
<1>3. /\ A \in Seq(Mark) /\ Len(A) = Len(list) + 1
      /\ \A j \in 1..(Len(list) + 1) : A[j] =
            IF j < i THEN list[j] ELSE IF j = i THEN Rec(t, m) ELSE list[j - 1]
  BY <1>2, PlacedAt
<1>4. n = IF Len(list) < BRC_MAXNUM THEN Len(A) ELSE BRC_MAXNUM
  OBVIOUS
<1>5. L = SubSeq(A, 1, n)
  OBVIOUS
<1> HIDE DEF A
<1>6. n \in 0..Len(A) /\ n >= Len(list) /\ n <= Len(list) + 1 /\ n <= BRC_MAXNUM
  BY <1>0, <1>1, <1>3, <1>4
<1>7. L \in Seq(Mark) /\ Len(L) = n /\ \A j \in 1..n : L[j] = A[j]
  BY <1>3, <1>5, <1>6, PrefixOf
<1>8. i \in 1..n /\ n \in Nat
  BY <1>0, <1>6
<1>9. /\ \A j \in 1..n : j < i => L[j] = list[j] /\ j \in 1..Len(list)
      /\ L[i] = Rec(t, m)
      /\ \A j \in 1..n : j > i => L[j] = list[j - 1] /\ j - 1 \in 1..Len(list)
  <2>1. \A j \in 1..n : j \in 1..(Len(list) + 1)
    BY <1>0, <1>6, <1>8
  <2>2. ASSUME NEW j \in 1..n, j < i PROVE L[j] = list[j] /\ j \in 1..Len(list)
    BY <1>0, <1>3, <1>7, <2>1, <2>2
  <2>3. L[i] = Rec(t, m)
    <3>1. L[i] = A[i]
      BY <1>7, <1>8
    <3>2. i \in 1..(Len(list) + 1) /\ ~ (i < i)
      BY <1>0
    <3> QED
      BY <1>3, <3>1, <3>2
  <2>4. ASSUME NEW j \in 1..n, j > i PROVE L[j] = list[j - 1] /\ j - 1 \in 1..Len(list)
    <3>1. ~ (j < i) /\ j # i /\ j \in 1..(Len(list) + 1)
      BY <1>0, <2>1, <2>4
    <3>2. L[j] = list[j - 1]
      BY <1>3, <1>7, <3>1
    <3>3. j - 1 \in 1..Len(list)
      BY <1>0, <2>4, <3>1
    <3> QED
      BY <3>2, <3>3
  <2> QED
    BY <2>2, <2>3, <2>4
<1>10. L # <<>>
  <2>1. Len(L) # 0
    BY <1>7, <1>8
  <2> QED
    BY <2>1, EmptySeq
<1>11. \A j \in 1..Len(list) : (j < i => list[j].create > t) /\ (j >= i => list[j].create < t)
  <2> TAKE j \in 1..Len(list)
  <2>1. j < i => list[j].create > t
    BY <1>0
  <2>2. j >= i => list[j].create <= list[i].create
    <3>1. CASE j = i
      BY <1>0, <3>1
    <3>2. CASE j > i
      <4>1. list[i].create > list[j].create
        BY <1>1, <3>2
      <4> QED
        BY <1>0, <4>1
    <3> QED
      BY <1>0, <3>1, <3>2
  <2>3. list[i].create \in Nat /\ list[j].create \in Nat
    BY <1>0
  <2> QED
    BY <2>1, <2>2, <2>3
<1>12. Falling(L)
  <2>1. ASSUME NEW j \in 1..n, NEW k \in 1..n, j < k PROVE L[j].create > L[k].create
    <3>1. CASE k < i
      <4>1. j < i /\ L[j] = list[j] /\ L[k] = list[k] /\ j \in 1..Len(list) /\ k \in 1..Len(list)
        BY <1>8, <1>9, <2>1, <3>1
      <4> QED
        BY <1>1, <2>1, <4>1
    <3>2. CASE k = i
      <4>1. L[j] = list[j] /\ j \in 1..Len(list) /\ L[k].create = t /\ list[j].create > t
        BY <1>2, <1>9, <1>11, <2>1, <3>2
      <4> QED
        BY <4>1
    <3>3. CASE k > i
      <4>1. L[k] = list[k - 1] /\ k - 1 \in 1..Len(list)
        BY <1>9, <3>3
      <4>2. CASE j < i
        <5>1. L[j] = list[j] /\ j \in 1..Len(list) /\ j < k - 1
          BY <1>8, <1>9, <3>3, <4>2
        <5>2. list[j].create > list[k - 1].create
          BY <1>1, <4>1, <5>1
        <5> QED
          BY <4>1, <5>1, <5>2
      <4>3. CASE j = i
        <5>1. L[j].create = t /\ k - 1 >= i
          BY <1>2, <1>8, <1>9, <3>3, <4>3
        <5>2. list[k - 1].create < t
          BY <1>11, <4>1, <5>1
        <5>3. list[k - 1].create \in Nat
          BY <1>0, <4>1
        <5> QED
          BY <4>1, <5>1, <5>2, <5>3
      <4>4. CASE j > i
        <5>1. L[j] = list[j - 1] /\ j - 1 \in 1..Len(list) /\ j - 1 < k - 1
          BY <1>8, <1>9, <2>1, <4>4
        <5>2. list[j - 1].create > list[k - 1].create
          BY <1>1, <4>1, <5>1
        <5> QED
          BY <4>1, <5>1, <5>2
      <4>5. j < i \/ j = i \/ j > i
        BY <1>8
      <4> QED
        BY <4>2, <4>3, <4>4, <4>5
    <3>4. k < i \/ k = i \/ k > i
      BY <1>8
    <3> QED
      BY <3>1, <3>2, <3>3, <3>4
  <2> QED
    BY <1>6, <1>7, <2>1 DEF Falling
<1>13. ASSUME NEW x \in Nat, UpTo(list, x), t <= x PROVE UpTo(L, x)
  <2>1. ASSUME NEW j \in 1..n PROVE L[j].create <= x
    <3>1. CASE j < i
      BY <1>9, <1>13, <2>1, <3>1 DEF UpTo
    <3>2. CASE j = i
      BY <1>2, <1>9, <1>13, <3>2
    <3>3. CASE j > i
      BY <1>9, <1>13, <2>1, <3>3 DEF UpTo
    <3>4. j < i \/ j = i \/ j > i
      BY <1>8
    <3> QED
      BY <3>1, <3>2, <3>3, <3>4
  <2> QED
    BY <1>7, <2>1 DEF UpTo
<1>14. ASSUME NEW e \in Nat PROVE ReadIn(L, e, <<t, m>>)
  <2>1. i \in 1..Len(L) /\ L[i].create = t /\ L[i].modified = m
    BY <1>2, <1>7, <1>8, <1>9
  <2>2. Covered(m, m)
    BY DEF Covered
  <2>3. \E j \in 1..Len(L) : L[j].create = <<t, m>>[1] /\ Covered(L[j].modified, <<t, m>>[2])
    BY <2>1, <2>2
  <2> QED
    BY <1>10, <2>3 DEF ReadIn
<1>15. ASSUME NEW e \in Nat, NEW s \in Nat \X (Nat \cup {-1}), ReadIn(list, e, s)
       PROVE  ReadIn(L, e, s)
  <2>0. s[1] \in Nat
    OBVIOUS
  <2>1. CASE s[1] <= e
    BY <2>1 DEF ReadIn
  <2>2. CASE \A j \in 1..Len(list) : list[j].create > s[1]
    <3>1. t > s[1]
      BY <1>0, <2>0, <2>2
    <3>2. ASSUME NEW j \in 1..n PROVE L[j].create > s[1]
      <4>1. CASE j < i
        BY <1>9, <2>2, <3>2, <4>1
      <4>2. CASE j = i
        BY <1>2, <1>9, <3>1, <4>2
      <4>3. CASE j > i
        BY <1>9, <2>2, <3>2, <4>3
      <4>4. j < i \/ j = i \/ j > i
        BY <1>8
      <4> QED
        BY <4>1, <4>2, <4>3, <4>4
    <3>3. \A j \in 1..Len(L) : L[j].create > s[1]
      BY <1>7, <3>2
    <3> QED
      BY <1>10, <3>3 DEF ReadIn
  <2>3. CASE \E j \in 1..Len(list) : list[j].create = s[1] /\ Covered(list[j].modified, s[2])
    <3>1. PICK j \in 1..Len(list) : list[j].create = s[1] /\ Covered(list[j].modified, s[2])
      BY <2>3
    <3>2. CASE j < i
      <4>1. j \in 1..n /\ j \in 1..Len(L)
        BY <1>7, <1>8, <3>2
      <4>2. L[j] = list[j]
        BY <1>9, <3>2, <4>1
      <4> QED
        BY <1>10, <3>1, <4>1, <4>2 DEF ReadIn
    <3>3. CASE j >= i /\ j + 1 <= n
      <4>1. j + 1 \in 1..n /\ j + 1 \in 1..Len(L) /\ j + 1 > i /\ (j + 1) - 1 = j
        BY <1>0, <1>7, <1>8, <3>3
      <4>2. L[j + 1] = list[j]
        BY <1>9, <4>1
      <4>3. \E k \in 1..Len(L) : L[k].create = s[1] /\ Covered(L[k].modified, s[2])
        BY <3>1, <4>1, <4>2
      <4> QED
        BY <1>10, <4>3 DEF ReadIn
    <3>4. CASE j >= i /\ j + 1 > n
      <4>1. j = Len(list) /\ n = Len(list)
        BY <1>0, <1>6, <1>8, <3>4
      <4>2. ASSUME NEW k \in 1..n PROVE L[k].create > s[1]
        <5>1. CASE k < i
          <6>1. L[k] = list[k] /\ k \in 1..Len(list) /\ k < j
            BY <1>8, <1>9, <3>4, <5>1
          <6> QED
            BY <1>1, <3>1, <6>1
        <5>2. CASE k = i
          <6>1. list[j].create < t /\ L[k].create = t
            BY <1>2, <1>9, <1>11, <3>4, <5>2
          <6> QED
            BY <2>0, <3>1, <6>1
        <5>3. CASE k > i
          <6>1. L[k] = list[k - 1] /\ k - 1 \in 1..Len(list) /\ k - 1 < j
            BY <1>8, <1>9, <4>1, <5>3
          <6> QED
            BY <1>1, <3>1, <6>1
        <5>4. k < i \/ k = i \/ k > i
          BY <1>8
        <5> QED
          BY <5>1, <5>2, <5>3, <5>4
      <4>3. \A k \in 1..Len(L) : L[k].create > s[1]
        BY <1>7, <4>2
      <4> QED
        BY <1>10, <4>3 DEF ReadIn
    <3>5. j < i \/ (j >= i /\ j + 1 <= n) \/ (j >= i /\ j + 1 > n)
      BY <1>0, <1>8
    <3> QED
      BY <3>2, <3>3, <3>4, <3>5
  <2> QED
    BY <1>15, <2>1, <2>2, <2>3 DEF ReadIn
<1> QED
  BY <1>7, <1>10, <1>12, <1>13, <1>14, <1>15 DEF Added

LEMMA AddToIs ==
    ASSUME NEW list \in Seq(Mark), list # <<>>, Falling(list),
           NEW t \in Nat, NEW m \in Nat \cup {-1}
    PROVE  /\ Added(list, t, m, AddTo(list, t, m)[1], AddTo(list, t, m)[2])
           /\ AddTo(list, t, m)[2] \in BOOLEAN
<1> DEFINE i == FirstUpTo(list, t)
<1>0. /\ Len(list) \in Nat
      /\ \A j \in 1..Len(list) : list[j].create \in Nat /\ list[j].modified \in Nat \cup {-1}
  BY MarksIn
<1>1. /\ i \in 0..Len(list)
      /\ i = 0 => \A j \in 1..Len(list) : list[j].create > t
      /\ i # 0 => list[i].create <= t /\ \A j \in 1..(i - 1) : list[j].create > t
  BY FirstUpToIs
<1>6. Outcome(list, t, m, i)
  BY AddToCases
<1> HIDE DEF i
<1>2. CASE AddTo(list, t, m) = <<list, FALSE>> /\ (i = 0 \/ (list[i].create = t /\ m = -1))
  <2>1. AddTo(list, t, m)[1] = list /\ AddTo(list, t, m)[2] = FALSE
    BY <1>2
  <2>2. ASSUME NEW e \in Nat PROVE ReadIn(list, e, <<t, m>>)
    <3>1. CASE i = 0
      <4>1. \A j \in 1..Len(list) : list[j].create > <<t, m>>[1]
        BY <1>1, <3>1
      <4> QED
        BY <4>1 DEF ReadIn
    <3>2. CASE i # 0 /\ list[i].create = t /\ m = -1
      <4>1. i \in 1..Len(list) /\ Covered(list[i].modified, m)
        BY <1>0, <1>1, <3>2 DEF Covered
      <4>2. \E j \in 1..Len(list) : list[j].create = <<t, m>>[1]
                                    /\ Covered(list[j].modified, <<t, m>>[2])
        BY <3>2, <4>1
      <4> QED
        BY <4>2 DEF ReadIn
    <3> QED
      BY <1>2, <3>1, <3>2
  <2> QED
    BY <2>1, <2>2 DEF Added
<1>3. ASSUME i # 0, list[i].create = t, m # -1,
             AddTo(list, t, m) =
                << [list EXCEPT ![i].modified = IF m > Known(list[i].modified)
                                                THEN m ELSE Known(list[i].modified)],
                   m > Known(list[i].modified) >>
      PROVE  /\ Added(list, t, m, AddTo(list, t, m)[1], AddTo(list, t, m)[2])
             /\ AddTo(list, t, m)[2] \in BOOLEAN
  <2> DEFINE k == Known(list[i].modified)
             L == [list EXCEPT ![i].modified = IF m > k THEN m ELSE k]
  <2>1. AddTo(list, t, m)[1] = L /\ AddTo(list, t, m)[2] = (m > k)
    BY <1>3
  <2>2. i \in 1..Len(list)
    BY <1>0, <1>1, <1>3
  <2>3. Added(list, t, m, L, m > k)
    BY <1>3, <2>2, Remarked
  <2> HIDE DEF L, k
  <2> QED
    BY <2>1, <2>3
<1>4. ASSUME i # 0, list[i].create # t,
             NEW n, n = IF Len(list) < BRC_MAXNUM
                        THEN Len(InsertAt(list, i, Rec(t, m))) ELSE BRC_MAXNUM,
             NEW L, L = SubSeq(InsertAt(list, i, Rec(t, m)), 1, n),
             AddTo(list, t, m) = <<L, TRUE>>
      PROVE  /\ Added(list, t, m, AddTo(list, t, m)[1], AddTo(list, t, m)[2])
             /\ AddTo(list, t, m)[2] \in BOOLEAN
  <2>0. \A x : x = <<L, TRUE>> => x[1] = L /\ x[2] = TRUE
    OBVIOUS
  <2>1. AddTo(list, t, m)[1] = L /\ AddTo(list, t, m)[2] = TRUE
    BY <1>4, <2>0, Zenon
  <2>2. i \in 1..Len(list)
    BY <1>0, <1>1, <1>4
  <2>3. list[i].create < t /\ \A j \in 1..(i - 1) : list[j].create > t
    BY <1>0, <1>1, <1>4, <2>2
  <2>4. Added(list, t, m, L, TRUE)
    BY <1>4, <2>2, <2>3, Inserted
  <2> QED
    BY <2>1, <2>4
<1> QED
  BY <1>2, <1>3, <1>4, <1>6 DEF Outcome

-----------------------------------------------------------------------------
(* The size of the buffer                                                  *)

LEMMA RecsIn ==
    ASSUME NEW recs \in Seq(BoardRec)
    PROVE  /\ Len(recs) \in Nat /\ DOMAIN recs = 1..Len(recs)
           /\ \A i \in 1..Len(recs) :
                /\ recs[i] \in BoardRec /\ recs[i].bid \in Boards
                /\ recs[i].list \in Seq(Mark) /\ Len(recs[i].list) \in Nat
                /\ DOMAIN recs[i].list = 1..Len(recs[i].list)
<1>1. Len(recs) \in Nat /\ DOMAIN recs = 1..Len(recs)
  BY LenProperties
<1>2. \A i \in 1..Len(recs) : recs[i] \in BoardRec
  BY ElementOfSeq
<1>3. \A r \in BoardRec : r.bid \in Boards /\ r.list \in Seq(Mark)
  BY DEF BoardRec
<1>4. \A l \in Seq(Mark) : Len(l) \in Nat /\ DOMAIN l = 1..Len(l)
  BY LenProperties
<1> QED
  BY <1>1, <1>2, <1>3, <1>4

LEMMA PlacesAre ==
    ASSUME NEW recs \in Seq(BoardRec), NEW p
    PROVE  p \in Places(recs) <=>
              \E i \in 1..Len(recs) : \E j \in 1..Len(recs[i].list) : p = <<i, j>>
<1>1. DOMAIN recs = 1..Len(recs)
      /\ \A i \in 1..Len(recs) : DOMAIN recs[i].list = 1..Len(recs[i].list)
  BY RecsIn
<1>2. p \in Places(recs) <=>
        \E i \in DOMAIN recs : p \in {i} \X DOMAIN recs[i].list
  BY DEF Places
<1>3. ASSUME NEW i \in 1..Len(recs)
      PROVE  p \in {i} \X DOMAIN recs[i].list <=>
                \E j \in 1..Len(recs[i].list) : p = <<i, j>>
  BY <1>1
<1> QED
  BY <1>1, <1>2, <1>3

LEMMA BytesAre ==
    ASSUME NEW recs \in Seq(BoardRec), KeptRecs(recs)
    PROVE  /\ IsFiniteSet(Places(recs)) /\ Cardinality(Places(recs)) \in Nat
           /\ BytesOf(recs) = 6 * Len(recs) + 8 * Cardinality(Places(recs))
           /\ BytesOf(recs) \in Nat
<1> DEFINE N == 1..Len(recs)
           M == 1..BRC_MAXNUM
<1>0. Len(recs) \in Nat
  BY RecsIn
<1>1. Places(recs) \subseteq N \X M
  <2> SUFFICES ASSUME NEW p \in Places(recs) PROVE p \in N \X M
    OBVIOUS
  <2>0. PICK i \in 1..Len(recs) : \E j \in 1..Len(recs[i].list) : p = <<i, j>>
    BY PlacesAre
  <2>1. PICK j \in 1..Len(recs[i].list) : p = <<i, j>>
    BY <2>0
  <2>2. Len(recs[i].list) <= BRC_MAXNUM /\ Len(recs[i].list) \in Nat
    BY RecsIn DEF KeptRecs, Falling
  <2>3. j \in M
    BY <2>2, ReadMarksAssumption
  <2> QED
    BY <2>1, <2>3
<1>2. IsFiniteSet(N) /\ IsFiniteSet(M)
  BY <1>0, FS_Interval, ReadMarksAssumption
<1>3. IsFiniteSet(N \X M)
  <2> HIDE DEF N, M
  <2> QED
    BY <1>2, FS_Product
<1>4. IsFiniteSet(Places(recs))
  <2> HIDE DEF N, M
  <2> QED
    BY <1>1, <1>3, FS_Subset
<1>5. Cardinality(Places(recs)) \in Nat
  BY <1>4, FS_CardinalityType
<1> QED
  BY <1>0, <1>4, <1>5 DEF BytesOf, HeaderSize, RecSize

\* The places of one list.
LEMMA OneList ==
    ASSUME NEW n \in Nat, NEW i
    PROVE  IsFiniteSet({i} \X (1..n)) /\ Cardinality({i} \X (1..n)) = n
<1>1. IsFiniteSet({i}) /\ Cardinality({i}) = 1
  BY FS_Singleton
<1>2. IsFiniteSet(1..n) /\ Cardinality(1..n) = IF 1 > n THEN 0 ELSE n - 1 + 1
  BY FS_Interval
<1>3. Cardinality(1..n) = n
  BY <1>2
<1>4. Cardinality({i} \X (1..n)) = Cardinality({i}) * Cardinality(1..n)
      /\ IsFiniteSet({i} \X (1..n))
  BY <1>1, <1>2, FS_Product
<1> QED
  BY <1>1, <1>3, <1>4

\* Adding the places of a list adds its length at most.
LEMMA UnionBound ==
    ASSUME NEW S, IsFiniteSet(S), NEW n \in Nat, NEW i,
           NEW T, T \subseteq S \cup ({i} \X (1..n))
    PROVE  IsFiniteSet(T) /\ Cardinality(T) \in Nat
           /\ Cardinality(T) <= Cardinality(S) + n
<1> DEFINE A == {i} \X (1..n)
<1>1. IsFiniteSet(A) /\ Cardinality(A) = n
  BY OneList
<1> HIDE DEF A
<1>2. T \subseteq S \cup A
  BY DEF A
<1>3. /\ IsFiniteSet(S \cup A)
      /\ Cardinality(S \cup A) = Cardinality(S) + Cardinality(A) - Cardinality(S \cap A)
  BY <1>1, FS_Union
<1>4. IsFiniteSet(S \cap A)
  BY FS_Intersection
<1>5. IsFiniteSet(T) /\ Cardinality(T) <= Cardinality(S \cup A)
  BY <1>2, <1>3, FS_Subset
<1>6. Cardinality(S) \in Nat /\ Cardinality(S \cap A) \in Nat /\ Cardinality(T) \in Nat
      /\ Cardinality(S \cup A) \in Nat
  BY <1>3, <1>4, <1>5, FS_CardinalityType
<1> QED
  BY <1>1, <1>3, <1>5, <1>6

LEMMA Shifted ==
    ASSUME NEW S, NEW T, IsFiniteSet(T), NEW f, f \in [S -> T],
           \A a, b \in S : f[a] = f[b] => a = b
    PROVE  IsFiniteSet(S) /\ Cardinality(S) <= Cardinality(T)
<1>1. f \in Injection(S, T)
  BY DEF Injection, IsInjective
<1> QED
  BY <1>1, FS_Injection

LEMMA PutIs ==
    ASSUME NEW recs \in Seq(BoardRec), NEW new \in BoardRec
    PROVE  /\ Put(recs, new) \in Seq(BoardRec)
           /\ Len(Put(recs, new)) = Len(recs) + 1
           /\ Put(recs, new)[1] = new
           /\ \A j \in 2..(Len(recs) + 1) : Put(recs, new)[j] = recs[j - 1]
<1>0. Len(recs) \in Nat
  BY RecsIn
<1>1. <<new>> \in Seq(BoardRec) /\ Len(<<new>>) = 1 /\ <<new>>[1] = new
  OBVIOUS
<1>2. /\ <<new>> \o recs \in Seq(BoardRec)
      /\ Len(<<new>> \o recs) = Len(<<new>>) + Len(recs)
      /\ \A i \in 1..(Len(<<new>>) + Len(recs)) : (<<new>> \o recs)[i] =
            IF i <= Len(<<new>>) THEN <<new>>[i] ELSE recs[i - Len(<<new>>)]
  BY <1>1, ConcatProperties
<1>3. /\ <<new>> \o recs \in Seq(BoardRec)
      /\ Len(<<new>> \o recs) = 1 + Len(recs)
      /\ \A i \in 1..(1 + Len(recs)) : (<<new>> \o recs)[i] =
            IF i <= 1 THEN <<new>>[i] ELSE recs[i - 1]
  BY <1>1, <1>2
<1>4. 1 \in 1..(1 + Len(recs)) /\ 1 <= 1
      /\ \A j \in 2..(Len(recs) + 1) : j \in 1..(1 + Len(recs)) /\ ~ (j <= 1)
  BY <1>0
<1>5. (<<new>> \o recs)[1] = new
  BY <1>1, <1>3, <1>4
<1>6. \A j \in 2..(Len(recs) + 1) : (<<new>> \o recs)[j] = recs[j - 1]
  BY <1>3, <1>4
<1>7. 1 + Len(recs) = Len(recs) + 1
  BY <1>0
<1> QED
  BY <1>3, <1>5, <1>6, <1>7 DEF Put

LEMMA PutBytes ==
    ASSUME NEW recs \in Seq(BoardRec), KeptRecs(recs), NEW new \in BoardRec,
           Len(new.list) <= BRC_MAXNUM, KeptRecs(Put(recs, new))
    PROVE  BytesOf(Put(recs, new)) <= BytesOf(recs) + BRC_BLOCKSIZE
<1> DEFINE P == Put(recs, new)
           n == Len(new.list)
           S == Places(P) \ ({1} \X (1..n))
           f == [p \in S |-> <<p[1] - 1, p[2]>>]
<1>0. new.list \in Seq(Mark) /\ n \in Nat /\ n <= BRC_MAXNUM
  <2>1. \A r \in BoardRec : r.list \in Seq(Mark)
    BY DEF BoardRec
  <2> QED
    BY <2>1, LenProperties
<1>1. /\ P \in Seq(BoardRec) /\ Len(P) = Len(recs) + 1 /\ P[1] = new
      /\ \A j \in 2..(Len(recs) + 1) : P[j] = recs[j - 1]
  BY PutIs
<1>2. /\ IsFiniteSet(Places(P)) /\ Cardinality(Places(P)) \in Nat
      /\ BytesOf(P) = 6 * Len(P) + 8 * Cardinality(Places(P))
  BY <1>1, BytesAre
<1>3. /\ IsFiniteSet(Places(recs)) /\ Cardinality(Places(recs)) \in Nat
      /\ BytesOf(recs) = 6 * Len(recs) + 8 * Cardinality(Places(recs))
  BY BytesAre
<1>4. Len(recs) \in Nat
  BY RecsIn
<1> HIDE DEF P
<1>5. ASSUME NEW p \in S
      PROVE  \E i \in 2..Len(P) : \E j \in 1..Len(recs[i - 1].list) :
                p = <<i, j>> /\ <<i - 1, j>> \in Places(recs)
  <2>0. PICK i \in 1..Len(P) : \E j \in 1..Len(P[i].list) : p = <<i, j>>
    BY <1>1, PlacesAre
  <2>1. PICK j \in 1..Len(P[i].list) : p = <<i, j>>
    BY <2>0
  <2>2. i # 1
    BY <1>1, <2>1
  <2>3. i \in 2..Len(P) /\ i - 1 \in 1..Len(recs) /\ i \in 2..(Len(recs) + 1)
    BY <1>1, <1>4, <2>2
  <2>4. j \in 1..Len(recs[i - 1].list)
    BY <1>1, <2>3
  <2>5. <<i - 1, j>> \in Places(recs)
    BY <2>3, <2>4, PlacesAre
  <2> QED
    BY <2>1, <2>3, <2>4, <2>5
<1>6. f \in [S -> Places(recs)]
  <2>1. ASSUME NEW p \in S PROVE <<p[1] - 1, p[2]>> \in Places(recs)
    <3>1. PICK i \in 2..Len(P) : \E j \in 1..Len(recs[i - 1].list) :
                p = <<i, j>> /\ <<i - 1, j>> \in Places(recs)
      BY <1>5
    <3>2. PICK j \in 1..Len(recs[i - 1].list) :
                p = <<i, j>> /\ <<i - 1, j>> \in Places(recs)
      BY <3>1
    <3>3. p[1] = i /\ p[2] = j
      BY <3>2
    <3> QED
      BY <3>2, <3>3
  <2> HIDE DEF S
  <2> QED
    BY <2>1
<1>7. ASSUME NEW a \in S, NEW b \in S, f[a] = f[b] PROVE a = b
  <2>1. PICK i \in 2..Len(P) : \E j \in 1..Len(recs[i - 1].list) : a = <<i, j>>
    BY <1>5
  <2>2. PICK j \in 1..Len(recs[i - 1].list) : a = <<i, j>>
    BY <2>1
  <2>3. PICK k \in 2..Len(P) : \E l \in 1..Len(recs[k - 1].list) : b = <<k, l>>
    BY <1>5
  <2>4. PICK l \in 1..Len(recs[k - 1].list) : b = <<k, l>>
    BY <2>3
  <2>5. f[a] = <<i - 1, j>> /\ f[b] = <<k - 1, l>>
    BY <2>2, <2>4
  <2>6. i - 1 = k - 1 /\ j = l
    BY <1>7, <2>5
  <2>7. i = k
    BY <1>1, <1>4, <2>6
  <2> QED
    BY <2>2, <2>4, <2>6, <2>7
<1>8. IsFiniteSet(S) /\ Cardinality(S) <= Cardinality(Places(recs))
  <2> HIDE DEF S, f
  <2> QED
    BY <1>3, <1>6, <1>7, Shifted
<1>9. IsFiniteSet(Places(P)) /\ Cardinality(Places(P)) <= Cardinality(S) + n
  <2>1. Places(P) \subseteq S \cup ({1} \X (1..n))
    OBVIOUS
  <2> HIDE DEF S, n
  <2> QED
    BY <1>0, <1>8, <2>1, UnionBound
<1>10. Cardinality(S) \in Nat
  BY <1>8, FS_CardinalityType
<1> HIDE DEF S, f, n
<1>11. BytesOf(P) <= BytesOf(recs) + 6 + 8 * n
  <2>1. Len(P) = Len(recs) + 1
    BY <1>1
  <2>2. Cardinality(Places(P)) <= Cardinality(Places(recs)) + n
    BY <1>0, <1>2, <1>3, <1>8, <1>9, <1>10
  <2> QED
    BY SMTT(40), <1>0, <1>2, <1>3, <1>4, <2>1, <2>2
<1>12. 6 + 8 * n <= BRC_BLOCKSIZE /\ BRC_BLOCKSIZE \in Nat
  BY <1>0, ReadMarksAssumption DEF HeaderSize, RecSize
<1>13. BytesOf(P) \in Nat /\ BytesOf(recs) \in Nat
  BY <1>1, BytesAre DEF P
<1> QED
  BY <1>0, <1>11, <1>12, <1>13 DEF P

LEMMA WithoutBytes ==
    ASSUME NEW recs \in Seq(BoardRec), KeptRecs(recs), NEW x \in 1..Len(recs),
           KeptRecs(RemoveAt(recs, x))
    PROVE  BytesOf(RemoveAt(recs, x)) <= BytesOf(recs)
<1> DEFINE P == RemoveAt(recs, x)
           S == Places(P)
           Old(i) == IF i < x THEN i ELSE i + 1
           f == [p \in S |-> <<Old(p[1]), p[2]>>]
<1>1. /\ P \in Seq(BoardRec) /\ Len(P) = Len(recs) - 1
      /\ \A j \in 1..(Len(recs) - 1) : P[j] = IF j < x THEN recs[j] ELSE recs[j + 1]
  BY Without
<1>2. /\ IsFiniteSet(Places(P)) /\ Cardinality(Places(P)) \in Nat
      /\ BytesOf(P) = 6 * Len(P) + 8 * Cardinality(Places(P))
  BY <1>1, BytesAre
<1>3. /\ IsFiniteSet(Places(recs)) /\ Cardinality(Places(recs)) \in Nat
      /\ BytesOf(recs) = 6 * Len(recs) + 8 * Cardinality(Places(recs))
  BY BytesAre
<1>4. Len(recs) \in Nat
  BY RecsIn
<1> HIDE DEF P
<1>5. ASSUME NEW p \in S
      PROVE  \E i \in 1..Len(P) : \E j \in 1..Len(recs[Old(i)].list) :
                p = <<i, j>> /\ <<Old(i), j>> \in Places(recs)
  <2>0. PICK i \in 1..Len(P) : \E j \in 1..Len(P[i].list) : p = <<i, j>>
    BY <1>1, PlacesAre
  <2>1. PICK j \in 1..Len(P[i].list) : p = <<i, j>>
    BY <2>0
  <2>3. Old(i) \in 1..Len(recs) /\ i \in 1..(Len(recs) - 1)
    BY <1>1, <1>4
  <2>4. P[i] = recs[Old(i)]
    BY <1>1, <2>3
  <2> HIDE DEF Old
  <2>5. <<Old(i), j>> \in Places(recs)
    BY <2>3, <2>4, PlacesAre
  <2> QED
    BY <2>1, <2>3, <2>4, <2>5
<1>6. f \in [S -> Places(recs)]
  <2>1. ASSUME NEW p \in S PROVE <<Old(p[1]), p[2]>> \in Places(recs)
    <3>1. PICK i \in 1..Len(P) : \E j \in 1..Len(recs[Old(i)].list) :
                p = <<i, j>> /\ <<Old(i), j>> \in Places(recs)
      BY <1>5
    <3>2. PICK j \in 1..Len(recs[Old(i)].list) :
                p = <<i, j>> /\ <<Old(i), j>> \in Places(recs)
      BY <3>1
    <3>3. p[1] = i /\ p[2] = j
      BY <3>2
    <3> QED
      BY <3>2, <3>3
  <2> HIDE DEF S, Old
  <2> QED
    BY <2>1
<1>7. ASSUME NEW a \in S, NEW b \in S, f[a] = f[b] PROVE a = b
  <2>1. PICK i \in 1..Len(P) : \E j \in 1..Len(recs[Old(i)].list) : a = <<i, j>>
    BY <1>5
  <2>2. PICK j \in 1..Len(recs[Old(i)].list) : a = <<i, j>>
    BY <2>1
  <2>3. PICK k \in 1..Len(P) : \E l \in 1..Len(recs[Old(k)].list) : b = <<k, l>>
    BY <1>5
  <2>4. PICK l \in 1..Len(recs[Old(k)].list) : b = <<k, l>>
    BY <2>3
  <2>5. f[a] = <<Old(i), j>> /\ f[b] = <<Old(k), l>>
    <3> HIDE DEF Old
    <3> QED
      BY <2>2, <2>4
  <2>6. Old(i) = Old(k) /\ j = l
    <3> HIDE DEF Old
    <3> QED
      BY <1>7, <2>5
  <2>7. i = k
    BY <1>1, <1>4, <2>6
  <2> QED
    BY <2>2, <2>4, <2>6, <2>7
<1>8. Cardinality(S) <= Cardinality(Places(recs))
  <2> HIDE DEF S, f
  <2> QED
    BY <1>3, <1>6, <1>7, Shifted
<1> QED
  BY <1>1, <1>2, <1>3, <1>4, <1>8 DEF P

LEMMA SetBytes ==
    ASSUME NEW recs \in Seq(BoardRec), KeptRecs(recs), NEW x \in 1..Len(recs),
           NEW new \in BoardRec, Len(new.list) <= BRC_MAXNUM,
           KeptRecs([recs EXCEPT ![x] = new])
    PROVE  BytesOf([recs EXCEPT ![x] = new]) <= BytesOf(recs) + BRC_BLOCKSIZE
<1> DEFINE P == [recs EXCEPT ![x] = new]
           n == Len(new.list)
<1>0. new.list \in Seq(Mark) /\ n \in Nat /\ n <= BRC_MAXNUM
  <2>1. \A r \in BoardRec : r.list \in Seq(Mark)
    BY DEF BoardRec
  <2> QED
    BY <2>1, LenProperties
<1>1. /\ P \in Seq(BoardRec) /\ Len(P) = Len(recs)
      /\ \A j \in 1..Len(recs) : P[j] = IF j = x THEN new ELSE recs[j]
  BY ExceptSeq
<1>2. /\ IsFiniteSet(Places(P)) /\ Cardinality(Places(P)) \in Nat
      /\ BytesOf(P) = 6 * Len(P) + 8 * Cardinality(Places(P)) /\ BytesOf(P) \in Nat
  BY <1>1, BytesAre
<1>3. /\ IsFiniteSet(Places(recs)) /\ Cardinality(Places(recs)) \in Nat
      /\ BytesOf(recs) = 6 * Len(recs) + 8 * Cardinality(Places(recs))
      /\ BytesOf(recs) \in Nat
  BY BytesAre
<1>4. Len(recs) \in Nat
  BY RecsIn
<1> HIDE DEF P
<1>5. Places(P) \subseteq Places(recs) \cup ({x} \X (1..n))
  <2> SUFFICES ASSUME NEW p \in Places(P), p \notin Places(recs)
               PROVE  p \in {x} \X (1..n)
    OBVIOUS
  <2>0. PICK i \in 1..Len(P) : \E j \in 1..Len(P[i].list) : p = <<i, j>>
    BY <1>1, PlacesAre
  <2>1. PICK j \in 1..Len(P[i].list) : p = <<i, j>>
    BY <2>0
  <2>2. i = x
    <3> SUFFICES ASSUME i # x PROVE FALSE
      OBVIOUS
    <3>1. i \in 1..Len(recs) /\ j \in 1..Len(recs[i].list)
      BY <1>1
    <3> QED
      BY <2>1, <3>1, PlacesAre
  <2> QED
    BY <1>1, <2>1, <2>2
<1>6. Cardinality(Places(P)) <= Cardinality(Places(recs)) + n
  <2> HIDE DEF n
  <2> QED
    BY <1>0, <1>3, <1>5, UnionBound
<1>7. 6 + 8 * n <= BRC_BLOCKSIZE /\ BRC_BLOCKSIZE \in Nat
  BY <1>0, ReadMarksAssumption DEF HeaderSize, RecSize
<1> HIDE DEF n
<1>8. BytesOf(P) <= BytesOf(recs) + 8 * n
  <2>1. Len(P) = Len(recs)
    BY <1>1
  <2> QED
    BY SMTT(40), <1>0, <1>2, <1>3, <1>4, <1>6, <2>1
<1>9. BytesOf(P) <= BytesOf(recs) + BRC_BLOCKSIZE
  <2>1. BytesOf(P) \in Nat /\ BytesOf(recs) \in Nat /\ n \in Nat
    BY <1>0, <1>2, <1>3
  <2> QED
    BY <1>7, <1>8, <2>1
<1> QED
  BY <1>9 DEF P

\* The first record alone fits into a block.
LEMMA FirstBytes ==
    ASSUME NEW recs \in Seq(BoardRec), KeptRecs(recs), Len(recs) = 1
    PROVE  BytesOf(recs) <= BRC_BLOCKSIZE
<1> DEFINE n == Len(recs[1].list)
<1>1. n \in Nat /\ n <= BRC_MAXNUM
  <2>1. 1 \in 1..Len(recs)
    OBVIOUS
  <2> QED
    BY <2>1, RecsIn DEF KeptRecs, Falling
<1>2. Places(recs) \subseteq {} \cup ({1} \X (1..n))
  <2> SUFFICES ASSUME NEW p \in Places(recs) PROVE p \in {1} \X (1..n)
    OBVIOUS
  <2>0. PICK i \in 1..Len(recs) : \E j \in 1..Len(recs[i].list) : p = <<i, j>>
    BY PlacesAre
  <2>1. PICK j \in 1..Len(recs[i].list) : p = <<i, j>>
    BY <2>0
  <2> QED
    BY <2>1
<1>3. IsFiniteSet({}) /\ Cardinality({}) = 0
  BY FS_EmptySet
<1>4. Cardinality(Places(recs)) \in Nat /\ Cardinality(Places(recs)) <= Cardinality({}) + n
  <2> HIDE DEF n
  <2> QED
    BY <1>1, <1>2, <1>3, UnionBound
<1>5. BytesOf(recs) = 6 * Len(recs) + 8 * Cardinality(Places(recs))
  BY BytesAre
<1>6. 6 + 8 * n <= BRC_BLOCKSIZE /\ BRC_BLOCKSIZE \in Nat
  BY <1>1, ReadMarksAssumption DEF HeaderSize, RecSize
<1> HIDE DEF n
<1> QED
  BY <1>1, <1>3, <1>4, <1>5, <1>6

-----------------------------------------------------------------------------
(* The lists in the buffer                                                 *)

LEMMA BufferIs ==
    ASSUME NEW buf \in Buffer
    PROVE  buf.recs \in Seq(BoardRec) /\ buf.tail \in Nat
BY DEF Buffer, BoardRec

LEMMA NoMarks == <<>> \in Seq(Mark) /\ Falling(<<>>) /\ \A n \in Nat : UpTo(<<>>, n)
<1>1. <<>> \in Seq(Mark) /\ Len(<<>>) = 0
  BY EmptySeq
<1> QED
  BY <1>1, ReadMarksAssumption DEF Falling, UpTo

LEMMA ListIs ==
    ASSUME NEW buf \in Buffer, KeptRecs(buf.recs), NEW b
    PROVE  /\ Find(buf, b) = 0 => \A i \in 1..Len(buf.recs) : buf.recs[i].bid # b
           /\ \A i \in 1..Len(buf.recs) : buf.recs[i].bid = b =>
                Find(buf, b) = i /\ Find(buf, b) # 0 /\ ListOf(buf, b) = buf.recs[i].list
           /\ Find(buf, b) # 0 => \E i \in 1..Len(buf.recs) : buf.recs[i].bid = b
           /\ ListOf(buf, b) \in Seq(Mark) /\ Falling(ListOf(buf, b))
           /\ Find(buf, b) = 0 <=> ListOf(buf, b) = <<>>
<1> DEFINE f == Find(buf, b)
<1>0. buf.recs \in Seq(BoardRec) /\ Len(buf.recs) \in Nat
  BY BufferIs, RecsIn
<1>1. /\ f \in 0..Len(buf.recs)
      /\ f # 0 => buf.recs[f].bid = b
      /\ f = 0 => \A i \in 1..Len(buf.recs) : buf.recs[i].bid # b
  BY <1>0, FindIs
<1>2. ListOf(buf, b) = IF f = 0 THEN <<>> ELSE buf.recs[f].list
  BY DEF ListOf
<1> HIDE DEF f
<1>3. f # 0 => f \in 1..Len(buf.recs)
  BY <1>0, <1>1
<1>4. \A i \in 1..Len(buf.recs) : buf.recs[i].bid = b =>
                f = i /\ f # 0 /\ ListOf(buf, b) = buf.recs[i].list
  <2> TAKE i \in 1..Len(buf.recs)
  <2> HAVE buf.recs[i].bid = b
  <2>1. f # 0
    BY <1>1
  <2>2. f \in 1..Len(buf.recs) /\ buf.recs[f].bid = buf.recs[i].bid
    BY <1>1, <1>3, <2>1
  <2>3. f = i
    BY <2>2 DEF KeptRecs
  <2> QED
    BY <1>2, <2>1, <2>3
<1>5. ListOf(buf, b) \in Seq(Mark) /\ Falling(ListOf(buf, b)) /\ (f = 0 <=> ListOf(buf, b) = <<>>)
  <2>1. CASE f = 0
    BY <1>2, <2>1, NoMarks
  <2>2. CASE f # 0
    <3>1. f \in 1..Len(buf.recs)
      BY <1>3, <2>2
    <3>2. buf.recs[f].list \in Seq(Mark)
      BY <1>0, <3>1, RecsIn
    <3>3. buf.recs[f].list # <<>> /\ Falling(buf.recs[f].list)
      BY <3>1 DEF KeptRecs
    <3> QED
      BY <1>2, <2>2, <3>2, <3>3
  <2> QED
    BY <2>1, <2>2
<1> QED
  BY <1>1, <1>3, <1>4, <1>5 DEF f

\* R are the records after bid got the list L, in any order.
Exchanged(recs, R, bid, L) ==
    /\ R \in Seq(BoardRec) /\ KeptRecs(R)
    /\ \A j \in 1..Len(R) : R[j].bid = bid => R[j].list = L
    /\ L = <<>> => \A j \in 1..Len(R) : R[j].bid # bid
    /\ L # <<>> => \E j \in 1..Len(R) : R[j].bid = bid
    /\ \A j \in 1..Len(R) : R[j].bid # bid => \E i \in 1..Len(recs) : recs[i] = R[j]
    /\ \A i \in 1..Len(recs) : recs[i].bid # bid => \E j \in 1..Len(R) : R[j] = recs[i]

\* new shows the list L for bid, and for the others what buf shows.
Lists(buf, new, bid, L) ==
    \A b : ListOf(new, b) = IF b = bid THEN L ELSE ListOf(buf, b)

LEMMA ExchangedLists ==
    ASSUME NEW buf \in Buffer, KeptRecs(buf.recs), NEW new \in Buffer, NEW bid, NEW L,
           Exchanged(buf.recs, new.recs, bid, L)
    PROVE  Lists(buf, new, bid, L)
<1> SUFFICES ASSUME NEW b
             PROVE  /\ b = bid => ListOf(new, b) = L
                    /\ b # bid => ListOf(new, b) = ListOf(buf, b)
  BY DEF Lists
<1>0. KeptRecs(new.recs)
  BY DEF Exchanged
<1>1. /\ Find(new, b) = 0 => \A i \in 1..Len(new.recs) : new.recs[i].bid # b
      /\ \A i \in 1..Len(new.recs) : new.recs[i].bid = b => ListOf(new, b) = new.recs[i].list
      /\ Find(new, b) = 0 <=> ListOf(new, b) = <<>>
      /\ Find(new, b) # 0 => \E i \in 1..Len(new.recs) : new.recs[i].bid = b
  BY <1>0, ListIs
<1>2. /\ Find(buf, b) = 0 => \A i \in 1..Len(buf.recs) : buf.recs[i].bid # b
      /\ \A i \in 1..Len(buf.recs) : buf.recs[i].bid = b => ListOf(buf, b) = buf.recs[i].list
      /\ Find(buf, b) = 0 <=> ListOf(buf, b) = <<>>
      /\ Find(buf, b) # 0 => \E i \in 1..Len(buf.recs) : buf.recs[i].bid = b
  BY ListIs
<1>3. CASE b = bid /\ L = <<>>
  <2>1. \A j \in 1..Len(new.recs) : new.recs[j].bid # b
    BY <1>3 DEF Exchanged
  <2> QED
    BY <1>1, <1>3, <2>1
<1>4. CASE b = bid /\ L # <<>>
  <2>1. PICK j \in 1..Len(new.recs) : new.recs[j].bid = b
    BY <1>4 DEF Exchanged
  <2>2. new.recs[j].list = L
    BY <1>4, <2>1 DEF Exchanged
  <2> QED
    BY <1>1, <1>4, <2>1, <2>2
<1>5. CASE b # bid /\ Find(new, b) # 0
  <2>1. PICK j \in 1..Len(new.recs) : new.recs[j].bid = b
    BY <1>1, <1>5
  <2>2. PICK i \in 1..Len(buf.recs) : buf.recs[i] = new.recs[j]
    BY <1>5, <2>1 DEF Exchanged
  <2> QED
    BY <1>1, <1>2, <1>5, <2>1, <2>2
<1>6. CASE b # bid /\ Find(new, b) = 0
  <2>1. \A i \in 1..Len(buf.recs) : buf.recs[i].bid # b
    <3> SUFFICES ASSUME NEW i \in 1..Len(buf.recs), buf.recs[i].bid = b PROVE FALSE
      OBVIOUS
    <3>1. PICK j \in 1..Len(new.recs) : new.recs[j] = buf.recs[i]
      BY <1>6 DEF Exchanged
    <3> QED
      BY <1>1, <1>6, <3>1
  <2> QED
    BY <1>1, <1>2, <1>6, <2>1
<1> QED
  BY <1>3, <1>4, <1>5, <1>6

\* What brc_insert_record makes of buf, before it looks at the size.
Renewed(buf, bid, L, new) ==
    /\ new \in Buffer
    /\ Exchanged(buf.recs, new.recs, bid, L)
    /\ Size(buf) \in Nat /\ Size(new) \in Nat
    /\ Size(new) <= Size(buf) + IF L = <<>> THEN 0 ELSE BRC_BLOCKSIZE
    /\ Find(buf, bid) = 0 /\ L # <<>> => Len(new.recs) # 0 /\ new.recs[1].bid = bid

LEMMA RenewedIs ==
    ASSUME NEW buf \in Buffer, KeptRecs(buf.recs), NEW bid, NEW L,
           NEW R, Exchanged(buf.recs, R, bid, L), NEW tail \in Nat, tail <= buf.tail,
           BytesOf(R) <= BytesOf(buf.recs) + (IF L = <<>> THEN 0 ELSE BRC_BLOCKSIZE),
           Find(buf, bid) = 0 /\ L # <<>> => Len(R) # 0 /\ R[1].bid = bid
    PROVE  Renewed(buf, bid, L, [recs |-> R, tail |-> tail])
<1> DEFINE new == [recs |-> R, tail |-> tail]
<1>1. R \in Seq(BoardRec) /\ KeptRecs(R)
  BY DEF Exchanged
<1>2. BytesOf(R) \in Nat
  BY <1>1, BytesAre
<1>3. buf.recs \in Seq(BoardRec) /\ buf.tail \in Nat
  BY BufferIs
<1>4. BytesOf(buf.recs) \in Nat
  BY <1>3, BytesAre
<1>5. new \in Buffer /\ new.recs = R /\ new.tail = tail
  BY <1>1 DEF Buffer, BoardRec
<1>6. Size(buf) = BytesOf(buf.recs) + buf.tail /\ Size(new) = BytesOf(R) + tail
  BY <1>5 DEF Size
<1> HIDE DEF new
<1>7. BRC_BLOCKSIZE \in Nat
  BY ReadMarksAssumption
<1>8. \A a, b, c, t, u \in Nat : a <= b + c /\ t <= u => a + t <= (b + u) + c
  OBVIOUS
<1>9. (IF L = <<>> THEN 0 ELSE BRC_BLOCKSIZE) \in Nat
  BY <1>7
<1>10. Size(new) <= Size(buf) + IF L = <<>> THEN 0 ELSE BRC_BLOCKSIZE
  BY <1>2, <1>3, <1>4, <1>6, <1>8, <1>9
<1>11. Size(new) \in Nat /\ Size(buf) \in Nat
  BY <1>2, <1>3, <1>4, <1>6
<1>12. Renewed(buf, bid, L, new)
  BY <1>5, <1>10, <1>11 DEF Renewed
<1> QED
  BY <1>12 DEF new

LEMMA ReplacedRecs ==
    ASSUME NEW buf \in Buffer, KeptRecs(buf.recs), NEW bid \in Boards,
           NEW L \in Seq(Mark), Falling(L)
    PROVE  Renewed(buf, bid, L, Replaced(buf, bid, L))
<1> DEFINE recs == buf.recs
           x == Find(buf, bid)
           new == [bid |-> bid, list |-> L]
<1>0. recs \in Seq(BoardRec) /\ buf.tail \in Nat /\ Len(recs) \in Nat
      /\ \A j \in 1..Len(recs) : recs[j] \in BoardRec
  BY BufferIs, RecsIn
<1>1. /\ x \in 0..Len(recs)
      /\ x # 0 => recs[x].bid = bid
      /\ x = 0 => \A i \in 1..Len(recs) : recs[i].bid # bid
  BY <1>0, FindIs
<1>2. new \in BoardRec /\ new.bid = bid /\ new.list = L
  BY DEF BoardRec
<1>3. Len(L) <= BRC_MAXNUM
  BY DEF Falling
<1>4. /\ \A j \in 1..Len(recs) : recs[j].list # <<>> /\ Falling(recs[j].list)
      /\ \A i, j \in 1..Len(recs) : recs[i].bid = recs[j].bid => i = j
  BY DEF KeptRecs
<1>5. BytesOf(recs) \in Nat /\ Size(buf) = BytesOf(recs) + buf.tail
  BY <1>0, BytesAre DEF Size
<1>6. BRC_BLOCKSIZE \in Nat
  BY ReadMarksAssumption
<1>8. Replaced(buf, bid, L) =
        IF x = 0
        THEN [recs |-> IF L = <<>> THEN recs ELSE Put(recs, new),
              tail |-> IF buf.tail > HeaderSize THEN 0 ELSE buf.tail]
        ELSE [recs |-> IF L = <<>> THEN RemoveAt(recs, x) ELSE [recs EXCEPT ![x] = new],
              tail |-> buf.tail]
  BY DEF Replaced
<1> HIDE DEF x, new
<1>10. CASE x = 0
  <2> DEFINE tail == IF buf.tail > HeaderSize THEN 0 ELSE buf.tail
  <2>0. tail \in Nat /\ tail <= buf.tail
    BY <1>0 DEF HeaderSize
  <2>1. CASE L = <<>>
    <3>1. Exchanged(recs, recs, bid, L)
      BY <1>0, <1>1, <1>10, <2>1 DEF Exchanged
    <3>2. Replaced(buf, bid, L) = [recs |-> recs, tail |-> tail]
      BY <1>8, <1>10, <2>1
    <3>3. BytesOf(recs) <= BytesOf(recs) + (IF L = <<>> THEN 0 ELSE BRC_BLOCKSIZE)
      BY <1>5, <2>1
    <3> HIDE DEF tail
    <3>4. Renewed(buf, bid, L, [recs |-> recs, tail |-> tail])
      BY <2>0, <2>1, <3>1, <3>3, RenewedIs
    <3> QED
      BY <3>2, <3>4
  <2>2. CASE L # <<>>
    <3> DEFINE R == Put(recs, new)
    <3>1. /\ R \in Seq(BoardRec) /\ Len(R) = Len(recs) + 1 /\ R[1] = new
          /\ \A j \in 2..(Len(recs) + 1) : R[j] = recs[j - 1]
      BY <1>0, <1>2, PutIs
    <3> HIDE DEF R
    <3>2. /\ 1 \in 1..Len(R)
          /\ \A j \in 1..Len(R) : j = 1 \/ (j \in 2..(Len(recs) + 1) /\ j - 1 \in 1..Len(recs))
          /\ \A i \in 1..Len(recs) : /\ i + 1 \in 1..Len(R)
                                     /\ i + 1 \in 2..(Len(recs) + 1) /\ (i + 1) - 1 = i
      BY <1>0, <3>1
    <3>3. \A i \in 1..Len(recs) : R[i + 1] = recs[i]
      BY <3>1, <3>2
    <3>4. \A j \in 1..Len(R) : R[j] = new \/ R[j] = recs[j - 1]
      BY <3>1, <3>2
    <3>5. KeptRecs(R)
      <4>1. ASSUME NEW j \in 1..Len(R) PROVE R[j].list # <<>> /\ Falling(R[j].list)
        <5>1. CASE j = 1
          BY <1>2, <2>2, <3>1, <5>1
        <5>2. CASE j # 1
          <6>1. R[j] = recs[j - 1] /\ j - 1 \in 1..Len(recs)
            BY <3>1, <3>2, <5>2
          <6> QED
            BY <1>4, <6>1
        <5> QED
          BY <5>1, <5>2
      <4>2. ASSUME NEW j \in 1..Len(R), NEW k \in 1..Len(R), R[j].bid = R[k].bid
            PROVE  j = k
        <5>1. CASE j = 1
          BY <1>1, <1>2, <1>10, <3>1, <3>2, <4>2, <5>1
        <5>2. CASE k = 1
          BY <1>1, <1>2, <1>10, <3>1, <3>2, <4>2, <5>2
        <5>3. CASE j # 1 /\ k # 1
          <6>1. j - 1 \in 1..Len(recs) /\ k - 1 \in 1..Len(recs)
                /\ R[j] = recs[j - 1] /\ R[k] = recs[k - 1]
            BY <3>1, <3>2, <5>3
          <6>2. j - 1 = k - 1
            BY <1>4, <4>2, <6>1
          <6> QED
            BY <1>0, <3>1, <6>2
        <5> QED
          BY <5>1, <5>2, <5>3
      <4> QED
        BY <4>1, <4>2 DEF KeptRecs
    <3>6. Exchanged(recs, R, bid, L)
      <4>1. \A j \in 1..Len(R) : R[j].bid = bid => R[j].list = L
        BY <1>1, <1>2, <1>10, <3>1, <3>2
      <4>2. \E j \in 1..Len(R) : R[j].bid = bid
        BY <1>2, <3>1, <3>2
      <4>3. \A j \in 1..Len(R) : R[j].bid # bid => \E i \in 1..Len(recs) : recs[i] = R[j]
        BY <1>2, <3>1, <3>2
      <4>4. \A i \in 1..Len(recs) : \E j \in 1..Len(R) : R[j] = recs[i]
        BY <3>2, <3>3
      <4> QED
        BY <2>2, <3>1, <3>5, <4>1, <4>2, <4>3, <4>4 DEF Exchanged
    <3>7. Replaced(buf, bid, L) = [recs |-> R, tail |-> tail]
      BY <1>8, <1>10, <2>2 DEF R
    <3>8. BytesOf(R) <= BytesOf(recs) + (IF L = <<>> THEN 0 ELSE BRC_BLOCKSIZE)
      <4>1. BytesOf(R) <= BytesOf(recs) + BRC_BLOCKSIZE
        BY <1>0, <1>2, <1>3, <3>5, PutBytes DEF R
      <4> QED
        BY <2>2, <4>1
    <3>9. Len(R) # 0 /\ R[1].bid = bid
      BY <1>2, <3>1, <3>2
    <3> HIDE DEF tail
    <3>10. Renewed(buf, bid, L, [recs |-> R, tail |-> tail])
      BY <2>0, <3>6, <3>8, <3>9, RenewedIs
    <3> QED
      BY <3>7, <3>10
  <2> QED
    BY <2>1, <2>2
<1>11. CASE x # 0
  <2>0. x \in 1..Len(recs) /\ recs[x].bid = bid
    BY <1>0, <1>1, <1>11
  <2>00. buf.tail <= buf.tail
    BY <1>0
  <2>1. CASE L = <<>>
    <3> DEFINE R == RemoveAt(recs, x)
    <3>1. /\ R \in Seq(BoardRec) /\ Len(R) = Len(recs) - 1
          /\ \A j \in 1..(Len(recs) - 1) : R[j] = IF j < x THEN recs[j] ELSE recs[j + 1]
      BY <1>0, <2>0, Without
    <3> HIDE DEF R
    <3> DEFINE Old(j) == IF j < x THEN j ELSE j + 1
    <3>2. /\ \A j \in 1..Len(R) : Old(j) \in 1..Len(recs) /\ Old(j) # x /\ R[j] = recs[Old(j)]
          /\ \A j, k \in 1..Len(R) : Old(j) = Old(k) => j = k
          /\ \A i \in 1..Len(recs) : i # x => \E j \in 1..Len(R) : Old(j) = i
      <4>1. ASSUME NEW j \in 1..Len(R)
            PROVE  Old(j) \in 1..Len(recs) /\ Old(j) # x /\ R[j] = recs[Old(j)]
        BY <1>0, <2>0, <3>1
      <4>2. \A j, k \in 1..Len(R) : Old(j) = Old(k) => j = k
        BY <1>0, <2>0, <3>1
      <4>3. ASSUME NEW i \in 1..Len(recs), i # x PROVE \E j \in 1..Len(R) : Old(j) = i
        <5>1. CASE i < x
          <6>1. i \in 1..Len(R) /\ Old(i) = i
            BY <1>0, <2>0, <3>1, <5>1
          <6> QED
            BY <6>1
        <5>2. CASE i > x
          <6>1. i - 1 \in 1..Len(R) /\ Old(i - 1) = i
            BY <1>0, <2>0, <3>1, <5>2
          <6> QED
            BY <6>1
        <5> QED
          BY <1>0, <2>0, <4>3, <5>1, <5>2
      <4> QED
        BY <4>1, <4>2, <4>3
    <3> HIDE DEF Old
    <3>3. \A j \in 1..Len(R) : R[j].bid # bid
      BY SMTT(40), <1>4, <2>0, <3>2
    <3>4. KeptRecs(R)
      <4>1. ASSUME NEW j \in 1..Len(R) PROVE R[j].list # <<>> /\ Falling(R[j].list)
        BY SMTT(40), <1>4, <3>2
      <4>2. ASSUME NEW j \in 1..Len(R), NEW k \in 1..Len(R), R[j].bid = R[k].bid
            PROVE  j = k
        <5>1. /\ Old(j) \in 1..Len(recs) /\ R[j] = recs[Old(j)]
              /\ Old(k) \in 1..Len(recs) /\ R[k] = recs[Old(k)]
          BY <3>2
        <5>2. Old(j) = Old(k)
          BY <1>4, <4>2, <5>1
        <5> QED
          BY <3>2, <5>2
      <4> QED
        BY <4>1, <4>2 DEF KeptRecs
    <3>5. Exchanged(recs, R, bid, L)
      <4>1. \A j \in 1..Len(R) : \E i \in 1..Len(recs) : recs[i] = R[j]
        BY <3>2
      <4>2. ASSUME NEW i \in 1..Len(recs), recs[i].bid # bid
            PROVE  \E j \in 1..Len(R) : R[j] = recs[i]
        <5>1. i # x
          BY <2>0, <4>2
        <5>2. PICK j \in 1..Len(R) : Old(j) = i
          BY <3>2, <5>1
        <5> QED
          BY <3>2, <5>2
      <4> QED
        BY <2>1, <3>1, <3>3, <3>4, <4>1, <4>2 DEF Exchanged
    <3>6. Replaced(buf, bid, L) = [recs |-> R, tail |-> buf.tail]
      BY <1>8, <1>11, <2>1 DEF R
    <3>7. BytesOf(R) <= BytesOf(recs) + (IF L = <<>> THEN 0 ELSE BRC_BLOCKSIZE)
      <4>1. BytesOf(R) <= BytesOf(recs)
        BY <1>0, <2>0, <3>4, WithoutBytes DEF R
      <4>2. BytesOf(R) \in Nat
        BY <3>1, <3>4, BytesAre
      <4> QED
        BY <1>5, <2>1, <4>1, <4>2
    <3>8. Renewed(buf, bid, L, [recs |-> R, tail |-> buf.tail])
      BY <1>0, <1>11, <2>1, <2>00, <3>5, <3>7, RenewedIs DEF x
    <3> QED
      BY <3>6, <3>8
  <2>2. CASE L # <<>>
    <3> DEFINE R == [recs EXCEPT ![x] = new]
    <3>1. /\ R \in Seq(BoardRec) /\ Len(R) = Len(recs)
          /\ \A j \in 1..Len(recs) : R[j] = IF j = x THEN new ELSE recs[j]
      BY <1>0, <1>2, <2>0, ExceptSeq
    <3> HIDE DEF R
    <3>2. \A j \in 1..Len(recs) : R[j].bid = recs[j].bid
      BY <1>2, <2>0, <3>1
    <3>3. KeptRecs(R)
      <4>1. ASSUME NEW j \in 1..Len(R) PROVE R[j].list # <<>> /\ Falling(R[j].list)
        BY <1>2, <1>4, <2>2, <3>1
      <4>2. \A j, k \in 1..Len(R) : R[j].bid = R[k].bid => j = k
        BY <1>4, <3>1, <3>2
      <4> QED
        BY <4>1, <4>2 DEF KeptRecs
    <3>4. Exchanged(recs, R, bid, L)
      <4>1. \A j \in 1..Len(R) : R[j].bid = bid => R[j].list = L
        BY <1>2, <1>4, <2>0, <3>1, <3>2
      <4>2. \E j \in 1..Len(R) : R[j].bid = bid
        BY <2>0, <3>1, <3>2
      <4>3. \A j \in 1..Len(R) : R[j].bid # bid => \E i \in 1..Len(recs) : recs[i] = R[j]
        BY <1>2, <3>1
      <4>4. \A i \in 1..Len(recs) : recs[i].bid # bid => \E j \in 1..Len(R) : R[j] = recs[i]
        BY <2>0, <3>1
      <4> QED
        BY <2>2, <3>1, <3>3, <4>1, <4>2, <4>3, <4>4 DEF Exchanged
    <3>5. Replaced(buf, bid, L) = [recs |-> R, tail |-> buf.tail]
      BY <1>8, <1>11, <2>2 DEF R
    <3>6. BytesOf(R) <= BytesOf(recs) + (IF L = <<>> THEN 0 ELSE BRC_BLOCKSIZE)
      <4>1. BytesOf(R) <= BytesOf(recs) + BRC_BLOCKSIZE
        BY <1>0, <1>2, <1>3, <2>0, <3>3, SetBytes DEF R
      <4> QED
        BY <2>2, <4>1
    <3>7. Renewed(buf, bid, L, [recs |-> R, tail |-> buf.tail])
      BY <1>0, <1>11, <2>00, <3>4, <3>6, RenewedIs DEF x
    <3> QED
      BY <3>5, <3>7
  <2> QED
    BY <2>1, <2>2
<1> QED
  BY <1>10, <1>11

LEMMA PrefixKept ==
    ASSUME NEW recs \in Seq(BoardRec), KeptRecs(recs), NEW n \in 0..Len(recs)
    PROVE  /\ SubSeq(recs, 1, n) \in Seq(BoardRec) /\ Len(SubSeq(recs, 1, n)) = n
           /\ \A i \in 1..n : SubSeq(recs, 1, n)[i] = recs[i] /\ i \in 1..Len(recs)
           /\ KeptRecs(SubSeq(recs, 1, n))
<1> DEFINE R == SubSeq(recs, 1, n)
<1>0. Len(recs) \in Nat
  BY RecsIn
<1>1. R \in Seq(BoardRec) /\ Len(R) = n /\ \A i \in 1..n : R[i] = recs[i]
  BY PrefixOf
<1>2. \A i \in 1..n : i \in 1..Len(recs)
  BY <1>0
<1> HIDE DEF R
<1>3. KeptRecs(R)
  BY <1>1, <1>2 DEF KeptRecs
<1> QED
  BY <1>1, <1>2, <1>3 DEF R

LEMMA NoBytes ==
    ASSUME NEW recs \in Seq(BoardRec), Len(recs) = 0
    PROVE  BytesOf(recs) = 0 /\ KeptRecs(recs)
<1>1. Places(recs) = {}
  <2>1. DOMAIN recs = {}
    BY RecsIn
  <2> QED
    BY <2>1 DEF Places
<1>2. KeptRecs(recs)
  BY DEF KeptRecs
<1>3. BytesOf(recs) = 6 * Len(recs) + 8 * Cardinality(Places(recs))
  BY <1>2, BytesAre
<1>4. Cardinality(Places(recs)) = 0
  BY <1>1, FS_EmptySet
<1> QED
  BY <1>2, <1>3, <1>4

\* When the buffer overflows, the records at its beginning stay, and the first
\* is always among them.
LEMMA CutIs ==
    ASSUME NEW buf \in Buffer, KeptRecs(buf.recs), NEW max \in Nat, BRC_BLOCKSIZE <= max
    PROVE  /\ Cut(buf, max) \in Buffer /\ KeptRecs(Cut(buf, max).recs)
           /\ Size(Cut(buf, max)) = max
           /\ \A b : \/ ListOf(Cut(buf, max), b) = ListOf(buf, b)
                     \/ Find(Cut(buf, max), b) = 0 /\ ListOf(Cut(buf, max), b) = <<>>
           /\ Len(buf.recs) # 0 => Find(Cut(buf, max), buf.recs[1].bid) # 0
<1> DEFINE recs == buf.recs
           fits == {n \in 0..Len(recs) : BytesOf(SubSeq(recs, 1, n)) <= max}
           n == CHOOSE n \in fits : \A k \in fits : k <= n
           c == Cut(buf, max)
<1>0. recs \in Seq(BoardRec) /\ Len(recs) \in Nat
  BY BufferIs, RecsIn
<1>1. /\ c = [recs |-> SubSeq(recs, 1, n), tail |-> max - BytesOf(SubSeq(recs, 1, n))]
  BY DEF Cut
<1>2. ASSUME NEW k \in 0..Len(recs)
      PROVE  /\ SubSeq(recs, 1, k) \in Seq(BoardRec) /\ Len(SubSeq(recs, 1, k)) = k
             /\ \A i \in 1..k : SubSeq(recs, 1, k)[i] = recs[i] /\ i \in 1..Len(recs)
             /\ KeptRecs(SubSeq(recs, 1, k))
             /\ BytesOf(SubSeq(recs, 1, k)) \in Nat
  BY <1>0, PrefixKept, BytesAre
<1>3. fits \subseteq 0..Len(recs)
  OBVIOUS
<1>4. 0 \in fits
  <2>1. 0 \in 0..Len(recs)
    BY <1>0
  <2>2. SubSeq(recs, 1, 0) \in Seq(BoardRec) /\ Len(SubSeq(recs, 1, 0)) = 0
        /\ KeptRecs(SubSeq(recs, 1, 0))
    BY <1>2, <2>1
  <2>3. PICK R : R = SubSeq(recs, 1, 0)
    OBVIOUS
  <2>4. BytesOf(R) = 0
    BY <2>2, <2>3, NoBytes
  <2>5. BytesOf(SubSeq(recs, 1, 0)) <= max
    BY <2>3, <2>4
  <2> QED
    BY <2>1, <2>5
<1>5. Len(recs) # 0 => 1 \in fits
  <2> SUFFICES ASSUME Len(recs) # 0 PROVE 1 \in fits
    OBVIOUS
  <2>1. 1 \in 0..Len(recs)
    BY <1>0
  <2>2. SubSeq(recs, 1, 1) \in Seq(BoardRec) /\ Len(SubSeq(recs, 1, 1)) = 1
        /\ KeptRecs(SubSeq(recs, 1, 1)) /\ BytesOf(SubSeq(recs, 1, 1)) \in Nat
    BY <1>2, <2>1
  <2>3. BytesOf(SubSeq(recs, 1, 1)) <= BRC_BLOCKSIZE
    BY <2>2, FirstBytes
  <2>4. BytesOf(SubSeq(recs, 1, 1)) <= max
    BY <2>2, <2>3, ReadMarksAssumption
  <2> QED
    BY <2>1, <2>4
<1>6. n \in fits /\ \A k \in fits : k <= n
  <2> HIDE DEF fits
  <2>1. Max(fits) \in fits /\ \A m \in fits : m <= Max(fits)
    BY <1>0, <1>3, <1>4, MaxIs
  <2> QED
    BY <2>1
<1>7. n \in 0..Len(recs) /\ BytesOf(SubSeq(recs, 1, n)) <= max /\ (Len(recs) # 0 => n >= 1)
  <2>1. n \in 0..Len(recs) /\ BytesOf(SubSeq(recs, 1, n)) <= max
    <3> HIDE DEF n
    <3> QED
      BY <1>6
  <2> HIDE DEF n, fits
  <2> QED
    BY <1>5, <1>6, <2>1
<1> HIDE DEF n, fits, c
<1> DEFINE R == SubSeq(recs, 1, n)
<1>8. /\ R \in Seq(BoardRec) /\ Len(R) = n /\ KeptRecs(R) /\ BytesOf(R) \in Nat
      /\ \A i \in 1..n : R[i] = recs[i] /\ i \in 1..Len(recs)
  BY <1>2, <1>7
<1>9. c = [recs |-> R, tail |-> max - BytesOf(R)] /\ BytesOf(R) <= max
  BY <1>1, <1>7
<1> HIDE DEF R
<1>10. max - BytesOf(R) \in Nat /\ BytesOf(R) + (max - BytesOf(R)) = max
  BY <1>8, <1>9
<1>11. c \in Buffer /\ c.recs = R /\ c.tail = max - BytesOf(R)
  BY <1>8, <1>9, <1>10 DEF Buffer, BoardRec
<1>12. Size(c) = max
  BY <1>10, <1>11 DEF Size
<1>13. KeptRecs(c.recs) /\ KeptRecs(recs)
  BY <1>8, <1>11
<1>14. ASSUME NEW b, Find(c, b) # 0 PROVE ListOf(c, b) = ListOf(buf, b)
  <2>1. PICK i \in 1..Len(c.recs) : c.recs[i].bid = b
    BY <1>11, <1>13, <1>14, ListIs
  <2>2. ListOf(c, b) = c.recs[i].list
    BY <1>11, <1>13, <2>1, ListIs
  <2>3. i \in 1..Len(recs) /\ c.recs[i] = recs[i]
    BY <1>8, <1>11, <2>1
  <2>4. ListOf(buf, b) = recs[i].list
    BY <1>13, <2>1, <2>3, ListIs
  <2> QED
    BY <2>2, <2>3, <2>4
<1>15. ASSUME NEW b PROVE Find(c, b) = 0 <=> ListOf(c, b) = <<>>
  BY <1>11, <1>13, ListIs
<1>16. Len(recs) # 0 => Find(c, recs[1].bid) # 0
  <2> SUFFICES ASSUME Len(recs) # 0 PROVE Find(c, recs[1].bid) # 0
    OBVIOUS
  <2>1. 1 \in 1..Len(c.recs) /\ c.recs[1] = recs[1]
    BY <1>7, <1>8, <1>11
  <2> QED
    BY <1>11, <1>13, <2>1, ListIs
<1> QED
  BY <1>11, <1>12, <1>13, <1>14, <1>15, <1>16 DEF c

-----------------------------------------------------------------------------
(* The allocated size                                                      *)

LEMMA WholeIs ==
    ASSUME NEW a \in Nat, NEW k \in Nat, a = k * BRC_BLOCKSIZE
    PROVE  Whole(a)
<1>1. BRC_BLOCKSIZE \in Nat \ {0}
  BY ReadMarksAssumption
<1>2. \A b \in Nat \ {0} : k <= k * b
  <2> TAKE b \in Nat \ {0}
  <2>1. PICK c \in Nat : b = c + 1
    <3>1. b - 1 \in Nat /\ b = (b - 1) + 1
      OBVIOUS
    <3> QED
      BY <3>1
  <2>2. k * b = k * c + k /\ k * c \in Nat
    BY <2>1
  <2> QED
    BY <2>2
<1>3. k \in 0..a
  BY <1>1, <1>2
<1> QED
  BY <1>3 DEF Whole

LEMMA DivMod ==
    ASSUME NEW a \in Nat, NEW b \in Nat \ {0}
    PROVE  a \div b \in Nat /\ a = (a \div b) * b + (a % b) /\ a % b \in 0..(b - 1)
OBVIOUS

LEMMA MaxWhole == BRC_MAXSIZE \in Nat \ {0} /\ Whole(BRC_MAXSIZE) /\ BRC_BLOCKSIZE <= BRC_MAXSIZE
<1>1. /\ BRC_BLOCKSIZE \in Nat \ {0} /\ BRC_MAXSIZE \in Nat \ {0}
      /\ BRC_MAXSIZE % BRC_BLOCKSIZE = 0
  BY ReadMarksAssumption
<1> DEFINE k == BRC_MAXSIZE \div BRC_BLOCKSIZE
<1>2. k \in Nat /\ BRC_MAXSIZE = k * BRC_BLOCKSIZE + 0
  <2>1. BRC_MAXSIZE \div BRC_BLOCKSIZE \in Nat
        /\ BRC_MAXSIZE = (BRC_MAXSIZE \div BRC_BLOCKSIZE) * BRC_BLOCKSIZE
                         + (BRC_MAXSIZE % BRC_BLOCKSIZE)
    BY <1>1, DivMod
  <2> QED
    BY <1>1, <2>1
<1> HIDE DEF k
<1>3. BRC_MAXSIZE = k * BRC_BLOCKSIZE
  BY <1>1, <1>2
<1>4. Whole(BRC_MAXSIZE)
  BY <1>1, <1>2, <1>3, WholeIs
<1>5. k # 0
  BY <1>1, <1>2
<1>6. PICK c \in Nat : k = c + 1
  <2>1. k - 1 \in Nat /\ k = (k - 1) + 1
    BY <1>2, <1>5
  <2> QED
    BY <2>1
<1>7. k * BRC_BLOCKSIZE = c * BRC_BLOCKSIZE + BRC_BLOCKSIZE /\ c * BRC_BLOCKSIZE \in Nat
  BY <1>1, <1>6
<1>8. BRC_BLOCKSIZE <= BRC_MAXSIZE
  BY <1>1, <1>3, <1>7
<1> QED
  BY <1>1, <1>4, <1>8

\* One more block never leads past the largest size.
LEMMA NextBlock ==
    ASSUME NEW a \in Nat, Whole(a), a < BRC_MAXSIZE
    PROVE  a + BRC_BLOCKSIZE <= BRC_MAXSIZE /\ Whole(a + BRC_BLOCKSIZE)
<1>0. BRC_BLOCKSIZE \in Nat \ {0} /\ BRC_MAXSIZE \in Nat
  BY ReadMarksAssumption
<1>1. PICK k \in Nat : a = k * BRC_BLOCKSIZE
  BY DEF Whole
<1>2. PICK m \in Nat : BRC_MAXSIZE = m * BRC_BLOCKSIZE
  BY MaxWhole DEF Whole
<1>3. k < m
  <2> SUFFICES ASSUME m <= k PROVE FALSE
    BY <1>1, <1>2
  <2>1. PICK d \in Nat : k = m + d
    <3>1. k - m \in Nat /\ k = m + (k - m)
      BY <1>1, <1>2
    <3> QED
      BY <3>1
  <2>2. k * BRC_BLOCKSIZE = m * BRC_BLOCKSIZE + d * BRC_BLOCKSIZE /\ d * BRC_BLOCKSIZE \in Nat
    BY <1>0, <2>1
  <2> QED
    BY <1>0, <1>1, <1>2, <2>2
<1>4. PICK d \in Nat : m = (k + 1) + d
  <2>1. m - (k + 1) \in Nat /\ m = (k + 1) + (m - (k + 1))
    BY <1>3
  <2> QED
    BY <2>1
<1>5. m * BRC_BLOCKSIZE = (k * BRC_BLOCKSIZE + BRC_BLOCKSIZE) + d * BRC_BLOCKSIZE
      /\ d * BRC_BLOCKSIZE \in Nat
  BY <1>0, <1>4
<1>6. a + BRC_BLOCKSIZE <= BRC_MAXSIZE
  BY <1>0, <1>1, <1>2, <1>5
<1>7. a + BRC_BLOCKSIZE = (k + 1) * BRC_BLOCKSIZE /\ a + BRC_BLOCKSIZE \in Nat
  BY <1>0, <1>1
<1>8. Whole(a + BRC_BLOCKSIZE)
  BY <1>7, WholeIs
<1> QED
  BY <1>6, <1>8

LEMMA EnlargedIs ==
    ASSUME NEW a \in Nat, Whole(a), a <= BRC_MAXSIZE
    PROVE  \/ a = BRC_MAXSIZE /\ Enlarged(a) = a
           \/ /\ Enlarged(a) = a + BRC_BLOCKSIZE /\ Enlarged(a) # a /\ Enlarged(a) \in Nat
              /\ Enlarged(a) <= BRC_MAXSIZE /\ Whole(Enlarged(a))
<1>0. BRC_BLOCKSIZE \in Nat \ {0} /\ BRC_MAXSIZE \in Nat
  BY ReadMarksAssumption
<1>1. CASE a >= BRC_MAXSIZE
  BY <1>0, <1>1 DEF Enlarged
<1>2. CASE ~ (a >= BRC_MAXSIZE)
  <2>1. a + BRC_BLOCKSIZE <= BRC_MAXSIZE /\ Whole(a + BRC_BLOCKSIZE)
    BY <1>0, <1>2, NextBlock
  <2>2. Enlarged(a) = a + BRC_BLOCKSIZE
    BY <1>2 DEF Enlarged
  <2> QED
    BY <1>0, <2>1, <2>2
<1> QED
  BY <1>1, <1>2

LEMMA AllocatedIs ==
    ASSUME NEW size \in Nat, size <= BRC_MAXSIZE
    PROVE  /\ Allocated(size) \in Nat \ {0} /\ Whole(Allocated(size))
           /\ size <= Allocated(size) /\ Allocated(size) <= BRC_MAXSIZE
<1>0. BRC_BLOCKSIZE \in Nat \ {0} /\ BRC_MAXSIZE \in Nat \ {0}
      /\ Whole(BRC_MAXSIZE) /\ BRC_BLOCKSIZE <= BRC_MAXSIZE
  BY MaxWhole, ReadMarksAssumption
<1>1. CASE size = 0
  <2>1. Allocated(size) = BRC_BLOCKSIZE
    BY <1>1 DEF Allocated
  <2>2. BRC_BLOCKSIZE = 1 * BRC_BLOCKSIZE
    BY <1>0
  <2>3. Whole(BRC_BLOCKSIZE)
    BY <1>0, <2>2, WholeIs
  <2> QED
    BY <1>0, <1>1, <2>1, <2>3
<1>2. CASE size # 0
  <2> DEFINE k == (size + BRC_BLOCKSIZE - 1) \div BRC_BLOCKSIZE
             n == size + BRC_BLOCKSIZE - 1
  <2>1. Allocated(size) = IF k * BRC_BLOCKSIZE > BRC_MAXSIZE THEN BRC_MAXSIZE
                          ELSE k * BRC_BLOCKSIZE
    BY <1>2 DEF Allocated
  <2>2. n \in Nat
    BY <1>0
  <2>3. k \in Nat /\ n = k * BRC_BLOCKSIZE + (n % BRC_BLOCKSIZE)
        /\ n % BRC_BLOCKSIZE \in 0..(BRC_BLOCKSIZE - 1)
    <3> DEFINE q == n \div BRC_BLOCKSIZE
    <3>1. \A x \in Nat : x \div BRC_BLOCKSIZE \in Nat
            /\ x = (x \div BRC_BLOCKSIZE) * BRC_BLOCKSIZE + (x % BRC_BLOCKSIZE)
            /\ x % BRC_BLOCKSIZE \in 0..(BRC_BLOCKSIZE - 1)
      BY <1>0, DivMod
    <3>2. k = n \div BRC_BLOCKSIZE
      OBVIOUS
    <3> HIDE DEF n, k
    <3> QED
      BY <2>2, <3>1, <3>2
  <2>4. PICK r \in 0..(BRC_BLOCKSIZE - 1) : n = k * BRC_BLOCKSIZE + r
    BY <2>3
  <2>5. n = size + BRC_BLOCKSIZE - 1
    OBVIOUS
  <2> HIDE DEF k, n
  <2>6. PICK a \in Nat : a = k * BRC_BLOCKSIZE
    BY <1>0, <2>3
  <2>7. size <= a
    BY <1>0, <2>4, <2>5, <2>6
  <2>8. Whole(a)
    BY <2>3, <2>6, WholeIs
  <2>9. Allocated(size) = IF a > BRC_MAXSIZE THEN BRC_MAXSIZE ELSE a
    BY <2>1, <2>6
  <2> QED
    BY <1>0, <1>2, <2>7, <2>8, <2>9
<1> QED
  BY <1>1, <1>2

-----------------------------------------------------------------------------
(* brc_insert_record                                                       *)

\* B and A are the buffer and its size after the list went in: a list is the
\* old or the new one, or lost, and none is lost that Remembered counts on.
Kept(buf, alloc, bid, list, e, B, A) ==
    /\ B \in Buffer /\ KeptRecs(B.recs)
    /\ A \in Nat /\ Whole(A) /\ alloc <= A /\ A <= BRC_MAXSIZE /\ Size(B) <= A
    /\ \A b :
        LET L == IF b = bid THEN Trim(list, e) ELSE ListOf(buf, b) IN
        /\ ListOf(B, b) = L \/ ListOf(B, b) = <<>>
        /\ Find(B, b) # 0 => ListOf(B, b) = L
        /\ B = Replaced(buf, bid, Trim(list, e)) => ListOf(B, b) = L
        /\ b = bid /\ Find(buf, bid) = 0 => ListOf(B, b) = L

LEMMA InsertIs ==
    ASSUME NEW buf \in Buffer, KeptRecs(buf.recs),
           NEW alloc \in Nat, Whole(alloc), alloc <= BRC_MAXSIZE, Size(buf) <= alloc,
           NEW bid \in Boards, NEW list \in Seq(Mark), Falling(list), NEW e \in Nat
    PROVE  Kept(buf, alloc, bid, list, e, Insert(buf, alloc, bid, list, e)[1],
                Insert(buf, alloc, bid, list, e)[2])
<1> DEFINE T == Trim(list, e)
           after == Replaced(buf, bid, T)
           r == Insert(buf, alloc, bid, list, e)
           Shown(b) == IF b = bid THEN T ELSE ListOf(buf, b)
<1> SUFFICES Kept(buf, alloc, bid, list, e, r[1], r[2])
  OBVIOUS
<1>1. r = IF Size(after) <= alloc THEN <<after, alloc>>
          ELSE IF Enlarged(alloc) # alloc THEN <<after, Enlarged(alloc)>>
          ELSE <<Cut(after, BRC_MAXSIZE), alloc>>
  BY DEF Insert
<1>2. T \in Seq(Mark) /\ Falling(T)
  BY TrimKeeps
<1> HIDE DEF T, r, Shown
<1>3. Renewed(buf, bid, T, after)
  BY <1>2, ReplacedRecs
<1> HIDE DEF after
<1>4. /\ after \in Buffer /\ Exchanged(buf.recs, after.recs, bid, T)
      /\ Size(buf) \in Nat /\ Size(after) \in Nat
      /\ Size(after) <= Size(buf) + IF T = <<>> THEN 0 ELSE BRC_BLOCKSIZE
      /\ Find(buf, bid) = 0 /\ T # <<>> => Len(after.recs) # 0 /\ after.recs[1].bid = bid
  BY <1>3 DEF Renewed
<1>5. KeptRecs(after.recs)
  BY <1>4 DEF Exchanged
<1>6. \A b : ListOf(after, b) = Shown(b)
  <2>1. Lists(buf, after, bid, T)
    BY <1>4, ExchangedLists
  <2> QED
    BY <2>1 DEF Lists, Shown
<1>7. BRC_BLOCKSIZE \in Nat /\ BRC_MAXSIZE \in Nat /\ BRC_BLOCKSIZE <= BRC_MAXSIZE
  BY MaxWhole, ReadMarksAssumption
<1>8. ASSUME NEW B, NEW A \in Nat, B \in Buffer, KeptRecs(B.recs),
             Whole(A), alloc <= A, A <= BRC_MAXSIZE, Size(B) <= A,
             \A b : ListOf(B, b) = Shown(b) \/ ListOf(B, b) = <<>>,
             \A b : Find(B, b) # 0 => ListOf(B, b) = Shown(b),
             B = after => \A b : ListOf(B, b) = Shown(b),
             Find(buf, bid) = 0 => ListOf(B, bid) = Shown(bid)
      PROVE  Kept(buf, alloc, bid, list, e, B, A)
  BY <1>8 DEF Kept, Shown, T, after
<1>9. CASE Size(after) <= alloc
  <2>1. r = <<after, alloc>>
    BY <1>1, <1>9
  <2>2. alloc <= alloc
    OBVIOUS
  <2>3. Kept(buf, alloc, bid, list, e, after, alloc)
    BY <1>4, <1>5, <1>6, <1>8, <1>9, <2>2
  <2>4. r[1] = after /\ r[2] = alloc
    BY <2>1
  <2> QED
    BY <2>3, <2>4
<1>10. CASE ~ (Size(after) <= alloc) /\ Enlarged(alloc) # alloc
  <2>1. r = <<after, Enlarged(alloc)>>
    BY <1>1, <1>10
  <2>2. /\ Enlarged(alloc) = alloc + BRC_BLOCKSIZE /\ Enlarged(alloc) \in Nat
        /\ Enlarged(alloc) <= BRC_MAXSIZE /\ Whole(Enlarged(alloc))
    BY <1>10, EnlargedIs
  <2>3. Size(after) <= Enlarged(alloc) /\ alloc <= Enlarged(alloc)
    BY <1>4, <1>7, <2>2
  <2>4. Kept(buf, alloc, bid, list, e, after, Enlarged(alloc))
    BY <1>4, <1>5, <1>6, <1>8, <2>2, <2>3
  <2>5. r[1] = after /\ r[2] = Enlarged(alloc)
    BY <2>1
  <2> QED
    BY <2>4, <2>5
<1>11. CASE ~ (Size(after) <= alloc) /\ Enlarged(alloc) = alloc
  <2> DEFINE c == Cut(after, BRC_MAXSIZE)
  <2>1. r = <<c, alloc>>
    BY <1>1, <1>11
  <2>2. alloc = BRC_MAXSIZE
    BY <1>11, EnlargedIs
  <2>3. /\ c \in Buffer /\ KeptRecs(c.recs) /\ Size(c) = BRC_MAXSIZE
        /\ \A b : \/ ListOf(c, b) = ListOf(after, b)
                  \/ Find(c, b) = 0 /\ ListOf(c, b) = <<>>
        /\ Len(after.recs) # 0 => Find(c, after.recs[1].bid) # 0
    BY <1>4, <1>5, <1>7, CutIs
  <2> HIDE DEF c
  <2>4. T # <<>>
    BY <1>4, <1>11
  <2>5. Find(buf, bid) = 0 => ListOf(c, bid) = Shown(bid)
    BY <1>4, <1>6, <2>3, <2>4
  <2>6. Size(c) <= alloc /\ alloc <= alloc
    BY <1>7, <2>2, <2>3
  <2>7. \A b : ListOf(c, b) = Shown(b) \/ ListOf(c, b) = <<>>
    BY <1>6, <2>3
  <2>8. \A b : Find(c, b) # 0 => ListOf(c, b) = Shown(b)
    BY <1>6, <2>3
  <2>9. c = after => \A b : ListOf(c, b) = Shown(b)
    BY <1>6
  <2>10. Kept(buf, alloc, bid, list, e, c, alloc)
    BY <1>8, <2>2, <2>3, <2>5, <2>6, <2>7, <2>8, <2>9
  <2>11. r[1] = c /\ r[2] = alloc
    BY <2>1
  <2> QED
    BY <2>10, <2>11
<1> QED
  BY <1>9, <1>10, <1>11

-----------------------------------------------------------------------------
(* What the invariant says of a session                                    *)

LEMMA TheArticles ==
    \A s \in Articles \X Mods :
        /\ s \in Nat \X (Nat \cup {-1}) /\ s \in Nat \X Int
        /\ s[1] \in Nat /\ s[1] \in Articles
<1>1. Articles \subseteq Nat /\ Mods \subseteq Nat \cup {-1}
  BY ReadMarksAssumption
<1>2. Mods \subseteq Int
  BY <1>1
<1> TAKE s \in Articles \X Mods
<1>3. s \in Nat \X (Nat \cup {-1})
  BY <1>1
<1>4. s \in Nat \X Int
  BY <1>1, <1>2
<1>5. s[1] \in Articles /\ s[1] \in Nat
  BY <1>1
<1> QED
  BY <1>3, <1>4, <1>5

LEMMA SessionIs ==
    ASSUME IInv
    PROVE  /\ brc_buf \in Buffer /\ KeptRecs(brc_buf.recs)
           /\ brc_alloc \in Nat /\ Whole(brc_alloc) /\ brc_alloc <= BRC_MAXSIZE
           /\ Size(brc_buf) <= brc_alloc
           /\ brc_list \in Seq(Mark) /\ Falling(brc_list)
           /\ brc_expire_time \in Nat /\ newest \in Nat /\ watched \in Boards
           /\ seen \subseteq Articles \X Mods
<1>1. KeptRecs(brc_buf.recs)
  BY DEF IInv, BufferInv, BufferKept, KeptRecs
<1>2. brc_expire_time \in Nat
  BY ReadMarksAssumption DEF IInv, TypeOK
<1> QED
  BY <1>1, <1>2 DEF IInv, BufferInv, BufferKept, TypeOK

\* A board with a list that is written and that is watched: what it shows
\* afterwards, unless the history forgot it.
LEMMA RememberedIs ==
    ASSUME IInv, NEW bid \in Boards, NEW list \in Seq(Mark), Falling(list),
           NEW B, B = Insert(brc_buf, brc_alloc, bid, list, brc_expire_time)[1]
    PROVE  /\ Remembered(bid, list) \subseteq seen
           /\ Remembered(bid, list) # {} =>
                ListOf(B, watched) = IF watched = bid THEN Trim(list, brc_expire_time)
                                     ELSE ListOf(brc_buf, watched)
<1> DEFINE A == Insert(brc_buf, brc_alloc, bid, list, brc_expire_time)[2]
           new == Replaced(brc_buf, bid, Trim(list, brc_expire_time))
<1>1. Kept(brc_buf, brc_alloc, bid, list, brc_expire_time, B, A)
  BY SessionIs, InsertIs
<1>2. Remembered(bid, list) =
        IF \/ B = new \/ Find(B, watched) # 0
           \/ watched = bid /\ Find(brc_buf, bid) = 0
        THEN seen ELSE {}
  BY DEF Remembered
<1> HIDE DEF A
<1>3. LET L == IF watched = bid THEN Trim(list, brc_expire_time) ELSE ListOf(brc_buf, watched)
      IN  /\ Find(B, watched) # 0 => ListOf(B, watched) = L
          /\ B = new => ListOf(B, watched) = L
          /\ watched = bid /\ Find(brc_buf, bid) = 0 => ListOf(B, watched) = L
  BY <1>1 DEF Kept
<1> QED
  BY <1>2, <1>3

\* brc_update, before a board is entered or the session ends.
LEMMA UpdatedIs ==
    ASSUME IInv, at # "out", NEW B, B = Updated[1], NEW A, A = Updated[2]
    PROVE  /\ B \in Buffer /\ KeptRecs(B.recs)
           /\ A \in Nat /\ Whole(A) /\ A <= BRC_MAXSIZE /\ Size(B) <= A
           /\ A = 0 => user_brc3 = {}
           /\ UpdatedSeen \subseteq seen
           /\ \A s \in UpdatedSeen : ReadIn(ListOf(B, watched), brc_expire_time, s)
           /\ UpTo(ListOf(B, watched), newest)
           /\ brc_currbid = watched /\ Find(B, watched) # 0 =>
                \A s \in Articles \X Mods : ReadIn(brc_list, brc_expire_time, s) =>
                    ReadIn(ListOf(B, watched), brc_expire_time, s)
           /\ (IF Dirty THEN FALSE ELSE brc_changed) = FALSE
<1> USE DEF IInv
<1>0. /\ brc_buf \in Buffer /\ KeptRecs(brc_buf.recs)
      /\ brc_alloc \in Nat /\ Whole(brc_alloc) /\ brc_alloc <= BRC_MAXSIZE
      /\ Size(brc_buf) <= brc_alloc
      /\ brc_list \in Seq(Mark) /\ Falling(brc_list)
      /\ brc_expire_time \in Nat /\ newest \in Nat /\ watched \in Boards
      /\ seen \subseteq Articles \X Mods
  BY SessionIs
<1>1. /\ brc_changed \in BOOLEAN /\ (brc_changed => Dirty) /\ (Dirty => brc_currbid \in Boards)
  BY DEF TypeOK, BoardInv, Dirty
<1>2. Here <=> brc_currbid = watched
  BY DEF Here
<1>3. /\ \A s \in seen : Here => ReadIn(brc_list, brc_expire_time, s)
      /\ \A s \in seen : ~ (Here /\ brc_changed) =>
                ReadIn(ListOf(brc_buf, watched), brc_expire_time, s)
      /\ Here /\ ~ brc_changed /\ Find(brc_buf, watched) # 0 =>
            \A s \in Articles \X Mods : ReadIn(brc_list, brc_expire_time, s) =>
                ReadIn(ListOf(brc_buf, watched), brc_expire_time, s)
      /\ Here => UpTo(brc_list, newest)
      /\ UpTo(ListOf(brc_buf, watched), newest)
  BY DEF SeenInv, NewInv, Stored
<1>4. brc_alloc = 0 => user_brc3 = {}
  BY DEF BufferInv
<1> HIDE DEF IInv
<1>5. CASE ~ Dirty
  <2>1. B = brc_buf /\ A = brc_alloc /\ UpdatedSeen = seen /\ brc_changed = FALSE
    BY <1>1, <1>5 DEF Updated, buffer, UpdatedSeen
  <2> QED
    BY <1>0, <1>2, <1>3, <1>4, <1>5, <2>1
<1>6. CASE Dirty
  <2> DEFINE b == brc_currbid
             e == brc_expire_time
             T == Trim(brc_list, brc_expire_time)
  <2>0. b \in Boards
    BY <1>1, <1>6
  <2>1. /\ B = Insert(brc_buf, brc_alloc, b, brc_list, e)[1]
        /\ A = Insert(brc_buf, brc_alloc, b, brc_list, e)[2]
        /\ UpdatedSeen = Remembered(b, brc_list)
    BY <1>6 DEF Updated, UpdatedSeen
  <2>2. Kept(brc_buf, brc_alloc, b, brc_list, e, B, A)
    BY <1>0, <2>0, <2>1, InsertIs
  <2>3. /\ T \in Seq(Mark) /\ (UpTo(brc_list, newest) => UpTo(T, newest))
        /\ \A s \in Nat \X Int : ReadIn(brc_list, e, s) => ReadIn(T, e, s)
    BY <1>0, TrimKeeps
  <2>4. /\ Remembered(b, brc_list) \subseteq seen
        /\ Remembered(b, brc_list) # {} =>
                ListOf(B, watched) = IF watched = b THEN T ELSE ListOf(brc_buf, watched)
    BY <1>0, <2>0, <2>1, RememberedIs
  <2> HIDE DEF T
  <2>5. ASSUME NEW s \in UpdatedSeen PROVE ReadIn(ListOf(B, watched), e, s)
    <3>1. s \in seen /\ ListOf(B, watched) = IF watched = b THEN T ELSE ListOf(brc_buf, watched)
      BY <2>1, <2>4
    <3>2. s \in Nat \X Int
      BY <1>0, <3>1, TheArticles
    <3>3. CASE watched = b
      <4>1. ReadIn(brc_list, e, s)
        BY <1>2, <1>3, <3>1, <3>3
      <4>2. ReadIn(T, e, s)
        BY <2>3, <3>2, <4>1
      <4> QED
        BY <3>1, <3>3, <4>2
    <3>4. CASE watched # b
      <4>1. ReadIn(ListOf(brc_buf, watched), e, s)
        BY <1>2, <1>3, <3>1, <3>4
      <4> QED
        BY <3>1, <3>4, <4>1
    <3> QED
      BY <3>3, <3>4
  <2>6. LET L == IF watched = b THEN T ELSE ListOf(brc_buf, watched) IN
        /\ ListOf(B, watched) = L \/ ListOf(B, watched) = <<>>
        /\ Find(B, watched) # 0 => ListOf(B, watched) = L
    BY <2>2 DEF Kept, T
  <2>7. UpTo(ListOf(B, watched), newest)
    BY <1>0, <1>2, <1>3, <2>3, <2>6, NoMarks
  <2>8. ASSUME b = watched, Find(B, watched) # 0, NEW s \in Articles \X Mods,
               ReadIn(brc_list, e, s)
        PROVE  ReadIn(ListOf(B, watched), e, s)
    <3>1. ListOf(B, watched) = T
      BY <2>6, <2>8
    <3>2. s \in Nat \X Int
      BY TheArticles
    <3> QED
      BY <2>3, <2>8, <3>1, <3>2
  <2>9. A = 0 => brc_alloc = 0
    BY <1>0, <2>2 DEF Kept
  <2> QED
    BY <1>4, <1>6, <2>1, <2>2, <2>4, <2>5, <2>7, <2>8, <2>9 DEF Kept
<1> QED
  BY <1>5, <1>6

-----------------------------------------------------------------------------
(* The steps                                                               *)

LEMMA NextBuffer ==
    ASSUME brc_buf' \in Buffer, KeptRecs(brc_buf'.recs),
           Whole(brc_alloc'), brc_alloc' <= BRC_MAXSIZE, Size(brc_buf') <= brc_alloc',
           Falling(brc_list'),
           \A buf \in user_brc3' : KeptRecs(buf.recs) /\ Size(buf) <= BRC_MAXSIZE,
           at' # "out" /\ brc_alloc' = 0 => user_brc3' = {}
    PROVE  BufferInv'
<1>1. BufferKept'
  BY DEF BufferKept, KeptRecs
<1> QED
  BY <1>1 DEF BufferInv

\* The files of an invariant state.
LEMMA FilesAre ==
    ASSUME IInv
    PROVE  \A buf \in user_brc3 : buf \in Buffer /\ KeptRecs(buf.recs) /\ Size(buf) <= BRC_MAXSIZE
BY DEF IInv, BufferInv, TypeOK

LEMMA EnterBoardStep ==
    ASSUME IInv, NEW b \in Boards, EnterBoard(b)
    PROVE  IInv'
<1> DEFINE B == Updated[1]
           A == Updated[2]
<1>0. /\ at \in {"list", "board"} /\ at' = "board"
      /\ brc_buf' = B /\ brc_alloc' = A
      /\ brc_changed' = IF Dirty THEN FALSE ELSE brc_changed
      /\ seen' = UpdatedSeen
      /\ brc_currbid' = b
      /\ brc_list' = IF b = brc_currbid THEN brc_list ELSE ReadRecord(B, b)
      /\ user_brc3' = user_brc3 /\ brc_expire_time' = brc_expire_time
      /\ watched' = watched /\ newest' = newest
  BY DEF EnterBoard, Update
<1>1. /\ B \in Buffer /\ KeptRecs(B.recs)
      /\ A \in Nat /\ Whole(A) /\ A <= BRC_MAXSIZE /\ Size(B) <= A
      /\ A = 0 => user_brc3 = {}
      /\ UpdatedSeen \subseteq seen
      /\ \A s \in UpdatedSeen : ReadIn(ListOf(B, watched), brc_expire_time, s)
      /\ UpTo(ListOf(B, watched), newest)
      /\ brc_currbid = watched /\ Find(B, watched) # 0 =>
                \A s \in Articles \X Mods : ReadIn(brc_list, brc_expire_time, s) =>
                    ReadIn(ListOf(B, watched), brc_expire_time, s)
      /\ (IF Dirty THEN FALSE ELSE brc_changed) = FALSE
  BY <1>0, UpdatedIs
<1> HIDE DEF B, A
<1>2. brc_changed' = FALSE
  BY <1>0, <1>1
<1>3. /\ brc_list \in Seq(Mark) /\ Falling(brc_list) /\ brc_expire_time \in Nat
      /\ newest \in Nat /\ watched \in Boards /\ seen \subseteq Articles \X Mods
  BY SessionIs
<1>4. TypeOK /\ BoardInv /\ SeenInv /\ NewInv
  BY DEF IInv
<1>5. /\ ListOf(B, b) \in Seq(Mark) /\ Falling(ListOf(B, b))
      /\ (Find(B, b) = 0 <=> ListOf(B, b) = <<>>)
  BY <1>1, ListIs
<1>6. Unvisited \in Seq(Mark) /\ Falling(Unvisited) /\ Unvisited # <<>>
      /\ (newest >= Unread => UpTo(Unvisited, newest))
  <2>1. Rec(Unread, 0) \in Mark /\ Rec(Unread, 0).create = Unread
    BY MarkIs DEF Unread
  <2>2. /\ <<Rec(Unread, 0)>> \in Seq(Mark) /\ Len(<<Rec(Unread, 0)>>) = 1
        /\ <<Rec(Unread, 0)>>[1] = Rec(Unread, 0) /\ <<Rec(Unread, 0)>> # <<>>
    BY <2>1
  <2> QED
    BY <1>3, <2>1, <2>2, ReadMarksAssumption DEF Unvisited, Falling, UpTo, Unread
<1>7. brc_list' \in Seq(Mark) /\ Falling(brc_list') /\ brc_list' # <<>>
  <2>1. CASE b = brc_currbid
    <3>1. brc_currbid # Nobid
      BY <2>1, ReadMarksAssumption
    <3> QED
      BY <1>0, <1>3, <1>4, <2>1, <3>1 DEF BoardInv
  <2>2. CASE b # brc_currbid
    BY <1>0, <1>5, <1>6, <2>2 DEF ReadRecord
  <2> QED
    BY <2>1, <2>2
<1>8. TypeOK'
  <2>1. seen' \subseteq Articles \X Mods /\ \A s, u \in seen' : s = u
    BY <1>0, <1>1, <1>4 DEF TypeOK
  <2> QED
    BY <1>0, <1>1, <1>2, <1>4, <1>7, <2>1 DEF TypeOK
<1>9. BufferInv'
  BY <1>0, <1>1, <1>7, FilesAre, NextBuffer
<1>10. BoardInv'
  <2>1. b # Nobid
    BY ReadMarksAssumption
  <2> QED
    BY <1>0, <1>2, <1>7, <2>1 DEF BoardInv
<1>11. (Here' <=> b = watched) /\ Stored' = B
  BY <1>0 DEF Here, Stored
<1>12. /\ newest >= Unread
       /\ \A s \in seen : brc_currbid = watched => ReadIn(brc_list, brc_expire_time, s)
       /\ brc_currbid = watched => UpTo(brc_list, newest)
  BY <1>0, <1>4 DEF SeenInv, NewInv, Here
<1>13. SeenInv'
  <2>1. ASSUME NEW s \in seen', b = watched PROVE ReadIn(brc_list', brc_expire_time, s)
    <3>0. s \in UpdatedSeen /\ s \in seen
      BY <1>0, <1>1
    <3>1. CASE b = brc_currbid
      BY <1>0, <1>12, <2>1, <3>0, <3>1
    <3>2. CASE b # brc_currbid /\ Find(B, b) # 0
      <4>1. brc_list' = ListOf(B, watched)
        BY <1>0, <2>1, <3>2 DEF ReadRecord
      <4> QED
        BY <1>1, <3>0, <4>1
    <3>3. CASE b # brc_currbid /\ Find(B, b) = 0
      <4>1. ListOf(B, watched) = <<>>
        BY <1>5, <2>1, <3>3
      <4>2. s[1] <= brc_expire_time
        BY <1>1, <3>0, <4>1 DEF ReadIn
      <4> QED
        BY <4>2 DEF ReadIn
    <3> QED
      BY <3>1, <3>2, <3>3
  <2>2. ASSUME b = watched, Find(B, watched) # 0, NEW s \in Articles \X Mods,
               ReadIn(brc_list', brc_expire_time, s)
        PROVE  ReadIn(ListOf(B, watched), brc_expire_time, s)
    <3>1. CASE b = brc_currbid
      BY <1>0, <1>1, <2>2, <3>1
    <3>2. CASE b # brc_currbid
      BY <1>0, <2>2, <3>2 DEF ReadRecord
    <3> QED
      BY <3>1, <3>2
  <2>3. \A s \in seen' : ReadIn(ListOf(B, watched), brc_expire_time, s)
    BY <1>0, <1>1
  <2> QED
    BY <1>0, <1>11, <2>1, <2>2, <2>3 DEF SeenInv
<1>14. NewInv'
  <2>1. ASSUME b = watched PROVE UpTo(brc_list', newest)
    <3>1. CASE b = brc_currbid
      BY <1>0, <1>12, <2>1, <3>1
    <3>2. CASE b # brc_currbid
      BY <1>0, <1>1, <1>6, <1>12, <2>1, <3>2 DEF ReadRecord
    <3> QED
      BY <3>1, <3>2
  <2> QED
    BY <1>0, <1>1, <1>11, <1>12, <2>1 DEF NewInv
<1> QED
  BY <1>8, <1>9, <1>10, <1>13, <1>14 DEF IInv

LEMMA MarkReadStep ==
    ASSUME IInv, NEW t \in Articles, NEW m \in Mods, MarkRead(t, m)
    PROVE  IInv'
<1> DEFINE L == AddTo(brc_list, t, m)[1]
           f == AddTo(brc_list, t, m)[2]
<1>0. /\ at = "board" /\ at' = at
      /\ brc_list' = L /\ brc_changed' = (brc_changed \/ f)
      /\ seen' \in {seen} \cup
            IF (f \/ brc_changed \/ Find(brc_buf, brc_currbid) # 0) /\ brc_currbid = watched
            THEN {{<<t, m>>}} ELSE {}
      /\ newest' = IF brc_currbid = watched /\ t > newest THEN t ELSE newest
      /\ brc_buf' = brc_buf /\ brc_alloc' = brc_alloc
      /\ brc_currbid' = brc_currbid
      /\ user_brc3' = user_brc3 /\ brc_expire_time' = brc_expire_time /\ watched' = watched
  BY DEF MarkRead, buffer
<1>1. /\ brc_buf \in Buffer /\ KeptRecs(brc_buf.recs)
      /\ brc_alloc \in Nat /\ Whole(brc_alloc) /\ brc_alloc <= BRC_MAXSIZE
      /\ Size(brc_buf) <= brc_alloc
      /\ brc_list \in Seq(Mark) /\ Falling(brc_list)
      /\ brc_expire_time \in Nat /\ newest \in Nat /\ watched \in Boards
      /\ seen \subseteq Articles \X Mods
  BY SessionIs
<1>2. t \in Nat /\ m \in Nat \cup {-1} /\ <<t, m>> \in Articles \X Mods
  BY ReadMarksAssumption
<1>3. TypeOK /\ BufferInv /\ BoardInv /\ SeenInv /\ NewInv
  BY DEF IInv
<1>4. brc_list # <<>> /\ brc_currbid # Nobid
  BY <1>0, <1>3 DEF BoardInv
<1>5. Added(brc_list, t, m, L, f) /\ f \in BOOLEAN
  BY <1>1, <1>2, <1>4, AddToIs
<1> HIDE DEF L, f
<1>6. /\ L \in Seq(Mark) /\ L # <<>> /\ Falling(L)
      /\ \A n \in Nat : UpTo(brc_list, n) /\ t <= n => UpTo(L, n)
      /\ ReadIn(L, brc_expire_time, <<t, m>>)
      /\ \A s \in Nat \X (Nat \cup {-1}) :
            /\ ReadIn(brc_list, brc_expire_time, s) => ReadIn(L, brc_expire_time, s)
            /\ ~ f /\ ReadIn(L, brc_expire_time, s) => ReadIn(brc_list, brc_expire_time, s)
  BY <1>1, <1>5 DEF Added
<1>7. /\ Here <=> brc_currbid = watched
      /\ Here' <=> brc_currbid = watched
      /\ Stored = brc_buf /\ Stored' = brc_buf
  BY <1>0 DEF Here, Stored
<1>8. /\ \A s \in seen : Here => ReadIn(brc_list, brc_expire_time, s)
      /\ \A s \in seen : ~ (Here /\ brc_changed) =>
                ReadIn(ListOf(brc_buf, watched), brc_expire_time, s)
      /\ Here /\ ~ brc_changed /\ Find(brc_buf, watched) # 0 =>
            \A s \in Articles \X Mods : ReadIn(brc_list, brc_expire_time, s) =>
                ReadIn(ListOf(brc_buf, watched), brc_expire_time, s)
      /\ newest >= Unread
      /\ Here => UpTo(brc_list, newest)
      /\ UpTo(ListOf(brc_buf, watched), newest)
  BY <1>3, <1>7 DEF SeenInv, NewInv
<1>9. \/ seen' = seen
      \/ /\ f \/ brc_changed \/ Find(brc_buf, brc_currbid) # 0
         /\ brc_currbid = watched
         /\ seen' = {<<t, m>>}
  BY <1>0
<1>10. newest' \in Nat /\ newest' >= newest /\ (brc_currbid = watched => t <= newest')
  BY <1>0, <1>1, <1>2
<1>11. TypeOK'
  <2>1. seen' \subseteq Articles \X Mods /\ \A s, u \in seen' : s = u
    BY <1>1, <1>2, <1>3, <1>9 DEF TypeOK
  <2>2. brc_changed' \in BOOLEAN
    BY <1>0, <1>3, <1>5 DEF TypeOK
  <2> QED
    BY <1>0, <1>3, <1>6, <1>10, <2>1, <2>2 DEF TypeOK
<1>12. BufferInv'
  <2>1. brc_alloc' = 0 => user_brc3' = {}
    BY <1>0, <1>3 DEF BufferInv
  <2> QED
    BY <1>0, <1>1, <1>6, <2>1, FilesAre, NextBuffer
<1>13. BoardInv'
  BY <1>0, <1>4, <1>6 DEF BoardInv
<1>14. SeenInv'
  <2>1. ASSUME NEW s \in seen', brc_currbid = watched
        PROVE  ReadIn(L, brc_expire_time, s)
    <3>1. CASE s = <<t, m>>
      BY <1>6, <3>1
    <3>2. CASE s \in seen
      <4>1. s \in Nat \X (Nat \cup {-1})
        BY <1>1, <3>2, TheArticles
      <4>2. ReadIn(brc_list, brc_expire_time, s)
        BY <1>7, <1>8, <2>1, <3>2
      <4> QED
        BY <1>6, <4>1, <4>2
    <3> QED
      BY <1>9, <3>1, <3>2
  <2>2. ASSUME NEW s \in seen', ~ (brc_currbid = watched /\ (brc_changed \/ f))
        PROVE  ReadIn(ListOf(brc_buf, watched), brc_expire_time, s)
    <3>1. CASE s \in seen
      BY <1>7, <1>8, <2>2, <3>1
    <3>2. CASE s \notin seen
      <4>1. s = <<t, m>> /\ brc_currbid = watched /\ ~ f /\ ~ brc_changed
            /\ Find(brc_buf, watched) # 0
        BY <1>9, <2>2, <3>2
      <4>2. s \in Articles \X Mods /\ s \in Nat \X (Nat \cup {-1})
        BY <1>2, <4>1
      <4>3. ReadIn(brc_list, brc_expire_time, s)
        BY <1>6, <4>1, <4>2
      <4> QED
        BY <1>7, <1>8, <4>1, <4>2, <4>3
    <3> QED
      BY <3>1, <3>2
  <2>3. ASSUME brc_currbid = watched, ~ (brc_changed \/ f), Find(brc_buf, watched) # 0,
               NEW s \in Articles \X Mods, ReadIn(L, brc_expire_time, s)
        PROVE  ReadIn(ListOf(brc_buf, watched), brc_expire_time, s)
    <3>1. s \in Nat \X (Nat \cup {-1})
      BY TheArticles
    <3>2. ReadIn(brc_list, brc_expire_time, s)
      BY <1>6, <2>3, <3>1
    <3> QED
      BY <1>7, <1>8, <2>3, <3>2
  <2> QED
    BY <1>0, <1>7, <2>1, <2>2, <2>3 DEF SeenInv
<1>15. NewInv'
  <2>1. brc_currbid = watched => UpTo(L, newest')
    <3>1. \A list : UpTo(list, newest) /\ list \in Seq(Mark) => UpTo(list, newest')
      <4> SUFFICES ASSUME NEW list \in Seq(Mark), UpTo(list, newest) PROVE UpTo(list, newest')
        OBVIOUS
      <4>1. \A i \in 1..Len(list) : list[i].create \in Nat
        BY MarksIn
      <4> QED
        BY <1>1, <1>10, <4>1 DEF UpTo
    <3> QED
      BY <1>1, <1>6, <1>7, <1>8, <1>10, <3>1
  <2>2. UpTo(ListOf(brc_buf, watched), newest')
    <3>1. ListOf(brc_buf, watched) \in Seq(Mark)
      BY <1>1, ListIs
    <3>2. \A i \in 1..Len(ListOf(brc_buf, watched)) : ListOf(brc_buf, watched)[i].create \in Nat
      BY <3>1, MarksIn
    <3> QED
      BY <1>1, <1>8, <1>10, <3>2 DEF UpTo
  <2>3. newest' >= Unread
    BY <1>1, <1>8, <1>10 DEF Unread
  <2> QED
    BY <1>0, <1>7, <2>1, <2>2, <2>3 DEF NewInv
<1> QED
  BY <1>11, <1>12, <1>13, <1>14, <1>15 DEF IInv

\* brc_trunc, for the board the user is in or one in the list of boards.
LEMMA TruncateStep ==
    ASSUME IInv, NEW b \in Boards, NEW t \in Nat, t >= Unread, Truncate(b, t),
           at = "list" \/ (at = "board" /\ b = brc_currbid)
    PROVE  IInv'
<1> DEFINE list == <<Rec(t, t)>>
           B == Insert(brc_buf, brc_alloc, b, list, brc_expire_time)[1]
           A == Insert(brc_buf, brc_alloc, b, list, brc_expire_time)[2]
           T == Trim(list, brc_expire_time)
<1>0. /\ at' = at /\ brc_buf' = B /\ brc_alloc' = A
      /\ brc_list' = IF b = brc_currbid THEN list ELSE brc_list
      /\ brc_changed' = FALSE
      /\ seen' = {s \in Remembered(b, list) : b # watched \/ s[1] < t}
      /\ newest' = IF b = watched THEN t ELSE newest
      /\ user_brc3' = user_brc3 /\ brc_expire_time' = brc_expire_time
      /\ brc_currbid' = brc_currbid /\ watched' = watched
  BY DEF Truncate
<1>1. /\ brc_buf \in Buffer /\ KeptRecs(brc_buf.recs)
      /\ brc_alloc \in Nat /\ Whole(brc_alloc) /\ brc_alloc <= BRC_MAXSIZE
      /\ Size(brc_buf) <= brc_alloc
      /\ brc_list \in Seq(Mark) /\ Falling(brc_list)
      /\ brc_expire_time \in Nat /\ newest \in Nat /\ watched \in Boards
      /\ seen \subseteq Articles \X Mods
  BY SessionIs
<1>2. TypeOK /\ BufferInv /\ BoardInv /\ SeenInv /\ NewInv
  BY DEF IInv
<1>3. /\ list \in Seq(Mark) /\ Falling(list) /\ list # <<>> /\ Len(list) = 1
      /\ list[1].create = t
  <2>1. Rec(t, t) \in Mark /\ Rec(t, t).create = t
    BY MarkIs
  <2>2. list \in Seq(Mark) /\ Len(list) = 1 /\ list[1] = Rec(t, t) /\ list # <<>>
    BY <2>1
  <2> HIDE DEF list
  <2> QED
    BY <2>1, <2>2, ReadMarksAssumption DEF Falling
<1>4. /\ Remembered(b, list) \subseteq seen
      /\ Remembered(b, list) # {} =>
            ListOf(B, watched) = IF watched = b THEN T ELSE ListOf(brc_buf, watched)
  BY <1>1, <1>3, RememberedIs
<1>5. Kept(brc_buf, brc_alloc, b, list, brc_expire_time, B, A)
  BY <1>1, <1>3, InsertIs
<1>6. /\ T \in Seq(Mark) /\ \A n \in Nat : UpTo(list, n) => UpTo(T, n)
      /\ \A s \in Nat \X Int : ReadIn(list, brc_expire_time, s) => ReadIn(T, brc_expire_time, s)
  BY <1>1, <1>3, TrimKeeps
<1>7. LET L == IF watched = b THEN T ELSE ListOf(brc_buf, watched) IN
      /\ ListOf(B, watched) = L \/ ListOf(B, watched) = <<>>
      /\ Find(B, watched) # 0 => ListOf(B, watched) = L
  BY <1>5 DEF Kept
<1>8. /\ B \in Buffer /\ KeptRecs(B.recs)
      /\ A \in Nat /\ Whole(A) /\ A <= BRC_MAXSIZE /\ Size(B) <= A /\ brc_alloc <= A
  BY <1>5 DEF Kept
<1> HIDE DEF B, A, T, list
<1>9. UpTo(list, t) /\ \A s : s[1] < t => ReadIn(list, brc_expire_time, s)
  BY <1>3 DEF UpTo, ReadIn
<1>10. at # "out" /\ (at = "board" => brc_currbid = b) /\ (brc_changed => at = "board")
  BY <1>2 DEF BoardInv
<1>11. /\ Here <=> brc_currbid = watched
       /\ Here' <=> brc_currbid = watched
       /\ Stored = brc_buf /\ Stored' = B
  BY <1>0, <1>10 DEF Here, Stored
<1>12. /\ \A s \in seen : Here => ReadIn(brc_list, brc_expire_time, s)
       /\ \A s \in seen : ~ (Here /\ brc_changed) =>
                 ReadIn(ListOf(brc_buf, watched), brc_expire_time, s)
       /\ Here /\ ~ brc_changed /\ Find(brc_buf, watched) # 0 =>
             \A s \in Articles \X Mods : ReadIn(brc_list, brc_expire_time, s) =>
                 ReadIn(ListOf(brc_buf, watched), brc_expire_time, s)
       /\ newest >= Unread
       /\ Here => UpTo(brc_list, newest)
       /\ UpTo(ListOf(brc_buf, watched), newest)
  BY <1>2, <1>11 DEF SeenInv, NewInv
<1>13. seen' \subseteq seen /\ \A s \in seen' :
            /\ b = watched => s[1] < t
            /\ ListOf(B, watched) = IF watched = b THEN T ELSE ListOf(brc_buf, watched)
  BY <1>0, <1>4
<1>14. brc_list' \in Seq(Mark) /\ Falling(brc_list')
       /\ (brc_currbid # Nobid <=> brc_list' # <<>>)
  <2>1. CASE b = brc_currbid
    BY <1>0, <1>3, <2>1, ReadMarksAssumption
  <2>2. CASE b # brc_currbid
    BY <1>0, <1>1, <1>2, <2>2 DEF BoardInv
  <2> QED
    BY <2>1, <2>2
<1>15. TypeOK'
  <2>1. seen' \subseteq Articles \X Mods /\ \A s, u \in seen' : s = u
    BY <1>1, <1>2, <1>13 DEF TypeOK
  <2>2. newest' \in Nat
    BY <1>0, <1>1
  <2> QED
    BY <1>0, <1>2, <1>8, <1>14, <2>1, <2>2 DEF TypeOK
<1>16. BufferInv'
  <2>1. A = 0 => user_brc3 = {}
    BY <1>1, <1>2, <1>8, <1>10 DEF BufferInv
  <2> QED
    BY <1>0, <1>8, <1>14, <2>1, FilesAre, NextBuffer
<1>17. BoardInv'
  BY <1>0, <1>2, <1>14 DEF BoardInv
<1>18. SeenInv'
  <2>1. ASSUME NEW s \in seen', brc_currbid = watched
        PROVE  ReadIn(brc_list', brc_expire_time, s)
    <3>1. CASE b = watched
      BY <1>0, <1>9, <1>13, <2>1, <3>1
    <3>2. CASE b # watched
      BY <1>0, <1>11, <1>12, <1>13, <2>1, <3>2
    <3> QED
      BY <3>1, <3>2
  <2>2. ASSUME NEW s \in seen' PROVE ReadIn(ListOf(B, watched), brc_expire_time, s)
    <3>0. s \in seen /\ s \in Nat \X Int
      BY <1>1, <1>13, TheArticles
    <3>1. CASE b = watched
      <4>1. ReadIn(list, brc_expire_time, s)
        BY <1>9, <1>13, <3>1
      <4>2. ReadIn(T, brc_expire_time, s)
        BY <1>6, <3>0, <4>1
      <4> QED
        BY <1>13, <3>1, <4>2
    <3>2. CASE b # watched
      <4>1. ~ (Here /\ brc_changed)
        BY <1>10, <1>11, <3>2
      <4>2. ReadIn(ListOf(brc_buf, watched), brc_expire_time, s)
        BY <1>12, <3>0, <4>1
      <4> QED
        BY <1>13, <3>2, <4>2
    <3> QED
      BY <3>1, <3>2
  <2>3. ASSUME brc_currbid = watched, Find(B, watched) # 0,
               NEW s \in Articles \X Mods, ReadIn(brc_list', brc_expire_time, s)
        PROVE  ReadIn(ListOf(B, watched), brc_expire_time, s)
    <3>0. s \in Nat \X Int
      BY TheArticles
    <3>1. CASE b = watched
      <4>1. ListOf(B, watched) = T
        BY <1>7, <2>3, <3>1
      <4>2. brc_list' = list
        BY <1>0, <2>3, <3>1
      <4> QED
        BY <1>6, <2>3, <3>0, <4>1, <4>2
    <3>2. CASE b # watched
      <4>1. ListOf(B, watched) = ListOf(brc_buf, watched) /\ brc_list' = brc_list
        BY <1>0, <1>7, <2>3, <3>2
      <4>2. ~ brc_changed
        BY <1>10, <2>3, <3>2
      <4>3. Find(brc_buf, watched) # 0
        <5>1. Find(B, watched) = 0 <=> ListOf(B, watched) = <<>>
          BY <1>8, ListIs
        <5>2. Find(brc_buf, watched) = 0 <=> ListOf(brc_buf, watched) = <<>>
          BY <1>1, ListIs
        <5> QED
          BY <2>3, <4>1, <5>1, <5>2
      <4> QED
        BY <1>11, <1>12, <2>3, <4>1, <4>2, <4>3
    <3> QED
      BY <3>1, <3>2
  <2> QED
    BY <1>0, <1>11, <2>1, <2>2, <2>3 DEF SeenInv
<1>19. NewInv'
  <2>1. newest' >= Unread
    BY <1>0, <1>12
  <2>2. ASSUME brc_currbid = watched PROVE UpTo(brc_list', newest')
    <3>1. CASE b = watched
      BY <1>0, <1>9, <2>2, <3>1
    <3>2. CASE b # watched
      BY <1>0, <1>11, <1>12, <2>2, <3>2
    <3> QED
      BY <3>1, <3>2
  <2>3. UpTo(ListOf(B, watched), newest')
    <3>1. newest' \in Nat
      BY <1>0, <1>1
    <3>2. CASE b = watched
      BY <1>0, <1>6, <1>7, <1>9, <3>1, <3>2, NoMarks
    <3>3. CASE b # watched
      BY <1>0, <1>7, <1>12, <3>1, <3>3, NoMarks
    <3> QED
      BY <3>2, <3>3
  <2> QED
    BY <1>0, <1>11, <2>1, <2>2, <2>3 DEF NewInv
<1> QED
  BY <1>15, <1>16, <1>17, <1>18, <1>19 DEF IInv

LEMMA MarkBoardStep ==
    ASSUME IInv, MarkBoard
    PROVE  IInv'
<1>1. PICK t \in Articles \cup {Unread, Now} : Truncate(brc_currbid, t)
  BY DEF MarkBoard
<1>2. t \in Nat /\ t >= Unread
  <2>1. \A e \in Expires : Unread < e /\ e < Now /\ e \in Nat
    BY ReadMarksAssumption
  <2>2. Now \in Nat /\ Unread < Now
    BY <2>1, ReadMarksAssumption DEF IInv, TypeOK, Unread
  <2> QED
    BY <2>2, ReadMarksAssumption DEF Unread
<1>3. at = "board" /\ brc_currbid \in Boards
  BY DEF MarkBoard, IInv, TypeOK, BoardInv
<1> QED
  BY <1>1, <1>2, <1>3, TruncateStep

LEMMA MarkInListStep ==
    ASSUME IInv, NEW b \in Boards, MarkInList(b)
    PROVE  IInv'
<1>1. PICK t \in {Unread, Now} : Truncate(b, t)
  BY DEF MarkInList
<1>2. t \in Nat /\ t >= Unread
  <2>1. \A e \in Expires : Unread < e /\ e < Now /\ e \in Nat
    BY ReadMarksAssumption
  <2>2. Now \in Nat /\ Unread < Now
    BY <2>1, ReadMarksAssumption DEF IInv, TypeOK, Unread
  <2> QED
    BY <2>2 DEF Unread
<1>3. at = "list"
  BY DEF MarkInList
<1> QED
  BY <1>1, <1>2, <1>3, TruncateStep

\* A session without a buffer.
LEMMA EmptyIs ==
    /\ EmptyBuf \in Buffer /\ KeptRecs(EmptyBuf.recs) /\ Size(EmptyBuf) = 0
    /\ Whole(0)
    /\ \A buf \in Buffer : KeptRecs(buf.recs) /\ Size(buf) <= 0 =>
            \A b : ListOf(buf, b) = <<>>
<1>1. EmptyBuf.recs = <<>> /\ EmptyBuf.tail = 0
  BY DEF EmptyBuf
<1>2. <<>> \in Seq(BoardRec) /\ Len(<<>>) = 0
  BY EmptySeq
<1>3. EmptyBuf \in Buffer
  BY <1>2 DEF EmptyBuf, Buffer, BoardRec
<1>4. BytesOf(<<>>) = 0 /\ KeptRecs(<<>>)
  BY <1>2, NoBytes
<1>5. Size(EmptyBuf) = 0
  BY <1>1, <1>4 DEF Size
<1>6. Whole(0)
  <2>1. 0 = 0 * BRC_BLOCKSIZE
    BY ReadMarksAssumption
  <2> QED
    BY <2>1 DEF Whole
<1>7. ASSUME NEW buf \in Buffer, KeptRecs(buf.recs), Size(buf) <= 0, NEW b
      PROVE  ListOf(buf, b) = <<>>
  <2>1. buf.recs \in Seq(BoardRec) /\ buf.tail \in Nat /\ Len(buf.recs) \in Nat
    BY BufferIs, RecsIn
  <2>2. /\ Cardinality(Places(buf.recs)) \in Nat
        /\ BytesOf(buf.recs) = 6 * Len(buf.recs) + 8 * Cardinality(Places(buf.recs))
    BY <1>7, <2>1, BytesAre
  <2>3. Len(buf.recs) = 0
    BY <1>7, <2>1, <2>2 DEF Size
  <2>4. Find(buf, b) = 0
    <3>1. ~ \E i \in 1..Len(buf.recs) : TRUE
      BY <2>3
    <3> QED
      BY <1>7, <3>1, ListIs
  <2> QED
    BY <1>7, <2>4, ListIs
<1> QED
  BY <1>1, <1>3, <1>4, <1>5, <1>6, <1>7

\* What a session holds that has read .brc3.
LoadedFrom(file, B, A) ==
    /\ B \in Buffer /\ KeptRecs(B.recs)
    /\ A \in Nat /\ Whole(A) /\ A <= BRC_MAXSIZE /\ Size(B) <= A
    /\ A = 0 => file = {}
    /\ file = {} => B = EmptyBuf
    /\ \A buf \in file : B = buf

LEMMA LoadedIs ==
    ASSUME NEW file \in SUBSET Buffer, \A f, g \in file : f = g,
           \A buf \in file : KeptRecs(buf.recs) /\ Size(buf) <= BRC_MAXSIZE
    PROVE  LoadedFrom(file, Loaded(file)[1], Loaded(file)[2])
<1>1. CASE file = {}
  <2>1. Loaded(file) = <<EmptyBuf, 0>>
    BY <1>1 DEF Loaded
  <2>2. Loaded(file)[1] = EmptyBuf /\ Loaded(file)[2] = 0
    BY <2>1
  <2> QED
    BY <1>1, <2>2, EmptyIs, ReadMarksAssumption DEF LoadedFrom
<1>2. CASE file # {}
  <2> DEFINE B == CHOOSE buf \in file : TRUE
  <2>1. B \in file
    BY <1>2
  <2>2. Loaded(file) = <<B, Allocated(Size(B))>>
    BY <1>2 DEF Loaded
  <2> HIDE DEF B
  <2>3. Loaded(file)[1] = B /\ Loaded(file)[2] = Allocated(Size(B))
    BY <2>2
  <2>4. B \in Buffer /\ KeptRecs(B.recs) /\ Size(B) <= BRC_MAXSIZE
    BY <2>1
  <2>5. Size(B) \in Nat
    <3>1. B.recs \in Seq(BoardRec) /\ B.tail \in Nat
      BY <2>4, BufferIs
    <3>2. BytesOf(B.recs) \in Nat
      BY <2>4, <3>1, BytesAre
    <3> QED
      BY <3>1, <3>2 DEF Size
  <2>6. /\ Allocated(Size(B)) \in Nat \ {0} /\ Whole(Allocated(Size(B)))
        /\ Size(B) <= Allocated(Size(B)) /\ Allocated(Size(B)) <= BRC_MAXSIZE
    BY <2>4, <2>5, AllocatedIs
  <2> QED
    BY <1>2, <2>1, <2>3, <2>4, <2>6 DEF LoadedFrom
<1> QED
  BY <1>1, <1>2

\* brc_finalize: what is in .brc3, and in the next buffer, shows what the last
\* buffer did.
LEMMA SavedIs ==
    ASSUME IInv, at # "out"
    PROVE  /\ Saved \in SUBSET Buffer /\ \A f, g \in Saved : f = g
           /\ \A buf \in Saved : KeptRecs(buf.recs) /\ Size(buf) <= BRC_MAXSIZE
           /\ LoadedFrom(Saved, Loaded(Saved)[1], Loaded(Saved)[2])
           /\ \A b : ListOf(Loaded(Saved)[1], b) = ListOf(Updated[1], b)
<1> DEFINE B == Updated[1]
           A == Updated[2]
<1>1. /\ B \in Buffer /\ KeptRecs(B.recs)
      /\ A \in Nat /\ Whole(A) /\ A <= BRC_MAXSIZE /\ Size(B) <= A
      /\ A = 0 => user_brc3 = {}
  BY UpdatedIs
<1>2. Saved = IF A = 0 THEN user_brc3 ELSE {B}
  BY DEF Saved
<1>3. Size(B) <= BRC_MAXSIZE
  <2>1. B.recs \in Seq(BoardRec) /\ B.tail \in Nat
    BY <1>1, BufferIs
  <2>2. BytesOf(B.recs) \in Nat
    BY <1>1, <2>1, BytesAre
  <2>3. Size(B) \in Nat
    BY <2>1, <2>2 DEF Size
  <2> HIDE DEF A, B
  <2> QED
    BY <1>1, <2>3, ReadMarksAssumption
<1> HIDE DEF A, B
<1>4. /\ Saved \in SUBSET Buffer /\ \A f, g \in Saved : f = g
      /\ \A buf \in Saved : KeptRecs(buf.recs) /\ Size(buf) <= BRC_MAXSIZE
  BY <1>1, <1>2, <1>3
<1>5. LoadedFrom(Saved, Loaded(Saved)[1], Loaded(Saved)[2])
  BY <1>4, LoadedIs
<1>6. \A b : ListOf(Loaded(Saved)[1], b) = ListOf(B, b)
  <2>1. CASE A = 0
    <3>1. Saved = {} /\ Size(B) <= 0
      BY <1>1, <1>2, <2>1
    <3>2. Loaded(Saved)[1] = EmptyBuf
      BY <1>5, <3>1 DEF LoadedFrom
    <3>3. \A b : ListOf(EmptyBuf, b) = <<>>
      BY EmptyIs
    <3>4. \A b : ListOf(B, b) = <<>>
      BY <1>1, <3>1, EmptyIs
    <3> QED
      BY <3>2, <3>3, <3>4
  <2>2. CASE A # 0
    BY <1>2, <1>5, <2>2 DEF LoadedFrom
  <2> QED
    BY <2>1, <2>2
<1> QED
  BY <1>4, <1>5, <1>6 DEF B

LEMMA LeaveBoardStep ==
    ASSUME IInv, LeaveBoard
    PROVE  IInv'
<1> DEFINE B == Updated[1]
           A == Updated[2]
<1>0. /\ at = "board" /\ at' = "list"
      /\ brc_buf' = B /\ brc_alloc' = A
      /\ brc_changed' = IF Dirty THEN FALSE ELSE brc_changed
      /\ seen' = UpdatedSeen
      /\ brc_currbid' = brc_currbid /\ brc_list' = brc_list
      /\ user_brc3' = user_brc3 /\ brc_expire_time' = brc_expire_time
      /\ watched' = watched /\ newest' = newest
  BY DEF LeaveBoard, Update
<1>1. /\ B \in Buffer /\ KeptRecs(B.recs)
      /\ A \in Nat /\ Whole(A) /\ A <= BRC_MAXSIZE /\ Size(B) <= A
      /\ A = 0 => user_brc3 = {}
      /\ UpdatedSeen \subseteq seen
      /\ \A s \in UpdatedSeen : ReadIn(ListOf(B, watched), brc_expire_time, s)
      /\ UpTo(ListOf(B, watched), newest)
      /\ brc_currbid = watched /\ Find(B, watched) # 0 =>
                \A s \in Articles \X Mods : ReadIn(brc_list, brc_expire_time, s) =>
                    ReadIn(ListOf(B, watched), brc_expire_time, s)
      /\ (IF Dirty THEN FALSE ELSE brc_changed) = FALSE
  BY <1>0, UpdatedIs
<1> HIDE DEF B, A
<1>2. brc_changed' = FALSE
  BY <1>0, <1>1
<1>3. TypeOK /\ BoardInv /\ SeenInv /\ NewInv /\ Falling(brc_list)
  BY SessionIs DEF IInv
<1>4. TypeOK'
  <2>1. seen' \subseteq Articles \X Mods /\ \A s, u \in seen' : s = u
    BY <1>0, <1>1, <1>3 DEF TypeOK
  <2> QED
    BY <1>0, <1>1, <1>2, <1>3, <2>1 DEF TypeOK
<1>5. BufferInv'
  BY <1>0, <1>1, <1>3, FilesAre, NextBuffer
<1>6. BoardInv'
  BY <1>0, <1>2, <1>3 DEF BoardInv
<1>7. (Here <=> brc_currbid = watched) /\ (Here' <=> brc_currbid = watched) /\ Stored' = B
  BY <1>0 DEF Here, Stored
<1>8. SeenInv'
  <2>1. \A s \in seen : Here => ReadIn(brc_list, brc_expire_time, s)
    BY <1>3 DEF SeenInv
  <2>2. \A s \in seen' : s \in seen /\ ReadIn(ListOf(B, watched), brc_expire_time, s)
    BY <1>0, <1>1
  <2> QED
    BY <1>0, <1>1, <1>7, <2>1, <2>2 DEF SeenInv
<1>9. NewInv'
  BY <1>0, <1>1, <1>3, <1>7 DEF NewInv
<1> QED
  BY <1>4, <1>5, <1>6, <1>8, <1>9 DEF IInv

LEMMA SaveMarksStep ==
    ASSUME IInv, SaveMarks
    PROVE  IInv'
<1> DEFINE B == Loaded(Saved)[1]
           A == Loaded(Saved)[2]
<1>0. /\ at = "list" /\ at' = at
      /\ user_brc3' = Saved /\ brc_buf' = B /\ brc_alloc' = A
      /\ brc_changed' = FALSE
      /\ seen' = UpdatedSeen
      /\ brc_currbid' = brc_currbid /\ brc_list' = brc_list
      /\ brc_expire_time' = brc_expire_time /\ watched' = watched /\ newest' = newest
  BY DEF SaveMarks
<1>1. /\ UpdatedSeen \subseteq seen
      /\ \A s \in UpdatedSeen : ReadIn(ListOf(Updated[1], watched), brc_expire_time, s)
      /\ UpTo(ListOf(Updated[1], watched), newest)
      /\ brc_currbid = watched /\ Find(Updated[1], watched) # 0 =>
                \A s \in Articles \X Mods : ReadIn(brc_list, brc_expire_time, s) =>
                    ReadIn(ListOf(Updated[1], watched), brc_expire_time, s)
      /\ Updated[1] \in Buffer /\ KeptRecs(Updated[1].recs)
  BY <1>0, UpdatedIs
<1>2. /\ Saved \in SUBSET Buffer /\ \A f, g \in Saved : f = g
      /\ \A buf \in Saved : KeptRecs(buf.recs) /\ Size(buf) <= BRC_MAXSIZE
      /\ LoadedFrom(Saved, B, A)
      /\ \A b : ListOf(B, b) = ListOf(Updated[1], b)
  BY <1>0, SavedIs
<1> HIDE DEF B, A
<1>3. /\ B \in Buffer /\ KeptRecs(B.recs)
      /\ A \in Nat /\ Whole(A) /\ A <= BRC_MAXSIZE /\ Size(B) <= A
      /\ A = 0 => Saved = {}
  BY <1>2 DEF LoadedFrom
<1>4. TypeOK /\ BoardInv /\ SeenInv /\ NewInv /\ Falling(brc_list)
  BY SessionIs DEF IInv
<1>5. TypeOK'
  <2>1. seen' \subseteq Articles \X Mods /\ \A s, u \in seen' : s = u
    BY <1>0, <1>1, <1>4 DEF TypeOK
  <2> QED
    BY <1>0, <1>2, <1>3, <1>4, <2>1 DEF TypeOK
<1>6. BufferInv'
  BY <1>0, <1>2, <1>3, <1>4, NextBuffer
<1>7. BoardInv'
  BY <1>0, <1>4 DEF BoardInv
<1>8. (Here <=> brc_currbid = watched) /\ (Here' <=> brc_currbid = watched) /\ Stored' = B
  BY <1>0 DEF Here, Stored
<1>9. SeenInv'
  <2>1. \A s \in seen : Here => ReadIn(brc_list, brc_expire_time, s)
    BY <1>4 DEF SeenInv
  <2>2. \A s \in seen' : s \in seen /\ ReadIn(ListOf(B, watched), brc_expire_time, s)
    BY <1>0, <1>1, <1>2
  <2>3. Find(B, watched) # 0 => Find(Updated[1], watched) # 0
    <3>1. Find(B, watched) = 0 <=> ListOf(B, watched) = <<>>
      BY <1>3, ListIs
    <3>2. Find(Updated[1], watched) = 0 <=> ListOf(Updated[1], watched) = <<>>
      BY <1>1, ListIs
    <3> QED
      BY <1>2, <3>1, <3>2
  <2> QED
    BY <1>0, <1>1, <1>2, <1>8, <2>1, <2>2, <2>3 DEF SeenInv
<1>10. NewInv'
  BY <1>0, <1>1, <1>2, <1>4, <1>8 DEF NewInv
<1> QED
  BY <1>5, <1>6, <1>7, <1>9, <1>10 DEF IInv

LEMMA LogoutStep ==
    ASSUME IInv, Logout
    PROVE  IInv'
<1>0. /\ at \in {"list", "board"} /\ at' = "out"
      /\ user_brc3' = Saved /\ brc_buf' = EmptyBuf /\ brc_alloc' = 0
      /\ brc_changed' = FALSE /\ brc_currbid' = Nobid /\ brc_list' = <<>>
      /\ seen' = UpdatedSeen
      /\ brc_expire_time' = brc_expire_time /\ watched' = watched /\ newest' = newest
  BY DEF Logout
<1>1. /\ UpdatedSeen \subseteq seen
      /\ \A s \in UpdatedSeen : ReadIn(ListOf(Updated[1], watched), brc_expire_time, s)
      /\ UpTo(ListOf(Updated[1], watched), newest)
  BY <1>0, UpdatedIs
<1>2. /\ Saved \in SUBSET Buffer /\ \A f, g \in Saved : f = g
      /\ \A buf \in Saved : KeptRecs(buf.recs) /\ Size(buf) <= BRC_MAXSIZE
      /\ \A b : ListOf(Loaded(Saved)[1], b) = ListOf(Updated[1], b)
  BY <1>0, SavedIs
<1>3. TypeOK /\ SeenInv /\ NewInv
  BY DEF IInv
<1>4. TypeOK'
  <2>1. seen' \subseteq Articles \X Mods /\ \A s, u \in seen' : s = u
    BY <1>0, <1>1, <1>3 DEF TypeOK
  <2> QED
    BY <1>0, <1>2, <1>3, <2>1, EmptyIs, NoMarks DEF TypeOK
<1>5. BufferInv'
  <2>1. BRC_MAXSIZE \in Nat
    BY ReadMarksAssumption
  <2> QED
    BY <1>0, <1>2, <2>1, EmptyIs, NoMarks, NextBuffer
<1>6. BoardInv'
  BY <1>0 DEF BoardInv
<1>7. ~ Here' /\ Stored' = Loaded(Saved)[1]
  BY <1>0 DEF Here, Stored
<1>8. SeenInv'
  BY <1>0, <1>1, <1>2, <1>7 DEF SeenInv
<1>9. NewInv'
  BY <1>0, <1>1, <1>2, <1>3, <1>7 DEF NewInv
<1> QED
  BY <1>4, <1>5, <1>6, <1>8, <1>9 DEF IInv

LEMMA LoginStep ==
    ASSUME IInv, Login
    PROVE  IInv'
<1> DEFINE B == Loaded(user_brc3)[1]
           A == Loaded(user_brc3)[2]
<1>0. /\ at = "out" /\ at' = "list"
      /\ brc_expire_time' \in Expires /\ brc_expire_time' >= brc_expire_time
      /\ brc_buf' = B /\ brc_alloc' = A
      /\ brc_changed' = brc_changed /\ brc_currbid' = brc_currbid /\ brc_list' = brc_list
      /\ user_brc3' = user_brc3
      /\ watched' = watched /\ seen' = seen /\ newest' = newest
  BY DEF Login, current, history
<1>1. TypeOK /\ BoardInv /\ SeenInv /\ NewInv /\ Falling(brc_list)
      /\ brc_expire_time \in Nat /\ seen \subseteq Articles \X Mods /\ watched \in Boards
  BY SessionIs DEF IInv
<1>2. user_brc3 \in SUBSET Buffer /\ \A f, g \in user_brc3 : f = g
      /\ \A buf \in user_brc3 : KeptRecs(buf.recs) /\ Size(buf) <= BRC_MAXSIZE
  BY <1>1, FilesAre DEF TypeOK
<1>3. LoadedFrom(user_brc3, B, A)
  BY <1>2, LoadedIs
<1>4. ~ Here /\ Stored = B
  <2>1. brc_currbid = Nobid /\ at = "out"
    BY <1>0, <1>1 DEF BoardInv
  <2> QED
    BY <2>1 DEF Here, Stored
<1>5. ~ Here' /\ Stored' = B
  <2>1. brc_currbid' = Nobid /\ watched' \in Boards
    BY <1>0, <1>1 DEF BoardInv
  <2>2. brc_currbid' # watched'
    BY <2>1, ReadMarksAssumption
  <2> QED
    BY <1>0, <2>2 DEF Here, Stored
<1> HIDE DEF B, A
<1>6. /\ B \in Buffer /\ KeptRecs(B.recs)
      /\ A \in Nat /\ Whole(A) /\ A <= BRC_MAXSIZE /\ Size(B) <= A
      /\ A = 0 => user_brc3 = {}
  BY <1>3 DEF LoadedFrom
<1>7. TypeOK'
  BY <1>0, <1>1, <1>6 DEF TypeOK
<1>8. BufferInv'
  BY <1>0, <1>1, <1>2, <1>6, NextBuffer
<1>9. BoardInv'
  BY <1>0, <1>1 DEF BoardInv
<1>10. SeenInv'
  <2>1. ASSUME NEW s \in seen PROVE ReadIn(ListOf(B, watched), brc_expire_time', s)
    <3>1. ReadIn(ListOf(B, watched), brc_expire_time, s)
      BY <1>1, <1>4, <2>1 DEF SeenInv
    <3>2. s[1] \in Nat
      BY <1>1, TheArticles
    <3>3. brc_expire_time' \in Nat
      BY <1>0, ReadMarksAssumption
    <3>4. s[1] <= brc_expire_time => s[1] <= brc_expire_time'
      BY <1>0, <1>1, <3>2, <3>3
    <3> QED
      BY <3>1, <3>4 DEF ReadIn
  <2> QED
    BY <1>0, <1>5, <2>1 DEF SeenInv
<1>11. NewInv'
  BY <1>0, <1>1, <1>4, <1>5 DEF NewInv
<1> QED
  BY <1>7, <1>8, <1>9, <1>10, <1>11 DEF IInv

-----------------------------------------------------------------------------
(* The invariant holds, and what follows from it                           *)

LEMMA InitInv == Init => IInv
<1> SUFFICES ASSUME Init PROVE IInv
  OBVIOUS
<1>0. /\ brc_buf = EmptyBuf /\ brc_alloc = 0 /\ user_brc3 = {}
      /\ brc_expire_time \in Expires
      /\ brc_changed = FALSE /\ brc_currbid = Nobid /\ brc_list = <<>>
      /\ at = "list"
      /\ watched \in Boards /\ seen = {} /\ newest = Unread
  BY DEF Init
<1>1. TypeOK
  BY <1>0, EmptyIs, NoMarks DEF TypeOK, Unread
<1>2. BufferInv
  <2>1. BufferKept
    BY <1>0, EmptyIs, NoMarks, ReadMarksAssumption DEF BufferKept, KeptRecs
  <2> QED
    BY <1>0, <2>1, EmptyIs DEF BufferInv
<1>3. BoardInv
  BY <1>0 DEF BoardInv
<1>4. ~ Here /\ Stored = EmptyBuf
  BY <1>0, ReadMarksAssumption DEF Here, Stored
<1>5. SeenInv
  BY <1>0, <1>4 DEF SeenInv
<1>6. NewInv
  <2>1. ListOf(EmptyBuf, watched) = <<>>
    BY EmptyIs
  <2>2. Unread \in Nat /\ Unread >= Unread
    BY DEF Unread
  <2> QED
    BY <1>0, <1>4, <2>1, <2>2, NoMarks DEF NewInv
<1> QED
  BY <1>1, <1>2, <1>3, <1>5, <1>6 DEF IInv

LEMMA NextInv == IInv /\ [Next]_vars => IInv'
<1> SUFFICES ASSUME IInv, [Next]_vars PROVE IInv'
  OBVIOUS
<1>1. CASE \E b \in Boards : EnterBoard(b) \/ MarkInList(b)
  BY <1>1, EnterBoardStep, MarkInListStep
<1>2. CASE \E t \in Articles, m \in Mods : MarkRead(t, m)
  BY <1>2, MarkReadStep
<1>3. CASE MarkBoard
  BY <1>3, MarkBoardStep
<1>4. CASE LeaveBoard
  BY <1>4, LeaveBoardStep
<1>5. CASE SaveMarks
  BY <1>5, SaveMarksStep
<1>6. CASE Logout
  BY <1>6, LogoutStep
<1>7. CASE Login
  BY <1>7, LoginStep
<1>8. CASE UNCHANGED vars
  BY <1>8 DEF vars, buffer, current, history, IInv, TypeOK, BufferInv, BufferKept,
              BoardInv, SeenInv, NewInv, Here, Stored
<1> QED
  BY <1>1, <1>2, <1>3, <1>4, <1>5, <1>6, <1>7, <1>8 DEF Next

LEMMA InvHolds == Spec => []IInv
BY InitInv, NextInv, PTL DEF Spec

\* The list that brc_unread_time searches for the watched board.
LEMMA SearchedIs ==
    ASSUME IInv, at # "out"
    PROVE  LET list == IF brc_currbid # Nobid /\ watched = brc_currbid THEN brc_list
                       ELSE ListOf(brc_buf, watched)
           IN  /\ list \in Seq(Mark) /\ Falling(list) /\ UpTo(list, newest)
               /\ \A s \in seen : ReadIn(list, brc_expire_time, s)
<1>1. watched \in Boards /\ watched # Nobid
  BY SessionIs, ReadMarksAssumption
<1>2. (Here <=> watched = brc_currbid) /\ Stored = brc_buf
  BY DEF Here, Stored
<1>3. SeenInv /\ NewInv
  BY DEF IInv
<1>4. CASE watched = brc_currbid
  BY <1>1, <1>2, <1>3, <1>4, SessionIs DEF SeenInv, NewInv
<1>5. CASE watched # brc_currbid
  <2>1. ListOf(brc_buf, watched) \in Seq(Mark) /\ Falling(ListOf(brc_buf, watched))
    BY SessionIs, ListIs
  <2> QED
    BY <1>2, <1>3, <1>5, <2>1 DEF SeenInv, NewInv
<1> QED
  BY <1>4, <1>5

LEMMA ReadShown == IInv => ReadStays
<1> SUFFICES ASSUME IInv, at # "out", NEW s \in seen
             PROVE  brc_unread_time(watched, s[1], s[2]) = 0
  BY DEF ReadStays
<1> DEFINE list == IF brc_currbid # Nobid /\ watched = brc_currbid THEN brc_list
                   ELSE ListOf(brc_buf, watched)
<1>1. list \in Seq(Mark) /\ Falling(list) /\ ReadIn(list, brc_expire_time, s)
  BY SearchedIs
<1>2. watched \in Boards /\ brc_expire_time \in Nat /\ s \in Articles \X Mods
  BY SessionIs
<1>3. s \in Nat \X (Nat \cup {-1})
  BY <1>2, TheArticles
<1>4. list = IF brc_currbid # Nobid /\ watched = brc_currbid THEN brc_list
             ELSE ListOf(brc_buf, watched)
  OBVIOUS
<1> HIDE DEF list
<1> QED
  BY <1>1, <1>2, <1>3, <1>4, ReadShows

LEMMA NewerShown == IInv => NewIsUnread
<1> SUFFICES ASSUME IInv, at # "out", NEW t \in Articles, t > newest, t > brc_expire_time
             PROVE  brc_unread_time(watched, t, 0) = 1
  BY DEF NewIsUnread
<1> DEFINE list == IF brc_currbid # Nobid /\ watched = brc_currbid THEN brc_list
                   ELSE ListOf(brc_buf, watched)
<1>1. list \in Seq(Mark) /\ UpTo(list, newest)
  BY SearchedIs
<1>2. watched \in Boards /\ brc_expire_time \in Nat /\ newest \in Nat /\ t \in Nat
  BY SessionIs, ReadMarksAssumption
<1>3. list = IF brc_currbid # Nobid /\ watched = brc_currbid THEN brc_list
             ELSE ListOf(brc_buf, watched)
  OBVIOUS
<1> HIDE DEF list
<1> QED
  BY <1>1, <1>2, <1>3, NewerShows

\* The variables of the marks keep to their types: a session's buffer and the
\* file are records of boards and marks (brc.c:66-83).
THEOREM TypeCorrect == Spec => []TypeOK
<1>1. IInv => TypeOK
  BY DEF IInv
<1> QED
  BY <1>1, InvHolds, PTL

\* For any boards, articles, times and sizes, the buffer fits in what
\* brc_enlarge_buf and brc_get_buf allocated, holds a board once, and its lists
\* fall and are as long as BRC_MAXNUM at most (brc.c:141-176, 191-247, 469).
THEOREM BufferKeptCorrect == Spec => []BufferKept
<1>1. IInv => BufferKept
  BY DEF IInv, BufferInv
<1> QED
  BY <1>1, InvHolds, PTL

\* For any number of boards and sessions, an article that was read stays read
\* until it is marked unread or the buffer loses its board (brc.c:596-637).
THEOREM ReadStaysCorrect == Spec => []ReadStays
BY ReadShown, InvHolds, PTL

\* For any number of boards and sessions, what is newer than all that was read
\* or marked in its board shows as unread (brc.c:464-476, 614-621).
THEOREM NewIsUnreadCorrect == Spec => []NewIsUnread
BY NewerShown, InvHolds, PTL
=============================================================================
