----------------------------- MODULE RecordFile -----------------------------
(***************************************************************************)
(* Files of fixed-size records shared by all the processes of the BBS      *)
(* (.DIR, .BRD): common/sys/record.c and lock.c, with the header           *)
(* comparison of common/bbs/filehdr.c.                                     *)
(*                                                                         *)
(* One step is one system call that reads or changes shared state.  Two    *)
(* kinds of advisory lock are in play and ignore each other: append_record *)
(* takes flock() on the whole file, every other operation takes an fcntl() *)
(* range lock through PttLock.  PttLock's ranges are relative to the file  *)
(* cursor, and a process loses its fcntl locks on a file as soon as it     *)
(* closes any descriptor of that file; both facts are modelled.            *)
(***************************************************************************)
EXTENDS Integers, Sequences

CONSTANTS
    Procs,      \* mbbsd processes
    Names,      \* file names that stampfile() can hand out
    FN_SAFEDEL, \* the name a safely deleted header gets
    Zero,       \* the bytes of a hole
    InitNames,  \* names in the file when the system starts, in order
    BufRecs,    \* BUFSIZE / sizeof(fileheader_t)
    Ops         \* the operations this instance lets processes call

OpKinds == {"append", "substitute", "substitute2", "delete2", "deletes"}

ASSUME NamesAssumption ==
    /\ FN_SAFEDEL \notin Names
    /\ Zero \notin Names
    /\ Zero # FN_SAFEDEL
    /\ InitNames \in Seq(Names)
    /\ \A i, j \in 1..Len(InitNames) : InitNames[i] = InitNames[j] => i = j
ASSUME BufRecsAssumption == BufRecs \in Nat \ {0}
ASSUME OpsAssumption == Ops \subseteq OpKinds

VARIABLES
    file,    \* the records, as every process sees them
    flk,     \* processes holding flock() on the file
    lck,     \* each process's fcntl() lock on the file
    pc,      \* what each process is about to do
    call,    \* arguments and locals of the call it is in
    stamped, \* names stampfile() has created
    index    \* history: index append_record returned for a name, 0 before

vars == <<file, flk, lck, pc, call, stamped, index>>

-----------------------------------------------------------------------------
(* A header is told by the name of the article it stands for.              *)
Record == Names \cup {FN_SAFEDEL, Zero}

NoLock == [lo |-> -1, len |-> -1]
Lock == [lo : Nat, len : Nat] \cup {NoLock}

\* An fcntl range covers offset i; length 0 reaches to the end of the file
\* however long it grows.
Covers(l, i) == l # NoLock /\ i >= l.lo /\ (l.len = 0 \/ i < l.lo + l.len)
Overlap(a, b) == Covers(a, b.lo) \/ Covers(b, a.lo)

\* id, num, src, dst, cmp: the arguments (num records, compare with src or
\* not, dst to write); size: from lseek(SEEK_END) or fstat(); d: records
\* delete has copied; buf: records it has read and not yet written; seen:
\* (history) the file when it got its lock.
Call == [id : Nat, num : Nat, src : Record, dst : Record, cmp : BOOLEAN,
         size : Nat, d : Nat, buf : Seq(Record), seen : Seq(Record)]
NoCall == [id |-> 0, num |-> 0, src |-> Zero, dst |-> Zero, cmp |-> FALSE,
           size |-> 0, d |-> 0, buf |-> <<>>, seen |-> <<>>]

Labels == {"idle", "append_flock", "append_seek", "append_write", "append_out",
           "sub_lock", "sub_read", "sub_write", "sub_close",
           "del_stat", "del_lock", "del_read", "del_copy_read",
           "del_copy_write", "del_close", "del_truncate"}

\* write() of records rs at record offset o: it overwrites, extends, and
\* leaves a hole when it starts past the end.
WriteAt(f, o, rs) ==
    [i \in 1..(IF Len(f) > o + Len(rs) THEN Len(f) ELSE o + Len(rs)) |->
        IF i > o /\ i <= o + Len(rs) THEN rs[i - o]
        ELSE IF i <= Len(f) THEN f[i] ELSE Zero]

\* ftruncate() to n records cuts the file or extends it with a hole.
Truncate(f, n) == [i \in 1..n |-> IF i <= Len(f) THEN f[i] ELSE Zero]

Goto(p, l) == pc' = [pc EXCEPT ![p] = l]
Return(p) == Goto(p, "idle") /\ call' = [call EXCEPT ![p] = NoCall]

\* Variant: no lock is taken.
PttLockNone(p, lo, len) == lck' = lck

\* fcntl(F_SETLKW): waits while another process's range overlaps.
PttLock(p, lo, len) ==
    LET l == [lo |-> lo, len |-> len] IN
    /\ \A q \in Procs \ {p} : ~ Overlap(l, lck[q])
    /\ lck' = [lck EXCEPT ![p] = l]

\* close() of any descriptor of the file drops all the process's ranges.
CloseDropsLocks(p) == lck' = [lck EXCEPT ![p] = NoLock]

Init ==
    /\ file = InitNames
    /\ flk = {}
    /\ lck = [p \in Procs |-> NoLock]
    /\ pc = [p \in Procs |-> "idle"]
    /\ call = [p \in Procs |-> NoCall]
    /\ stamped = {InitNames[i] : i \in 1..Len(InitNames)}
    /\ index = [n \in Names |-> 0]

-----------------------------------------------------------------------------
(* append_record(fpath, record, size).  Callers put a fresh name made by   *)
(* stampfile() (open with O_EXCL) in the header they append.               *)

CallAppend(p) ==
    /\ "append" \in Ops
    /\ pc[p] = "idle"
    /\ \E n \in Names \ stamped :
        /\ stamped' = stamped \cup {n}
        /\ call' = [call EXCEPT ![p] = [NoCall EXCEPT !.dst = n]]
    /\ Goto(p, "append_flock")
    /\ UNCHANGED <<file, flk, lck, index>>

\* Variant: the lock is not waited for.
AppendFlockShared(p) ==
    /\ pc[p] = "append_flock"
    /\ flk' = flk \cup {p}
    /\ Goto(p, "append_seek")
    /\ UNCHANGED <<file, lck, call, stamped, index>>

AppendFlock(p) ==
    /\ pc[p] = "append_flock"
    /\ flk = {}
    /\ flk' = {p}
    /\ Goto(p, "append_seek")
    /\ UNCHANGED <<file, lck, call, stamped, index>>

AppendSeek(p) ==
    /\ pc[p] = "append_seek"
    /\ call' = [call EXCEPT ![p].size = Len(file)]
    /\ Goto(p, "append_write")
    /\ UNCHANGED <<file, flk, lck, stamped, index>>

AppendWrite(p) ==
    /\ pc[p] = "append_write"
    /\ file' = WriteAt(file, call[p].size, <<call[p].dst>>)
    /\ Goto(p, "append_out")
    /\ UNCHANGED <<flk, lck, call, stamped, index>>

\* flock(LOCK_UN), close, return index + 1
AppendOut(p) ==
    /\ pc[p] = "append_out"
    /\ flk' = flk \ {p}
    /\ index' = [index EXCEPT ![call[p].dst] = call[p].size + 1]
    /\ Return(p)
    /\ UNCHANGED <<file, lck, stamped>>

-----------------------------------------------------------------------------
(* substitute_record and substitute_record2, the latter as                 *)
(* substitute_fileheader calls it: rewrite entry id, comparing its file    *)
(* name with the one the caller saw or not.  The caller picks entry i of   *)
(* the listing on its screen; the new header keeps the name or, for        *)
(* safe_article_delete, carries FN_SAFEDEL.  The cursor is at offset when  *)
(* PttLock adds offset to it.                                              *)

Pick(i) == [NoCall EXCEPT !.id = i, !.src = file[i]]

CallSubstitute(p) ==
    /\ "substitute" \in Ops
    /\ pc[p] = "idle"
    /\ \E i \in 1..Len(file) :
        call' = [call EXCEPT ![p] = [Pick(i) EXCEPT !.dst = file[i]]]
    /\ Goto(p, "sub_lock")
    /\ UNCHANGED <<file, flk, lck, stamped, index>>

CallSubstitute2(p) ==
    /\ "substitute2" \in Ops
    /\ pc[p] = "idle"
    /\ \E i \in 1..Len(file) : \E n \in {file[i], FN_SAFEDEL} :
        call' = [call EXCEPT ![p] = [Pick(i) EXCEPT !.cmp = TRUE, !.dst = n]]
    /\ Goto(p, "sub_lock")
    /\ UNCHANGED <<file, flk, lck, stamped, index>>

\* Variant: one record too low.
SubStartLow(p) == 2 * (call[p].id - 1) - 1

SubStart(p) == 2 * (call[p].id - 1)

SubLock(p) ==
    /\ pc[p] = "sub_lock"
    /\ PttLock(p, SubStart(p), 1)
    /\ Goto(p, IF call[p].cmp THEN "sub_read" ELSE "sub_write")
    /\ UNCHANGED <<file, flk, call, stamped, index>>

\* Variant: the comparison always agrees.
SameNameBlind(p) == TRUE

\* _is_same_fhdr_filename on the record at id, if the file still has one
SameName(p) ==
    /\ call[p].id <= Len(file)
    /\ file[call[p].id] = call[p].src
SubRead(p) ==
    /\ pc[p] = "sub_read"
    /\ Goto(p, IF SameName(p) THEN "sub_write" ELSE "sub_close")
    /\ UNCHANGED <<file, flk, lck, call, stamped, index>>

SubWrite(p) ==
    /\ pc[p] = "sub_write"
    /\ file' = WriteAt(file, call[p].id - 1, <<call[p].dst>>)
    /\ Goto(p, "sub_close")
    /\ UNCHANGED <<flk, lck, call, stamped, index>>

SubClose(p) ==
    /\ pc[p] = "sub_close"
    /\ CloseDropsLocks(p)
    /\ Return(p)
    /\ UNCHANGED <<file, flk, stamped, index>>

-----------------------------------------------------------------------------
(* delete_fileheader -> delete_record2 removes entry id if it still        *)
(* carries the file name the caller saw; delete_records removes num        *)
(* entries from id on without looking.  Both shift the rest of the file    *)
(* down through buf and cut the file to the size fstat() gave before the   *)
(* lock was taken.  Here the cursor is 0, so PttLock's range is the one    *)
(* the code names.                                                         *)

CallDelete2(p) ==
    /\ "delete2" \in Ops
    /\ pc[p] = "idle"
    /\ \E i \in 1..Len(file) :
        call' = [call EXCEPT ![p] = [Pick(i) EXCEPT !.cmp = TRUE, !.num = 1]]
    /\ Goto(p, "del_stat")
    /\ UNCHANGED <<file, flk, lck, stamped, index>>

\* delete_records: num entries from entry id on.
CallDeletes(p) ==
    /\ "deletes" \in Ops
    /\ pc[p] = "idle"
    /\ \E i \in 1..Len(file) : \E k \in 1..(Len(file) - i + 1) :
        call' = [call EXCEPT ![p] = [NoCall EXCEPT !.id = i, !.num = k]]
    /\ Goto(p, "del_stat")
    /\ UNCHANGED <<file, flk, lck, stamped, index>>

\* open, open, fstat; a negative locksize is the early error return
DelStat(p) ==
    /\ pc[p] = "del_stat"
    /\ IF Len(file) < call[p].id - 1
       THEN Return(p)
       ELSE Goto(p, "del_lock") /\ call' = [call EXCEPT ![p].size = Len(file)]
    /\ UNCHANGED <<file, flk, lck, stamped, index>>

LockSize(p) == call[p].size - (call[p].id - 1)

\* Variant: the loop stops one record early.
ReadSizeShort(p) == LockSize(p) - call[p].num - 1

ReadSize(p) == LockSize(p) - call[p].num

DelLock(p) ==
    /\ pc[p] = "del_lock"
    /\ PttLock(p, call[p].id - 1, LockSize(p))
    /\ call' = [call EXCEPT ![p].seen = file]
    /\ Goto(p, IF call[p].cmp THEN "del_read" ELSE "del_copy_read")
    /\ UNCHANGED <<file, flk, stamped, index>>

\* A record that is gone or has another name makes err = -1: the copy loop
\* and ftruncate are skipped and the descriptors closed.
DelRead(p) ==
    /\ pc[p] = "del_read"
    /\ IF SameName(p)
       THEN Goto(p, "del_copy_read") /\ UNCHANGED <<lck, call>>
       ELSE Return(p) /\ CloseDropsLocks(p)
    /\ UNCHANGED <<file, flk, stamped, index>>

\* Variant: fi starts at the deleted record instead of behind it.
CopyFromSame(p) == call[p].id + call[p].d

CopyFrom(p) == call[p].id + call[p].num + call[p].d

\* while (d < readsize && (c = read(fi, buf, BUFSIZE)) > 0)
DelCopyRead(p) ==
    LET from == CopyFrom(p)
        last == from + BufRecs - 1
        c == IF call[p].d < ReadSize(p)
             THEN SubSeq(file, from, IF last < Len(file) THEN last ELSE Len(file))
             ELSE <<>>
    IN
    /\ pc[p] = "del_copy_read"
    /\ call' = [call EXCEPT ![p].buf = c]
    /\ Goto(p, IF c = <<>> THEN "del_close" ELSE "del_copy_write")
    /\ UNCHANGED <<file, flk, lck, stamped, index>>

DelCopyWrite(p) ==
    /\ pc[p] = "del_copy_write"
    /\ file' = WriteAt(file, call[p].id - 1 + call[p].d, call[p].buf)
    /\ call' = [call EXCEPT ![p].d = @ + Len(call[p].buf), ![p].buf = <<>>]
    /\ Goto(p, "del_copy_read")
    /\ UNCHANGED <<flk, lck, stamped, index>>

\* close(fi) comes before the ftruncate() the range was to protect.
DelClose(p) ==
    /\ pc[p] = "del_close"
    /\ CloseDropsLocks(p)
    /\ Goto(p, "del_truncate")
    /\ UNCHANGED <<file, flk, call, stamped, index>>

\* ftruncate to a negative size fails, and nobody looks.
DelTruncate(p) ==
    LET keep == call[p].size - call[p].num IN
    /\ pc[p] = "del_truncate"
    /\ file' = IF keep >= 0 THEN Truncate(file, keep) ELSE file
    /\ Return(p)
    /\ UNCHANGED <<flk, lck, stamped, index>>

-----------------------------------------------------------------------------
\* The process dies between two system calls (abort_bbs on a lost
\* connection, a signal, a crash).  The kernel closes its descriptors;
\* another login takes its place.
Crash(p) ==
    /\ pc[p] # "idle"
    /\ Return(p)
    /\ flk' = flk \ {p}
    /\ CloseDropsLocks(p)
    /\ UNCHANGED <<file, stamped, index>>

AppendRecord(p) == CallAppend(p) \/ AppendFlock(p) \/ AppendSeek(p)
                     \/ AppendWrite(p) \/ AppendOut(p)
SubstituteRecord(p) == CallSubstitute(p) \/ CallSubstitute2(p) \/ SubLock(p)
                         \/ SubRead(p) \/ SubWrite(p) \/ SubClose(p)
DeleteRecord(p) == CallDelete2(p) \/ CallDeletes(p) \/ DelStat(p) \/ DelLock(p)
                     \/ DelRead(p) \/ DelCopyRead(p) \/ DelCopyWrite(p)
                     \/ DelClose(p) \/ DelTruncate(p)

Next == \E p \in Procs :
    AppendRecord(p) \/ SubstituteRecord(p) \/ DeleteRecord(p) \/ Crash(p)

Spec == Init /\ [][Next]_vars

-----------------------------------------------------------------------------
(* Properties                                                              *)

\* Every variable keeps to its type.
TypeOK ==
    /\ file \in Seq(Record)
    /\ flk \subseteq Procs
    /\ lck \in [Procs -> Lock]
    /\ pc \in [Procs -> Labels]
    /\ call \in [Procs -> Call]
    /\ stamped \subseteq Names
    /\ index \in [Names -> Nat]

\* The index append_record returns stays the number of that entry: other
\* appends and safe deletes may run at any time, and nobody's entry is
\* overwritten (record.c:92-154, and record.c:291 in mbbsd that relies on it).
AppendedStays ==
    \A n \in Names : index[n] # 0 =>
        /\ index[n] <= Len(file)
        /\ file[index[n]] \in {n, FN_SAFEDEL}

\* The compare of substitute_record2 and its write act as one step: the
\* entry it overwrites still carries the name that was compared
\* (record.c:133-147).
SubstituteRewritesWhatItRead ==
    [][\A p \in Procs : SubWrite(p) /\ call[p].cmp =>
            /\ call[p].id <= Len(file)
            /\ file[call[p].id] = call[p].src]_vars

NamesIn(f) == {f[i] : i \in 1..Len(f)}

\* The names that process p's current call is entitled to take off the file:
\* the entry a delete or a safe delete compares, or the entries
\* delete_records counts off.
Removes(p) ==
    IF pc[p] \in {"sub_write", "del_copy_read", "del_copy_write", "del_truncate"}
    THEN IF call[p].cmp THEN {call[p].src}
         ELSE {call[p].seen[i] : i \in {j \in 1..Len(call[p].seen) :
                    j >= call[p].id /\ j < call[p].id + call[p].num}}
    ELSE {}

\* No step takes a name off the file but the deletion of that name, not even
\* the steps of a delete that dies half way (record.c:156-279).
OnlyDeletedNamesVanish ==
    [][\E p \in Procs : NamesIn(file) \ NamesIn(file') \subseteq Removes(p)]_vars

\* When a delete with nobody else on the file finishes, the file is what it
\* was without the deleted entries, whatever BUFSIZE is (record.c:213-222,
\* 263-273).
DeleteIsExact ==
    [][\A p \in Procs : DelTruncate(p) =>
            LET f == call[p].seen  i == call[p].id  k == call[p].num
            IN file' = SubSeq(f, 1, i - 1) \o SubSeq(f, i + k, Len(f))]_vars

\* Under appends and (safe) substitutions by header the file implements the
\* stable listing of RecordLog; writes are the steps that take effect.
Pending == {call[p].dst : p \in {q \in Procs :
                pc[q] \in {"append_flock", "append_seek", "append_write"}}}

Listing == INSTANCE RecordLog WITH
    log <- file, spent <- stamped \ Pending

ImplementsListing == Listing!LogSpec
=============================================================================
