-------------------------- MODULE RecordFileProofs --------------------------
(***************************************************************************)
(* Theorems about RecordFile: its types for every set of operations; when  *)
(* processes only append and substitute by header (posting and safe        *)
(* deletion), that nothing posted is ever lost or overwritten and that the *)
(* file implements the listing of RecordLog; and, when calls of any kind   *)
(* come one at a time, that a delete takes exactly what it was to take.    *)
(***************************************************************************)
EXTENDS RecordFile, SequenceTheorems, TLAPS

-----------------------------------------------------------------------------
(* What write() and ftruncate() do to a sequence of records.               *)

LEMMA WriteAtType ==
    ASSUME NEW f \in Seq(Record), NEW o \in Nat, NEW rs \in Seq(Record)
    PROVE  WriteAt(f, o, rs) \in Seq(Record)
<1> DEFINE n == IF Len(f) > o + Len(rs) THEN Len(f) ELSE o + Len(rs)
<1>1. n \in Nat
  BY LenProperties
<1>2. \A i \in 1..n : (IF i > o /\ i <= o + Len(rs) THEN rs[i - o]
                       ELSE IF i <= Len(f) THEN f[i] ELSE Zero) \in Record
  <2> TAKE i \in 1..n
  <2>1. CASE i > o /\ i <= o + Len(rs)
    <3>1. i - o \in 1..Len(rs)
      BY <2>1, LenProperties
    <3> QED
      BY <2>1, <3>1, ElementOfSeq
  <2>2. CASE ~(i > o /\ i <= o + Len(rs)) /\ i <= Len(f)
    BY <2>2, ElementOfSeq, LenProperties
  <2>3. CASE ~(i > o /\ i <= o + Len(rs)) /\ ~(i <= Len(f))
    BY <2>3 DEF Record
  <2> QED
    BY <2>1, <2>2, <2>3
<1>3. WriteAt(f, o, rs) \in [1..n -> Record]
  BY <1>2 DEF WriteAt
<1> QED
  BY SMTT(40), <1>1, <1>3, SeqDef

\* Writing one record at the end is an append.
LEMMA WriteAtEnd ==
    ASSUME NEW f \in Seq(Record), NEW r \in Record
    PROVE  WriteAt(f, Len(f), <<r>>) = Append(f, r)
<1>1. Len(<<r>>) = 1 /\ <<r>>[1] = r
  OBVIOUS
<1>2. WriteAt(f, Len(f), <<r>>) =
        [i \in 1..(Len(f) + 1) |-> IF i = Len(f) + 1 THEN r ELSE f[i]]
  BY <1>1, LenProperties DEF WriteAt
<1>3. WriteAt(f, Len(f), <<r>>) \in Seq(Record)
  <2>1. <<r>> \in Seq(Record) /\ Len(f) \in Nat
    BY LenProperties
  <2> QED
    BY <2>1, WriteAtType
<1>4. Len(WriteAt(f, Len(f), <<r>>)) = Len(f) + 1
  BY <1>2, <1>3, LenProperties
<1> QED
  BY <1>2, <1>3, <1>4, AppendProperties, SeqEqual, LenProperties

\* Writing one record over entry i replaces that entry.
LEMMA WriteAtEntry ==
    ASSUME NEW f \in Seq(Record), NEW i \in 1..Len(f), NEW r \in Record
    PROVE  WriteAt(f, i - 1, <<r>>) = [f EXCEPT ![i] = r]
<1>1. Len(<<r>>) = 1 /\ <<r>>[1] = r
  OBVIOUS
<1>2. f \in [1..Len(f) -> Record] /\ Len(f) \in Nat
  BY LenProperties
<1> DEFINE w(j) == IF j > i - 1 /\ j <= i - 1 + Len(<<r>>) THEN <<r>>[j - (i - 1)]
                   ELSE IF j <= Len(f) THEN f[j] ELSE Zero
<1>3. \A j \in 1..Len(f) : w(j) = IF j = i THEN r ELSE f[j]
  <2> TAKE j \in 1..Len(f)
  <2>1. CASE j = i
    <3>1. j - (i - 1) = 1 /\ j > i - 1 /\ j <= i - 1 + 1
      BY <2>1, <1>2
    <3> QED
      BY <1>1, <2>1, <3>1
  <2>2. CASE j # i
    BY <1>1, <1>2, <2>2
  <2> QED
    BY <2>1, <2>2
<1>4. (IF Len(f) > i - 1 + Len(<<r>>) THEN Len(f) ELSE i - 1 + Len(<<r>>)) = Len(f)
  <2> DEFINE e == i - 1 + Len(<<r>>)
  <2>1. e = i
    BY <1>1
  <2>2. i \in Nat /\ Len(f) \in Nat /\ i <= Len(f)
    BY <1>2
  <2> HIDE DEF e
  <2>3. Len(f) > e \/ e = Len(f)
    BY <2>1, <2>2
  <2>4. (IF Len(f) > e THEN Len(f) ELSE e) = Len(f)
    BY <2>3
  <2> QED
    BY <2>4 DEF e
<1>5. WriteAt(f, i - 1, <<r>>) = [j \in 1..Len(f) |-> w(j)]
  BY <1>4 DEF WriteAt
<1> HIDE DEF w
<1>6. WriteAt(f, i - 1, <<r>>) = [j \in 1..Len(f) |-> IF j = i THEN r ELSE f[j]]
  BY <1>3, <1>5
<1> QED
  BY <1>2, <1>6

LEMMA TruncateType ==
    ASSUME NEW f \in Seq(Record), NEW n \in Nat
    PROVE  Truncate(f, n) \in Seq(Record)
<1>1. \A i \in 1..n : (IF i <= Len(f) THEN f[i] ELSE Zero) \in Record
  BY ElementOfSeq, LenProperties DEF Record
<1>2. Truncate(f, n) \in [1..n -> Record]
  BY <1>1 DEF Truncate
<1> QED
  BY <1>2, SeqDef

-----------------------------------------------------------------------------
(* Types.  A call that is past its first step names an entry, and a delete *)
(* that waits for its lock found the file long enough.                     *)

Substituting == {"sub_lock", "sub_read", "sub_write", "sub_close"}
Deleting == {"del_stat", "del_lock", "del_read", "del_copy_read",
             "del_copy_write", "del_close", "del_truncate"}

TypeInv ==
    /\ TypeOK
    /\ \A p \in Procs : pc[p] \in Substituting \cup Deleting => call[p].id # 0
    /\ \A p \in Procs : pc[p] = "del_lock" => call[p].id - 1 <= call[p].size

LEMMA InitType == Init => TypeInv
<1> SUFFICES ASSUME Init PROVE TypeInv
  OBVIOUS
<1>1. InitNames \in Seq(Record)
  BY NamesAssumption, SeqMonotonic DEF Record
<1>2. NoCall \in Call
  BY DEF NoCall, Call, Record
<1>3. NoLock \in Lock
  BY DEF Lock
<1>4. \A i \in 1..Len(InitNames) : InitNames[i] \in Names
  BY NamesAssumption, ElementOfSeq
<1> QED
  BY <1>1, <1>2, <1>3, <1>4
  DEF Init, TypeInv, TypeOK, Labels, Substituting, Deleting

LEMMA AppendRecordType ==
    ASSUME TypeInv, NEW p \in Procs, AppendRecord(p)
    PROVE  TypeInv'
<1>0. NoCall \in Call /\ Names \subseteq Record
  BY DEF NoCall, Call, Record
<1>1. CASE CallAppend(p)
  <2> PICK n \in Names \ stamped :
        /\ stamped' = stamped \cup {n}
        /\ call' = [call EXCEPT ![p] = [NoCall EXCEPT !.dst = n]]
    BY <1>1 DEF CallAppend
  <2>1. [NoCall EXCEPT !.dst = n] \in Call
    BY <1>0 DEF Call, NoCall
  <2> QED
    BY <1>1, <2>1 DEF CallAppend, TypeInv, TypeOK, Labels, Substituting,
                      Deleting, Goto
<1>2. CASE AppendFlock(p)
  BY <1>2 DEF AppendFlock, TypeInv, TypeOK, Labels, Substituting, Deleting,
              Goto
<1>3. CASE AppendSeek(p)
  <2>1. [call[p] EXCEPT !.size = Len(file)] \in Call
    BY ZenonT(60), LenProperties DEF TypeInv, TypeOK, Call
  <2> QED
    BY <1>3, <2>1 DEF AppendSeek, TypeInv, TypeOK, Labels, Substituting,
                      Deleting, Goto
<1>4. CASE AppendWrite(p)
  <2>1. call[p].size \in Nat /\ <<call[p].dst>> \in Seq(Record)
    BY DEF TypeInv, TypeOK, Call
  <2>2. file' \in Seq(Record)
    BY <1>4, <2>1, WriteAtType DEF AppendWrite, TypeInv, TypeOK
  <2> QED
    BY <1>4, <2>2 DEF AppendWrite, TypeInv, TypeOK, Labels, Substituting,
                      Deleting, Goto
<1>5. CASE AppendOut(p)
  <2>0. call[p].size + 1 \in Nat /\ index \in [Names -> Nat]
    BY DEF TypeInv, TypeOK, Call
  <2>1. index' \in [Names -> Nat]
    BY <1>5, <2>0 DEF AppendOut
  <2> QED
    BY <1>0, <1>5, <2>1 DEF AppendOut, Return, TypeInv, TypeOK, Labels,
                            Substituting, Deleting, Goto
<1> QED
  BY <1>1, <1>2, <1>3, <1>4, <1>5 DEF AppendRecord

LEMMA SubstituteRecordType ==
    ASSUME TypeInv, NEW p \in Procs, SubstituteRecord(p)
    PROVE  TypeInv'
<1>0. NoCall \in Call /\ NoLock \in Lock /\ FN_SAFEDEL \in Record
  BY DEF NoCall, Call, Record, Lock
<1>1. CASE CallSubstitute(p)
  <2> PICK i \in 1..Len(file) :
        call' = [call EXCEPT ![p] = [Pick(i) EXCEPT !.dst = file[i]]]
    BY <1>1 DEF CallSubstitute
  <2>1. i \in Nat \ {0} /\ file[i] \in Record
    BY ElementOfSeq, LenProperties DEF TypeInv, TypeOK
  <2>2. call'[p] \in Call /\ call'[p].id # 0
    BY <1>0, <2>1 DEF TypeInv, TypeOK, Call, Pick, NoCall
  <2> QED
    BY <1>1, <2>2 DEF CallSubstitute, TypeInv, TypeOK, Labels, Substituting,
                      Deleting, Goto
<1>2. CASE CallSubstitute2(p)
  <2> PICK i \in 1..Len(file) : \E n \in {file[i], FN_SAFEDEL} :
        call' = [call EXCEPT ![p] = [Pick(i) EXCEPT !.cmp = TRUE, !.dst = n]]
    BY <1>2 DEF CallSubstitute2
  <2> PICK n \in {file[i], FN_SAFEDEL} :
        call' = [call EXCEPT ![p] = [Pick(i) EXCEPT !.cmp = TRUE, !.dst = n]]
    BY <1>2 DEF CallSubstitute2
  <2>1. i \in Nat \ {0} /\ file[i] \in Record
    BY ElementOfSeq, LenProperties DEF TypeInv, TypeOK
  <2>2. call'[p] \in Call /\ call'[p].id # 0
    BY <1>0, <2>1 DEF TypeInv, TypeOK, Call, Pick, NoCall
  <2> QED
    BY <1>2, <2>2 DEF CallSubstitute2, TypeInv, TypeOK, Labels, Substituting,
                      Deleting, Goto
<1>3. CASE SubLock(p)
  <2>1. SubStart(p) \in Nat
    BY <1>3 DEF SubLock, SubStart, TypeInv, TypeOK, Call, Substituting
  <2>2. [lo |-> SubStart(p), len |-> 1] \in Lock
    BY <2>1 DEF Lock
  <2> QED
    BY <1>3, <2>2 DEF SubLock, PttLock, TypeInv, TypeOK, Labels, Substituting,
                      Deleting, Goto
<1>4. CASE SubRead(p)
  BY <1>4 DEF SubRead, TypeInv, TypeOK, Labels, Substituting, Deleting, Goto
<1>5. CASE SubWrite(p)
  <2>1. call[p].id - 1 \in Nat /\ <<call[p].dst>> \in Seq(Record)
    BY <1>5 DEF SubWrite, TypeInv, TypeOK, Call, Substituting
  <2>2. file' \in Seq(Record)
    BY <1>5, <2>1, WriteAtType DEF SubWrite, TypeInv, TypeOK
  <2> QED
    BY <1>5, <2>2 DEF SubWrite, TypeInv, TypeOK, Labels, Substituting,
                      Deleting, Goto
<1>6. CASE SubClose(p)
  BY <1>0, <1>6 DEF SubClose, CloseDropsLocks, Return, TypeInv, TypeOK, Labels,
                    Substituting, Deleting, Goto
<1> QED
  BY <1>1, <1>2, <1>3, <1>4, <1>5, <1>6 DEF SubstituteRecord

LEMMA DeleteRecordType ==
    ASSUME TypeInv, NEW p \in Procs, DeleteRecord(p)
    PROVE  TypeInv'
<1>0. NoCall \in Call /\ NoLock \in Lock
  BY DEF NoCall, Call, Record, Lock
<1>a. call[p] \in Call /\ file \in Seq(Record) /\ Len(file) \in Nat
  BY LenProperties DEF TypeInv, TypeOK
<1>1. CASE CallDelete2(p)
  <2> PICK i \in 1..Len(file) :
        call' = [call EXCEPT ![p] = [Pick(i) EXCEPT !.cmp = TRUE, !.num = 1]]
    BY <1>1 DEF CallDelete2
  <2>1. i \in Nat \ {0} /\ file[i] \in Record
    BY <1>a, ElementOfSeq
  <2>2. call'[p] \in Call /\ call'[p].id # 0
    BY <1>0, <2>1 DEF TypeInv, TypeOK, Call, Pick, NoCall
  <2> QED
    BY <1>1, <2>2 DEF CallDelete2, TypeInv, TypeOK, Labels, Substituting,
                      Deleting, Goto
<1>2. CASE CallDeletes(p)
  <2> PICK i \in 1..Len(file) : \E k \in 1..(Len(file) - i + 1) :
        call' = [call EXCEPT ![p] = [NoCall EXCEPT !.id = i, !.num = k]]
    BY <1>2 DEF CallDeletes
  <2> PICK k \in 1..(Len(file) - i + 1) :
        call' = [call EXCEPT ![p] = [NoCall EXCEPT !.id = i, !.num = k]]
    OBVIOUS
  <2>1. k \in Nat /\ i \in Nat \ {0}
    BY <1>a
  <2>2. [NoCall EXCEPT !.id = i, !.num = k] \in Call
    BY <1>0, <2>1 DEF Call, NoCall
  <2>3. call'[p] \in Call /\ call'[p].id # 0
    BY <2>1, <2>2 DEF TypeInv, TypeOK, NoCall
  <2> QED
    BY <1>2, <2>3 DEF CallDeletes, TypeInv, TypeOK, Labels, Substituting,
                      Deleting, Goto
<1>3. CASE DelStat(p)
  <2>1. CASE Len(file) < call[p].id - 1
    BY ZenonT(60), <1>0, <1>3, <2>1 DEF DelStat, Return, TypeInv, TypeOK, Labels,
                            Substituting, Deleting, Goto
  <2>2. CASE ~(Len(file) < call[p].id - 1)
    <3>1. [call[p] EXCEPT !.size = Len(file)] \in Call
      BY <1>a DEF Call
    <3>2. call[p].id # 0 /\ call[p].id \in Nat /\ call[p].id - 1 <= Len(file)
      BY <1>3, <1>a, <2>2 DEF DelStat, TypeInv, Deleting, Call
    <3>3. call' = [call EXCEPT ![p].size = Len(file)]
      BY <1>3, <2>2 DEF DelStat
    <3>4. call'[p].id = call[p].id /\ call'[p].size = Len(file)
      BY <1>a, <3>3 DEF TypeInv, TypeOK, Call
    <3> QED
      BY <1>3, <2>2, <3>1, <3>2, <3>3, <3>4 DEF DelStat, TypeInv, TypeOK,
                            Labels, Substituting, Deleting, Goto
  <2> QED
    BY <2>1, <2>2
<1>4. CASE DelLock(p)
  <2>1. /\ call[p].id \in Nat \ {0} /\ call[p].size \in Nat
        /\ call[p].id - 1 <= call[p].size
    BY <1>4, <1>a DEF DelLock, TypeInv, Deleting, Call
  <2>2. [lo |-> call[p].id - 1, len |-> LockSize(p)] \in Lock
    BY <2>1 DEF Lock, LockSize
  <2>3. [call[p] EXCEPT !.seen = file] \in Call
    BY <1>a DEF Call
  <2> QED
    BY <1>4, <2>2, <2>3 DEF DelLock, PttLock, TypeInv, TypeOK, Labels,
                            Substituting, Deleting, Goto
<1>5. CASE DelRead(p)
  BY SMTT(40), <1>0, <1>5 DEF DelRead, CloseDropsLocks, Return, TypeInv, TypeOK, Labels,
                    Substituting, Deleting, Goto
<1>6. CASE DelCopyRead(p)
  <2> DEFINE last == CopyFrom(p) + BufRecs - 1
             to == IF last < Len(file) THEN last ELSE Len(file)
             c == IF call[p].d < ReadSize(p) THEN SubSeq(file, CopyFrom(p), to)
                  ELSE <<>>
  <2>1. CopyFrom(p) \in Nat \ {0} /\ to \in Int /\ to <= Len(file)
    <3>1. /\ call[p].id \in Nat \ {0} /\ call[p].num \in Nat /\ call[p].d \in Nat
          /\ BufRecs \in Nat
      BY <1>6, <1>a, BufRecsAssumption DEF DelCopyRead, TypeInv, Deleting, Call
    <3> HIDE DEF c, to
    <3>a. CopyFrom(p) \in Nat \ {0}
      <4> HIDE DEF last
      <4>1. \A x, y, z \in Nat : x # 0 => x + y + z \in Nat \ {0}
        OBVIOUS
      <4> QED
        BY <3>1, <4>1 DEF CopyFrom
    <3>2. CopyFrom(p) \in Nat \ {0} /\ last \in Int
      BY <3>1, <3>a
    <3> HIDE DEF last
    <3> USE DEF to
    <3>3. CASE last < Len(file)
      BY <1>a, <3>2, <3>3
    <3>4. CASE ~(last < Len(file))
      BY <1>a, <3>2, <3>4
    <3> QED
      BY <3>2, <3>3, <3>4
  <2>2. SubSeq(file, CopyFrom(p), to) \in Seq(Record)
    <3> HIDE DEF to
    <3>1. \A i \in CopyFrom(p)..to : i \in 1..Len(file)
      BY <1>a, <2>1
    <3>2. \A i \in CopyFrom(p)..to : file[i] \in Record
      BY <1>a, <3>1, ElementOfSeq
    <3> QED
      BY <2>1, <3>2, SubSeqProperties
  <2>3. c \in Seq(Record)
    BY <2>2, EmptySeq
  <2>4. call' = [call EXCEPT ![p].buf = c]
    BY <1>6 DEF DelCopyRead
  <2> HIDE DEF c
  <2>5. [call[p] EXCEPT !.buf = c] \in Call
    BY <1>a, <2>3 DEF Call
  <2>6. pc' \in [Procs -> Labels] /\ pc'[p] \in {"del_close", "del_copy_write"}
    BY <1>6 DEF DelCopyRead, Goto, Labels, TypeInv, TypeOK
  <2>7. /\ UNCHANGED <<file, flk, lck, stamped, index>> /\ pc[p] \in Deleting
        /\ \A q \in Procs \ {p} : pc'[q] = pc[q]
    BY <1>6 DEF DelCopyRead, Goto, TypeInv, TypeOK, Deleting
  <2> QED
    <3>1. TypeOK'
      BY <2>4, <2>5, <2>6, <2>7 DEF TypeInv, TypeOK
    <3>2. call'[p].id = call[p].id /\ \A q \in Procs \ {p} : call'[q] = call[q]
      BY <1>a, <2>4 DEF TypeInv, TypeOK, Call
    <3>3. call[p].id # 0
      BY <2>7 DEF TypeInv
    <3> QED
      BY <2>6, <2>7, <3>1, <3>2, <3>3 DEF TypeInv
<1>7. CASE DelCopyWrite(p)
  <2>1. /\ call[p].id \in Nat \ {0} /\ call[p].d \in Nat
        /\ call[p].buf \in Seq(Record) /\ Len(call[p].buf) \in Nat
    BY <1>7, <1>a, LenProperties DEF DelCopyWrite, TypeInv, Deleting, Call
  <2>2. call[p].id - 1 + call[p].d \in Nat
    BY SMTT(40), <2>1
  <2>3. file' \in Seq(Record)
    BY <1>7, <1>a, <2>1, <2>2, WriteAtType DEF DelCopyWrite
  <2>4. [call[p] EXCEPT !.d = @ + Len(call[p].buf), !.buf = <<>>] \in Call
    <3>1. call[p].d + Len(call[p].buf) \in Nat /\ <<>> \in Seq(Record)
      BY <2>1, EmptySeq
    <3> QED
      BY <1>a, <3>1 DEF Call
  <2> QED
    BY <1>7, <2>3, <2>4 DEF DelCopyWrite, TypeInv, TypeOK, Labels,
                            Substituting, Deleting, Goto
<1>8. CASE DelClose(p)
  BY <1>0, <1>8 DEF DelClose, CloseDropsLocks, TypeInv, TypeOK, Labels,
                    Substituting, Deleting, Goto
<1>9. CASE DelTruncate(p)
  <2>1. call[p].size \in Nat /\ call[p].num \in Nat
    BY <1>a DEF Call
  <2>2. file' \in Seq(Record)
    <3>1. CASE call[p].size - call[p].num >= 0
      <4>1. call[p].size - call[p].num \in Nat
        BY <2>1, <3>1
      <4> QED
        BY <1>9, <1>a, <3>1, <4>1, TruncateType DEF DelTruncate
    <3>2. CASE ~(call[p].size - call[p].num >= 0)
      BY <1>9, <1>a, <3>2 DEF DelTruncate
    <3> QED
      BY <3>1, <3>2
  <2> QED
    BY <1>0, <1>9, <2>2 DEF DelTruncate, Return, TypeInv, TypeOK, Labels,
                                  Substituting, Deleting, Goto
<1> QED
  BY <1>1, <1>2, <1>3, <1>4, <1>5, <1>6, <1>7, <1>8, <1>9 DEF DeleteRecord

LEMMA NextType == TypeInv /\ [Next]_vars => TypeInv'
<1> SUFFICES ASSUME TypeInv, [Next]_vars PROVE TypeInv'
  OBVIOUS
<1>1. ASSUME NEW p \in Procs, Crash(p) PROVE TypeInv'
  <2>1. NoCall \in Call /\ NoLock \in Lock
    BY DEF NoCall, Call, Record, Lock
  <2> QED
    BY <1>1, <2>1 DEF Crash, CloseDropsLocks, Return, TypeInv, TypeOK, Labels,
                      Substituting, Deleting, Goto
<1>2. CASE UNCHANGED vars
  BY <1>2 DEF vars, TypeInv, TypeOK
<1> QED
  BY <1>1, <1>2, AppendRecordType, SubstituteRecordType, DeleteRecordType
  DEF Next

\* Whatever operations the processes use, and however they interleave or
\* die, files, locks and locals keep to their types (record.c, lock.c).
THEOREM TypeCorrect == Spec => []TypeOK
<1>1. TypeInv => TypeOK
  BY DEF TypeInv
<1> QED
  BY <1>1, InitType, NextType, PTL DEF Spec

-----------------------------------------------------------------------------
(* The discipline of a live board: processes append and substitute by      *)
(* header, nothing else.                                                   *)

SafeOps == Ops \subseteq {"append", "substitute2"}

Stamping == {"append_flock", "append_seek", "append_write"}
InFlock == {"append_seek", "append_write", "append_out"}
InRange == {"sub_read", "sub_write", "sub_close"}

OnlySafeSteps == \A p \in Procs : pc[p] \notin Deleting

\* flock() is exclusive, so the size an appender saw is still the size.
OneAppender ==
    /\ \A p \in Procs : pc[p] \in InFlock => flk = {p}
    /\ \A p \in Procs : pc[p] = "append_write" => call[p].size = Len(file)

\* An appender holds a name of its own, which is not in the file before it
\* writes it and whose entry can at most be deleted after.
NamesAreFresh ==
    /\ \A i \in 1..Len(file) : file[i] \in stamped \cup {FN_SAFEDEL}
    /\ \A p \in Procs : pc[p] \in Stamping \cup {"append_out"} =>
            call[p].dst \in stamped
    /\ \A p \in Procs : pc[p] \in Stamping =>
            \A i \in 1..Len(file) : file[i] # call[p].dst
    /\ \A p, q \in Procs : p # q /\ pc[p] \in Stamping /\ pc[q] \in Stamping =>
            call[p].dst # call[q].dst

WrittenStays ==
    \A p \in Procs : pc[p] = "append_out" =>
        /\ call[p].size + 1 \in 1..Len(file)
        /\ file[call[p].size + 1] \in {call[p].dst, FN_SAFEDEL}

\* Equal entry numbers give equal PttLock ranges, twice too far but equal.
OneSubstituter ==
    /\ \A p \in Procs : pc[p] \in Substituting =>
            /\ call[p].cmp
            /\ call[p].id \in 1..Len(file)
            /\ call[p].dst \in {call[p].src, FN_SAFEDEL}
    /\ \A p \in Procs : pc[p] \in InRange =>
            lck[p] = [lo |-> SubStart(p), len |-> 1]
    /\ \A p, q \in Procs : p # q /\ pc[p] \in InRange /\ pc[q] \in InRange =>
            call[p].id # call[q].id
    /\ \A p \in Procs : pc[p] = "sub_write" => file[call[p].id] = call[p].src

SafeInv ==
    /\ TypeInv
    /\ OnlySafeSteps
    /\ OneAppender
    /\ NamesAreFresh
    /\ WrittenStays
    /\ OneSubstituter
    /\ AppendedStays

\* What any step leaves of the file: it may grow, and entries only turn into
\* deleted ones.
Keeps ==
    /\ Len(file) <= Len(file')
    /\ \A i \in 1..Len(file) : file'[i] \in {file[i], FN_SAFEDEL}

LEMMA InitSafe == Init => SafeInv
<1> SUFFICES ASSUME Init PROVE SafeInv
  OBVIOUS
<1>1. TypeInv
  BY InitType
<1>2. \A n \in Names : index[n] = 0
  BY DEF Init
<1>3. \A p \in Procs : pc[p] = "idle"
  BY DEF Init
<1>4. \A i \in 1..Len(file) : file[i] \in stamped
  BY DEF Init
<1> QED
  BY <1>1, <1>2, <1>3, <1>4
  DEF SafeInv, OnlySafeSteps, OneAppender, NamesAreFresh, WrittenStays,
      OneSubstituter, AppendedStays, Deleting, Substituting, Stamping, InFlock,
      InRange

\* The write of append_record puts the record behind the last one.
LEMMA AppendWriteAppends ==
    ASSUME SafeInv, NEW p \in Procs, AppendWrite(p)
    PROVE  /\ file' = Append(file, call[p].dst)
           /\ call[p].dst \in Names
           /\ call[p].dst \in stamped
           /\ call[p].size = Len(file)
<1>1. call[p].size = Len(file) /\ call[p].dst \in stamped
  BY DEF SafeInv, OneAppender, NamesAreFresh, Stamping, AppendWrite
<1>2. call[p].dst \in Names /\ call[p].dst \in Record /\ file \in Seq(Record)
  BY <1>1 DEF SafeInv, TypeInv, TypeOK, Record
<1> QED
  BY <1>1, <1>2, WriteAtEnd DEF AppendWrite

\* The write of substitute_record2 replaces the entry it compared.
LEMMA SubWriteReplaces ==
    ASSUME SafeInv, NEW p \in Procs, SubWrite(p)
    PROVE  /\ file' = [file EXCEPT ![call[p].id] = call[p].dst]
           /\ call[p].id \in 1..Len(file)
           /\ call[p].dst \in {file[call[p].id], FN_SAFEDEL}
           /\ call[p].dst \in Record
<1>1. /\ call[p].id \in 1..Len(file) /\ file[call[p].id] = call[p].src
      /\ call[p].dst \in {call[p].src, FN_SAFEDEL}
  BY DEF SafeInv, OneSubstituter, SubWrite, Substituting
<1>2. call[p].dst \in Record /\ file \in Seq(Record)
  BY DEF SafeInv, TypeInv, TypeOK, Call
<1> QED
  BY <1>1, <1>2, WriteAtEntry DEF SubWrite

LEMMA StepKeeps ==
    ASSUME SafeOps, SafeInv, [Next]_vars
    PROVE  Keeps
<1>0. file \in Seq(Record) /\ Len(file) \in Nat
  BY LenProperties DEF SafeInv, TypeInv, TypeOK
<1>1. CASE file' = file
  BY <1>0, <1>1 DEF Keeps
<1>2. ASSUME NEW p \in Procs, AppendWrite(p) PROVE Keeps
  <2>1. file' = Append(file, call[p].dst) /\ call[p].dst \in Record
    BY <1>2, AppendWriteAppends DEF Record
  <2> QED
    BY <1>0, <2>1, AppendProperties DEF Keeps
<1>3. ASSUME NEW p \in Procs, SubWrite(p) PROVE Keeps
  BY SMTT(40), <1>0, <1>3, SubWriteReplaces, ExceptSeq DEF Keeps
<1>4. ASSUME NEW p \in Procs, DelCopyWrite(p) \/ DelTruncate(p) PROVE FALSE
  <2>1. pc[p] \in {"del_copy_write", "del_truncate"}
    BY <1>4 DEF DelCopyWrite, DelTruncate
  <2>2. OnlySafeSteps
    BY DEF SafeInv
  <2> QED
    BY <2>1, <2>2 DEF OnlySafeSteps, Deleting
<1>5. CASE Next
  BY ZenonT(60), <1>1, <1>2, <1>3, <1>4, <1>5
  DEF Next, AppendRecord, CallAppend, AppendFlock, AppendSeek, AppendOut,
      SubstituteRecord, CallSubstitute, CallSubstitute2, SubLock, SubRead,
      SubClose, DeleteRecord, CallDelete2, CallDeletes, DelStat, DelLock,
      DelRead, DelCopyRead, DelClose, Crash
<1> QED
  BY <1>1, <1>5 DEF vars

\* Entries that were appended and acknowledged, or written and not yet
\* acknowledged, survive every step that keeps the file.
LEMMA KeepsAppended ==
    ASSUME SafeInv, Keeps, TypeInv', index' = index
    PROVE  AppendedStays'
<1> SUFFICES ASSUME NEW n \in Names, index[n] # 0
             PROVE  index[n] <= Len(file') /\ file'[index[n]] \in {n, FN_SAFEDEL}
  BY DEF AppendedStays
<1>1. /\ index[n] \in Nat \ {0} /\ index[n] <= Len(file)
      /\ file[index[n]] \in {n, FN_SAFEDEL}
  BY DEF SafeInv, TypeInv, TypeOK, AppendedStays
<1>2. Len(file) \in Nat /\ Len(file') \in Nat /\ Len(file) <= Len(file')
  BY LenProperties DEF SafeInv, TypeInv, TypeOK, Keeps
<1>3. index[n] \in 1..Len(file)
  BY <1>1, <1>2
<1> QED
  BY <1>1, <1>2, <1>3 DEF Keeps

LEMMA KeepsWritten ==
    ASSUME SafeInv, Keeps, TypeInv', NEW p \in Procs,
           pc'[p] = "append_out", pc[p] = "append_out", call'[p] = call[p]
    PROVE  /\ call'[p].size + 1 \in 1..Len(file')
           /\ file'[call'[p].size + 1] \in {call'[p].dst, FN_SAFEDEL}
<1> DEFINE i == call[p].size + 1
<1>1. i \in 1..Len(file) /\ file[i] \in {call[p].dst, FN_SAFEDEL}
  BY DEF SafeInv, WrittenStays
<1>2. Len(file) \in Nat /\ Len(file') \in Nat /\ Len(file) <= Len(file')
  BY LenProperties DEF SafeInv, TypeInv, TypeOK, Keeps
<1> HIDE DEF i
<1>3. i \in 1..Len(file')
  BY <1>1, <1>2
<1>4. file'[i] \in {call[p].dst, FN_SAFEDEL}
  BY <1>1 DEF Keeps
<1> QED
  BY <1>3, <1>4 DEF i

LEMMA AppendRecordSafe ==
    ASSUME SafeOps, SafeInv, NEW p \in Procs, AppendRecord(p)
    PROVE  SafeInv'
<1>0. TypeInv' /\ Keeps
  BY AppendRecordType, StepKeeps DEF SafeInv, Next
<1>a. /\ pc \in [Procs -> Labels] /\ call \in [Procs -> Call] /\ file \in Seq(Record)
      /\ Len(file) \in Nat /\ Names \subseteq Record /\ FN_SAFEDEL \notin Names
      /\ stamped \subseteq Names
  BY LenProperties, NamesAssumption DEF SafeInv, TypeInv, TypeOK, Record
<1> USE DEF Stamping, InFlock, InRange, Substituting, Deleting
<1>1. CASE CallAppend(p)
  <2> PICK n \in Names \ stamped :
        /\ stamped' = stamped \cup {n}
        /\ call' = [call EXCEPT ![p] = [NoCall EXCEPT !.dst = n]]
    BY <1>1 DEF CallAppend
  <2>1. /\ pc' = [pc EXCEPT ![p] = "append_flock"] /\ pc[p] = "idle"
        /\ UNCHANGED <<file, flk, lck, index>>
    BY <1>1 DEF CallAppend, Goto
  <2>2. call'[p].dst = n /\ \A q \in Procs \ {p} : call'[q] = call[q]
    BY <1>a DEF NoCall
  <2>3. OnlySafeSteps' /\ OneAppender'
    BY <1>a, <2>1, <2>2 DEF SafeInv, OnlySafeSteps, OneAppender
  <2>4. NamesAreFresh'
    BY <1>a, <2>1, <2>2 DEF SafeInv, NamesAreFresh
  <2>5. WrittenStays' /\ OneSubstituter'
    BY <1>a, <2>1, <2>2 DEF SafeInv, WrittenStays, OneSubstituter, SubStart
  <2>6. AppendedStays'
    BY <1>0, <2>1, KeepsAppended
  <2> QED
    BY <1>0, <2>3, <2>4, <2>5, <2>6 DEF SafeInv
<1>2. CASE AppendFlock(p)
  <2>1. /\ pc' = [pc EXCEPT ![p] = "append_seek"] /\ pc[p] = "append_flock"
        /\ flk = {} /\ flk' = {p} /\ UNCHANGED <<file, lck, call, stamped, index>>
    BY <1>2 DEF AppendFlock, Goto
  <2>2. OnlySafeSteps' /\ OneAppender' /\ NamesAreFresh'
    BY <1>a, <2>1 DEF SafeInv, OnlySafeSteps, OneAppender, NamesAreFresh
  <2>3. WrittenStays' /\ OneSubstituter'
    BY <1>a, <2>1 DEF SafeInv, WrittenStays, OneSubstituter, SubStart
  <2>4. AppendedStays'
    BY <1>0, <2>1, KeepsAppended
  <2> QED
    BY <1>0, <2>2, <2>3, <2>4 DEF SafeInv
<1>3. CASE AppendSeek(p)
  <2>1. /\ pc' = [pc EXCEPT ![p] = "append_write"] /\ pc[p] = "append_seek"
        /\ call' = [call EXCEPT ![p].size = Len(file)]
        /\ UNCHANGED <<file, flk, lck, stamped, index>>
    BY <1>3 DEF AppendSeek, Goto
  <2>2. /\ call'[p].size = Len(file) /\ call'[p].dst = call[p].dst
        /\ \A q \in Procs \ {p} : call'[q] = call[q]
    BY <1>a, <2>1 DEF Call
  <2>3. OnlySafeSteps' /\ OneAppender' /\ NamesAreFresh'
    BY <1>a, <2>1, <2>2 DEF SafeInv, OnlySafeSteps, OneAppender, NamesAreFresh
  <2>4. WrittenStays' /\ OneSubstituter'
    BY <1>a, <2>1, <2>2 DEF SafeInv, WrittenStays, OneSubstituter, SubStart
  <2>5. AppendedStays'
    BY <1>0, <2>1, KeepsAppended
  <2> QED
    BY <1>0, <2>3, <2>4, <2>5 DEF SafeInv
<1>4. CASE AppendWrite(p)
  <2>1. /\ pc' = [pc EXCEPT ![p] = "append_out"] /\ pc[p] = "append_write"
        /\ UNCHANGED <<flk, lck, call, stamped, index>>
    BY <1>4 DEF AppendWrite, Goto
  <2>2. /\ file' = Append(file, call[p].dst) /\ call[p].dst \in Names
        /\ call[p].dst \in stamped /\ call[p].size = Len(file)
    BY <1>4, AppendWriteAppends
  <2>3. /\ Len(file') = Len(file) + 1 /\ file'[Len(file) + 1] = call[p].dst
        /\ \A i \in 1..Len(file) : file'[i] = file[i]
    BY <1>a, <2>2, AppendProperties
  <2>4. \A i \in 1..Len(file') : i \in 1..Len(file) \/ i = Len(file) + 1
    BY <1>a, <2>3
  <2>5. OnlySafeSteps' /\ OneAppender'
    BY <1>a, <2>1 DEF SafeInv, OnlySafeSteps, OneAppender
  <2>6. NamesAreFresh'
    BY <1>a, <2>1, <2>2, <2>3, <2>4 DEF SafeInv, NamesAreFresh
  <2>7. WrittenStays'
    <3>1. Len(file) + 1 \in 1..Len(file')
      BY <1>a, <2>3
    <3> QED
      BY <1>0, <1>a, <2>1, <2>2, <2>3, <3>1, KeepsWritten DEF WrittenStays
  <2>8. OneSubstituter'
    <3>1. \A i \in 1..Len(file) : i \in 1..Len(file')
      BY <1>a, <2>3
    <3> QED
      BY ZenonT(60), <1>a, <2>1, <2>3, <3>1 DEF SafeInv, OneSubstituter, SubStart
  <2>9. AppendedStays'
    BY <1>0, <2>1, KeepsAppended
  <2> QED
    BY <1>0, <2>5, <2>6, <2>7, <2>8, <2>9 DEF SafeInv
<1>5. CASE AppendOut(p)
  <2>1. /\ pc' = [pc EXCEPT ![p] = "idle"] /\ pc[p] = "append_out"
        /\ flk' = flk \ {p} /\ call' = [call EXCEPT ![p] = NoCall]
        /\ index' = [index EXCEPT ![call[p].dst] = call[p].size + 1]
        /\ UNCHANGED <<file, lck, stamped>>
    BY <1>5 DEF AppendOut, Return, Goto
  <2>2. \A q \in Procs \ {p} : call'[q] = call[q]
    BY <1>a, <2>1
  <2>3. OnlySafeSteps' /\ OneAppender' /\ NamesAreFresh'
    BY <1>a, <2>1, <2>2 DEF SafeInv, OnlySafeSteps, OneAppender, NamesAreFresh
  <2>4. WrittenStays' /\ OneSubstituter'
    BY <1>a, <2>1, <2>2 DEF SafeInv, WrittenStays, OneSubstituter, SubStart
  <2>5. AppendedStays'
    <3> SUFFICES ASSUME NEW n \in Names, index'[n] # 0
                 PROVE  index'[n] <= Len(file) /\ file[index'[n]] \in {n, FN_SAFEDEL}
      BY <2>1 DEF AppendedStays
    <3>1. index \in [Names -> Nat]
      BY DEF SafeInv, TypeInv, TypeOK
    <3>2. CASE n = call[p].dst
      <4> DEFINE i == call[p].size + 1
      <4>1. i \in 1..Len(file) /\ file[i] \in {n, FN_SAFEDEL}
        BY <2>1, <3>2 DEF SafeInv, WrittenStays
      <4>2. index'[n] = i
        BY <2>1, <3>1, <3>2
      <4> HIDE DEF i
      <4> QED
        BY <1>a, <4>1, <4>2
    <3>3. CASE n # call[p].dst
      BY <2>1, <3>1, <3>3 DEF SafeInv, AppendedStays
    <3> QED
      BY <3>2, <3>3
  <2> QED
    BY <1>0, <2>3, <2>4, <2>5 DEF SafeInv
<1> QED
  BY <1>1, <1>2, <1>3, <1>4, <1>5 DEF AppendRecord

\* A process that leaves its call does not disturb the others.
LEMMA IdleSafe ==
    ASSUME SafeInv, NEW p \in Procs, pc'[p] = "idle", file' = file,
           \A q \in Procs \ {p} :
                pc'[q] = pc[q] /\ call'[q] = call[q] /\ lck'[q] = lck[q]
    PROVE  WrittenStays' /\ OneSubstituter'
<1>1. WrittenStays'
  BY DEF SafeInv, WrittenStays
<1> USE DEF Substituting, InRange
<1>2. ASSUME NEW q \in Procs, pc'[q] \in Substituting
      PROVE  /\ call'[q].cmp /\ call'[q].id \in 1..Len(file')
             /\ call'[q].dst \in {call'[q].src, FN_SAFEDEL}
  BY <1>2 DEF SafeInv, OneSubstituter
<1>3. ASSUME NEW q \in Procs, pc'[q] \in InRange
      PROVE  lck'[q] = [lo |-> SubStart(q)', len |-> 1]
  BY <1>3 DEF SafeInv, OneSubstituter, SubStart
<1>4. ASSUME NEW q \in Procs, NEW r \in Procs, q # r, pc'[q] \in InRange,
             pc'[r] \in InRange
      PROVE  call'[q].id # call'[r].id
  BY <1>4 DEF SafeInv, OneSubstituter
<1>5. ASSUME NEW q \in Procs, pc'[q] = "sub_write"
      PROVE  file'[call'[q].id] = call'[q].src
  BY <1>5 DEF SafeInv, OneSubstituter
<1> QED
  BY <1>1, <1>2, <1>3, <1>4, <1>5 DEF OneSubstituter

LEMMA SubstituteRecordSafe ==
    ASSUME SafeOps, SafeInv, NEW p \in Procs, SubstituteRecord(p)
    PROVE  SafeInv'
<1>0. TypeInv' /\ Keeps
  BY SubstituteRecordType, StepKeeps DEF SafeInv, Next
<1>a. /\ pc \in [Procs -> Labels] /\ call \in [Procs -> Call] /\ file \in Seq(Record)
      /\ Len(file) \in Nat /\ FN_SAFEDEL \notin stamped
  BY LenProperties, NamesAssumption DEF SafeInv, TypeInv, TypeOK
<1> USE DEF Stamping, InFlock, InRange, Substituting, Deleting
<1>1. CASE CallSubstitute(p)
  BY <1>1 DEF CallSubstitute, SafeOps
<1>2. CASE CallSubstitute2(p)
  <2> PICK i \in 1..Len(file) : \E n \in {file[i], FN_SAFEDEL} :
        call' = [call EXCEPT ![p] = [Pick(i) EXCEPT !.cmp = TRUE, !.dst = n]]
    BY <1>2 DEF CallSubstitute2
  <2> PICK n \in {file[i], FN_SAFEDEL} :
        call' = [call EXCEPT ![p] = [Pick(i) EXCEPT !.cmp = TRUE, !.dst = n]]
    OBVIOUS
  <2>1. /\ pc' = [pc EXCEPT ![p] = "sub_lock"] /\ pc[p] = "idle"
        /\ UNCHANGED <<file, flk, lck, stamped, index>>
    BY <1>2 DEF CallSubstitute2, Goto
  <2>2. /\ call'[p].cmp /\ call'[p].id = i
        /\ call'[p].dst \in {call'[p].src, FN_SAFEDEL}
        /\ \A q \in Procs \ {p} : call'[q] = call[q]
    BY <1>a DEF Pick, NoCall
  <2>3. OnlySafeSteps' /\ OneAppender' /\ NamesAreFresh'
    BY <1>a, <2>1, <2>2 DEF SafeInv, OnlySafeSteps, OneAppender, NamesAreFresh
  <2>4. WrittenStays' /\ OneSubstituter'
    BY <1>a, <2>1, <2>2 DEF SafeInv, WrittenStays, OneSubstituter, SubStart
  <2>5. AppendedStays'
    BY <1>0, <2>1, KeepsAppended
  <2> QED
    BY <1>0, <2>3, <2>4, <2>5 DEF SafeInv
<1>3. CASE SubLock(p)
  <2> DEFINE l == [lo |-> SubStart(p), len |-> 1]
  <2>1. /\ pc' = [pc EXCEPT ![p] = "sub_read"] /\ pc[p] = "sub_lock"
        /\ lck' = [lck EXCEPT ![p] = l]
        /\ \A q \in Procs \ {p} : ~ Overlap(l, lck[q])
        /\ UNCHANGED <<file, flk, call, stamped, index>>
    BY <1>3 DEF SubLock, PttLock, Goto, SafeInv, OneSubstituter
  <2>2. \A q \in Procs \ {p} : pc[q] \in InRange => call[q].id # call[p].id
    <3> SUFFICES ASSUME NEW q \in Procs \ {p}, pc[q] \in InRange,
                        call[q].id = call[p].id
                 PROVE  FALSE
      OBVIOUS
    <3>1. lck[q] = [lo |-> SubStart(q), len |-> 1] /\ SubStart(q) = SubStart(p)
      BY DEF SafeInv, OneSubstituter, SubStart
    <3>2. SubStart(p) \in Int /\ SubStart(p) >= 0
      <4>1. call[p].id \in 1..Len(file)
        BY <2>1 DEF SafeInv, OneSubstituter
      <4> QED
        BY <1>a, <4>1 DEF SubStart
    <3>3. l # NoLock /\ l.lo = SubStart(p) /\ l.len = 1
      BY <3>2 DEF NoLock
    <3>4. Covers(l, lck[q].lo)
      BY <3>1, <3>2, <3>3 DEF Covers
    <3> QED
      BY <2>1, <3>4 DEF Overlap
  <2>3. OnlySafeSteps' /\ OneAppender' /\ NamesAreFresh'
    BY <1>a, <2>1 DEF SafeInv, OnlySafeSteps, OneAppender, NamesAreFresh
  <2>4. WrittenStays'
    BY <1>a, <2>1 DEF SafeInv, WrittenStays
  <2>5. OneSubstituter'
    <3>1. lck \in [Procs -> Lock]
      BY DEF SafeInv, TypeInv, TypeOK
    <3> QED
      BY <1>a, <2>1, <2>2, <3>1 DEF SafeInv, OneSubstituter, SubStart
  <2>6. AppendedStays'
    BY <1>0, <2>1, KeepsAppended
  <2> QED
    BY <1>0, <2>3, <2>4, <2>5, <2>6 DEF SafeInv
<1>4. CASE SubRead(p)
  <2>1. /\ pc[p] = "sub_read"
        /\ pc' = [pc EXCEPT ![p] = IF SameName(p) THEN "sub_write" ELSE "sub_close"]
        /\ UNCHANGED <<file, flk, lck, call, stamped, index>>
    BY <1>4 DEF SubRead, Goto
  <2>2. /\ pc'[p] \in {"sub_write", "sub_close"}
        /\ pc'[p] = "sub_write" => file[call[p].id] = call[p].src
        /\ \A q \in Procs \ {p} : pc'[q] = pc[q]
    BY <1>a, <2>1 DEF SameName
  <2>3. OnlySafeSteps' /\ OneAppender' /\ NamesAreFresh'
    BY <2>1, <2>2 DEF SafeInv, OnlySafeSteps, OneAppender, NamesAreFresh
  <2>4. WrittenStays' /\ OneSubstituter'
    BY <2>1, <2>2 DEF SafeInv, WrittenStays, OneSubstituter, SubStart
  <2>5. AppendedStays'
    BY <1>0, <2>1, KeepsAppended
  <2> QED
    BY <1>0, <2>3, <2>4, <2>5 DEF SafeInv
<1>5. CASE SubWrite(p)
  <2> DEFINE i == call[p].id
  <2>1. /\ pc' = [pc EXCEPT ![p] = "sub_close"] /\ pc[p] = "sub_write"
        /\ UNCHANGED <<flk, lck, call, stamped, index>>
    BY <1>5 DEF SubWrite, Goto
  <2>2. /\ file' = [file EXCEPT ![i] = call[p].dst] /\ i \in 1..Len(file)
        /\ call[p].dst \in {file[i], FN_SAFEDEL} /\ call[p].dst \in Record
    BY <1>5, SubWriteReplaces
  <2>3. /\ Len(file') = Len(file)
        /\ \A j \in 1..Len(file) : file'[j] = IF j = i THEN call[p].dst ELSE file[j]
    BY <1>a, <2>2, ExceptSeq
  <2>4. OnlySafeSteps' /\ OneAppender'
    BY <1>a, <2>1, <2>3 DEF SafeInv, OnlySafeSteps, OneAppender
  <2>5. NamesAreFresh'
    BY <1>a, <2>1, <2>2, <2>3 DEF SafeInv, NamesAreFresh
  <2>6. WrittenStays'
    BY <1>0, <1>a, <2>1, KeepsWritten DEF WrittenStays
  <2>7. OneSubstituter'
    <3>1. ASSUME NEW q \in Procs, pc'[q] = "sub_write"
          PROVE  file'[call[q].id] = call[q].src
      <4>1. q # p /\ pc[q] = "sub_write"
        BY <1>a, <2>1, <3>1
      <4>2. /\ call[q].id \in 1..Len(file) /\ call[q].id # i
            /\ file[call[q].id] = call[q].src
        BY <2>1, <4>1 DEF SafeInv, OneSubstituter
      <4> QED
        BY <2>3, <4>2
    <3> HIDE DEF i
    <3>2. \A q \in Procs : pc'[q] \in InRange => pc[q] \in InRange
      BY <1>a, <2>1
    <3>3. \A q \in Procs : pc'[q] \in Substituting => pc[q] \in Substituting
      BY <1>a, <2>1
    <3> QED
      BY <2>1, <2>3, <3>1, <3>2, <3>3 DEF SafeInv, OneSubstituter, SubStart
  <2>8. AppendedStays'
    BY <1>0, <2>1, KeepsAppended
  <2> QED
    BY <1>0, <2>4, <2>5, <2>6, <2>7, <2>8 DEF SafeInv
<1>6. CASE SubClose(p)
  <2>1. /\ pc' = [pc EXCEPT ![p] = "idle"] /\ pc[p] = "sub_close"
        /\ call' = [call EXCEPT ![p] = NoCall]
        /\ lck' = [lck EXCEPT ![p] = NoLock]
        /\ UNCHANGED <<file, flk, stamped, index>>
    BY <1>6 DEF SubClose, CloseDropsLocks, Return, Goto
  <2>2. OnlySafeSteps' /\ OneAppender' /\ NamesAreFresh'
    BY <1>a, <2>1 DEF SafeInv, OnlySafeSteps, OneAppender, NamesAreFresh
  <2>3. WrittenStays' /\ OneSubstituter'
    <3>1. /\ pc'[p] = "idle"
          /\ \A q \in Procs \ {p} :
               pc'[q] = pc[q] /\ call'[q] = call[q] /\ lck'[q] = lck[q]
      BY <1>a, <2>1 DEF SafeInv, TypeInv, TypeOK
    <3> QED
      BY <2>1, <3>1, IdleSafe
  <2>4. AppendedStays'
    BY <1>0, <2>1, KeepsAppended
  <2> QED
    BY <1>0, <2>2, <2>3, <2>4 DEF SafeInv
<1> QED
  BY <1>1, <1>2, <1>3, <1>4, <1>5, <1>6 DEF SubstituteRecord

LEMMA CrashSafe ==
    ASSUME SafeOps, SafeInv, NEW p \in Procs, Crash(p)
    PROVE  SafeInv'
<1>0. TypeInv' /\ Keeps
  BY NextType, StepKeeps DEF SafeInv, Next
<1>a. pc \in [Procs -> Labels] /\ call \in [Procs -> Call]
  BY DEF SafeInv, TypeInv, TypeOK
<1>1. /\ pc' = [pc EXCEPT ![p] = "idle"] /\ call' = [call EXCEPT ![p] = NoCall]
      /\ flk' = flk \ {p} /\ lck' = [lck EXCEPT ![p] = NoLock]
      /\ UNCHANGED <<file, stamped, index>>
  BY DEF Crash, CloseDropsLocks, Return, Goto
<1> USE DEF Stamping, InFlock, InRange, Substituting, Deleting
<1>2. OnlySafeSteps' /\ OneAppender' /\ NamesAreFresh'
  BY <1>a, <1>1 DEF SafeInv, OnlySafeSteps, OneAppender, NamesAreFresh
<1>3. WrittenStays' /\ OneSubstituter'
  <2>1. /\ pc'[p] = "idle"
        /\ \A q \in Procs \ {p} :
             pc'[q] = pc[q] /\ call'[q] = call[q] /\ lck'[q] = lck[q]
    BY <1>a, <1>1 DEF SafeInv, TypeInv, TypeOK
  <2> QED
    BY <1>1, <2>1, IdleSafe
<1>4. AppendedStays'
  BY <1>0, <1>1, KeepsAppended
<1> QED
  BY <1>0, <1>2, <1>3, <1>4 DEF SafeInv

LEMMA NextSafe ==
    ASSUME SafeOps, SafeInv, [Next]_vars
    PROVE  SafeInv'
<1>1. ASSUME NEW p \in Procs, DeleteRecord(p) PROVE SafeInv'
  BY <1>1 DEF DeleteRecord, CallDelete2, CallDeletes, DelStat, DelLock,
              DelRead, DelCopyRead, DelCopyWrite, DelClose, DelTruncate,
              SafeOps, SafeInv, OnlySafeSteps, Deleting
<1>2. CASE UNCHANGED vars
  BY <1>2 DEF vars, SafeInv, TypeInv, TypeOK, OnlySafeSteps, OneAppender,
              NamesAreFresh, WrittenStays, OneSubstituter, AppendedStays, SubStart
<1> QED
  BY <1>1, <1>2, AppendRecordSafe, SubstituteRecordSafe, CrashSafe DEF Next

LEMMA SpecSafe ==
    ASSUME SafeOps
    PROVE  Spec => []SafeInv
<1>1. SafeInv /\ [Next]_vars => SafeInv'
  BY NextSafe
<1> QED
  BY <1>1, InitSafe, PTL DEF Spec

\* However many processes post and safely delete, the number append_record
\* returned stays the number of that entry (record.c:92-154).
THEOREM AppendedStaysCorrect ==
    ASSUME SafeOps
    PROVE  Spec => []AppendedStays
<1>1. SafeInv => AppendedStays
  BY DEF SafeInv
<1> QED
  BY <1>1, SpecSafe, PTL

\* The compare and the write of substitute_record2 are one step to every
\* other substituter, although the locked range is not the entry's
\* (record.c:133-149).
THEOREM SubstituteCorrect ==
    ASSUME SafeOps
    PROVE  Spec => SubstituteRewritesWhatItRead
<1>1. SafeInv /\ [Next]_vars =>
        [\A p \in Procs : SubWrite(p) /\ call[p].cmp =>
            /\ call[p].id <= Len(file)
            /\ file[call[p].id] = call[p].src]_vars
  <2> SUFFICES ASSUME SafeInv, NEW p \in Procs, SubWrite(p)
               PROVE  call[p].id <= Len(file) /\ file[call[p].id] = call[p].src
    OBVIOUS
  <2>1. call[p].id \in 1..Len(file) /\ file[call[p].id] = call[p].src
    BY DEF SubWrite, SafeInv, OneSubstituter, Substituting
  <2>2. Len(file) \in Nat
    BY LenProperties DEF SafeInv, TypeInv, TypeOK
  <2> QED
    BY <2>1, <2>2
<1> QED
  BY <1>1, SpecSafe, PTL DEF Spec, SubstituteRewritesWhatItRead

-----------------------------------------------------------------------------
(* The refinement of RecordLog: writes of append_record and                *)
(* substitute_record2 are the steps that take effect, a death before the   *)
(* write gives a stamped name up, everything else stutters.                *)

LEMMA InitListing == Init => Listing!LogInit
<1> SUFFICES ASSUME Init PROVE Listing!LogInit
  OBVIOUS
<1>1. Pending = {}
  BY DEF Init, Pending
<1>2. \A i \in 1..Len(file) : file[i] \in Names
  BY NamesAssumption, ElementOfSeq DEF Init
<1>3. file \in Seq(Names \cup {FN_SAFEDEL})
  BY NamesAssumption, SeqMonotonic DEF Init
<1>4. FN_SAFEDEL \notin stamped \ Pending
  BY <1>2, NamesAssumption DEF Init
<1> QED
  BY <1>1, <1>3, <1>4 DEF Init, Listing!LogInit, Listing!Header

LEMMA NextListing ==
    ASSUME SafeOps, SafeInv, SafeInv', [Next]_vars
    PROVE  [Listing!LogNext]_<<file, stamped \ Pending>>
<1>a. /\ pc \in [Procs -> Labels] /\ call \in [Procs -> Call]
      /\ stamped \subseteq Names
  BY DEF SafeInv, TypeInv, TypeOK
<1> DEFINE spent == stamped \ Pending
<1> USE DEF Stamping
<1>1. ASSUME file' = file, stamped' = stamped,
             \A q \in Procs : pc'[q] \in Stamping <=> pc[q] \in Stamping,
             \A q \in Procs : pc[q] \in Stamping => call'[q].dst = call[q].dst
      PROVE  UNCHANGED <<file, spent>>
  BY <1>1 DEF Pending
<1>2. ASSUME NEW p \in Procs, CallAppend(p) PROVE UNCHANGED <<file, spent>>
  <2> PICK n \in Names \ stamped :
        /\ stamped' = stamped \cup {n}
        /\ call' = [call EXCEPT ![p] = [NoCall EXCEPT !.dst = n]]
    BY <1>2 DEF CallAppend
  <2>1. /\ pc' = [pc EXCEPT ![p] = "append_flock"] /\ pc[p] = "idle"
        /\ file' = file
    BY <1>2 DEF CallAppend, Goto
  <2>2. call'[p].dst = n /\ \A q \in Procs \ {p} : call'[q] = call[q]
    BY <1>a DEF NoCall
  <2>3. Pending' = Pending \cup {n}
    BY <1>a, <2>1, <2>2 DEF Pending
  <2> QED
    BY <2>1, <2>3
<1>3. ASSUME NEW p \in Procs, AppendWrite(p) PROVE Listing!LogNext
  <2> DEFINE n == call[p].dst
  <2>1. /\ pc' = [pc EXCEPT ![p] = "append_out"] /\ pc[p] = "append_write"
        /\ UNCHANGED <<call, stamped>>
    BY <1>3 DEF AppendWrite, Goto
  <2>2. file' = Append(file, n) /\ n \in Names /\ n \in stamped
    BY <1>3, AppendWriteAppends
  <2>3. \A q \in Procs \ {p} : pc[q] \in Stamping => call[q].dst # n
    BY <2>1 DEF SafeInv, NamesAreFresh
  <2>4. Pending' = Pending \ {n} /\ n \in Pending
    BY <1>a, <2>1, <2>3 DEF Pending
  <2>5. spent' = spent \cup {n}
    BY <2>1, <2>2, <2>4
  <2>6. Listing!AppendEntry(n)
    BY <2>2, <2>4, <2>5 DEF Listing!AppendEntry
  <2> QED
    BY <2>2, <2>6 DEF Listing!LogNext, Listing!Header
<1>4. ASSUME NEW p \in Procs, SubWrite(p) PROVE [Listing!LogNext]_<<file, spent>>
  <2> DEFINE i == call[p].id  h == call[p].dst
  <2>1. /\ pc' = [pc EXCEPT ![p] = "sub_close"] /\ pc[p] = "sub_write"
        /\ UNCHANGED <<call, stamped>>
    BY <1>4 DEF SubWrite, Goto
  <2>2. /\ file' = [file EXCEPT ![i] = h] /\ i \in 1..Len(file)
        /\ h \in {file[i], FN_SAFEDEL}
    BY <1>4, SubWriteReplaces
  <2>3. Pending' = Pending
    BY <1>a, <2>1 DEF Pending
  <2>4. Listing!RewriteEntry(i, h)
    BY <2>1, <2>2, <2>3 DEF Listing!RewriteEntry
  <2>5. h \in Listing!Header
    BY <1>a, <2>2 DEF SafeInv, NamesAreFresh, Listing!Header
  <2> QED
    BY <2>2, <2>4, <2>5 DEF Listing!LogNext
<1>5. ASSUME NEW p \in Procs, Crash(p) PROVE [Listing!LogNext]_<<file, spent>>
  <2>1. /\ pc' = [pc EXCEPT ![p] = "idle"] /\ call' = [call EXCEPT ![p] = NoCall]
        /\ UNCHANGED <<file, stamped>>
    BY <1>5 DEF Crash, Return, Goto
  <2>2. CASE pc[p] \in Stamping
    <3> DEFINE n == call[p].dst
    <3>1. n \in stamped /\ n \in Names
      BY <1>a, <2>2 DEF SafeInv, NamesAreFresh
    <3>2. \A q \in Procs \ {p} : pc[q] \in Stamping => call[q].dst # n
      BY <2>2 DEF SafeInv, NamesAreFresh
    <3>3. Pending' = Pending \ {n} /\ n \in Pending
      BY <1>a, <2>1, <2>2, <3>2 DEF Pending
    <3>4. Listing!GiveUp(n)
      BY <2>1, <3>1, <3>3 DEF Listing!GiveUp
    <3> QED
      BY <3>1, <3>4 DEF Listing!LogNext
  <2>3. CASE pc[p] \notin Stamping
    BY <1>a, <1>1, <2>1, <2>3
  <2> QED
    BY <2>2, <2>3
<1>6. ASSUME NEW p \in Procs, AppendFlock(p) \/ AppendSeek(p) \/ AppendOut(p)
      PROVE  UNCHANGED <<file, spent>>
  <2>1. /\ file' = file /\ stamped' = stamped
        /\ \A q \in Procs \ {p} : pc'[q] = pc[q] /\ call'[q] = call[q]
    BY <1>a, <1>6 DEF AppendFlock, AppendSeek, AppendOut, Goto, Return
  <2>2. CASE AppendFlock(p) \/ AppendSeek(p)
    <3>1. /\ pc[p] \in Stamping /\ pc'[p] \in Stamping
          /\ call'[p].dst = call[p].dst
      BY <1>a, <2>2 DEF AppendFlock, AppendSeek, Goto, Call
    <3> QED
      BY <1>1, <2>1, <3>1
  <2>3. CASE AppendOut(p)
    <3>1. pc[p] \notin Stamping /\ pc'[p] \notin Stamping
      BY SMTT(40), <1>a, <2>3 DEF AppendOut, Goto, Return
    <3> QED
      BY <1>1, <2>1, <3>1
  <2> QED
    BY <1>6, <2>2, <2>3
<1>7. ASSUME NEW p \in Procs, CallSubstitute2(p) \/ SubLock(p) \/ SubRead(p) \/ SubClose(p)
      PROVE  UNCHANGED <<file, spent>>
  <2>1. /\ file' = file /\ stamped' = stamped
        /\ \A q \in Procs \ {p} : pc'[q] = pc[q] /\ call'[q] = call[q]
    BY ZenonT(60), <1>a, <1>7 DEF CallSubstitute2, SubLock, SubRead, SubClose, Goto, Return
  <2>2. pc[p] \notin Stamping /\ pc'[p] \notin Stamping
    BY <1>a, <1>7 DEF CallSubstitute2, SubLock, SubRead, SubClose, Goto, Return
  <2> QED
    BY <1>1, <2>1, <2>2
<1>8. ASSUME NEW p \in Procs, CallSubstitute(p) \/ DeleteRecord(p) PROVE FALSE
  BY <1>8 DEF CallSubstitute, DeleteRecord, CallDelete2, CallDeletes, DelStat,
              DelLock, DelRead, DelCopyRead, DelCopyWrite, DelClose,
              DelTruncate, SafeOps, SafeInv, OnlySafeSteps, Deleting
<1>9. CASE UNCHANGED vars
  BY <1>9 DEF vars, Pending
<1> QED
  BY <1>2, <1>3, <1>4, <1>5, <1>6, <1>7, <1>8, <1>9
  DEF Next, AppendRecord, SubstituteRecord

\* Posting and safe deletion implement the stable listing (record.c:92-154
\* as mbbsd/record.c:291 and bbs.c use it).
THEOREM ListingCorrect ==
    ASSUME SafeOps
    PROVE  Spec => ImplementsListing
<1>1. SafeInv /\ SafeInv' /\ [Next]_vars =>
        [Listing!LogNext]_<<file, stamped \ Pending>>
  BY NextListing
<1> QED
  BY <1>1, InitListing, SpecSafe, PTL DEF Spec, ImplementsListing, Listing!LogSpec

-----------------------------------------------------------------------------
(* One call at a time.  Any number of processes use every operation, and   *)
(* each call ends (or its process dies) before the next one starts.        *)

OneAtATime == \A p, q \in Procs : p # q => pc[p] = "idle" \/ pc[q] = "idle"

\* The entries a call c names are there in the listing f.
Picked(c, f) ==
    /\ c.num # 0
    /\ c.id + c.num - 1 <= Len(f)
    /\ c.cmp => c.num = 1 /\ f[c.id] = c.src

\* The records behind the deleted ones.
Behind(c) == c.size - (c.id - 1) - c.num

\* f is the listing s with d records moved down by k to entry i and behind.
MovedBy(f, s, i, k, d) ==
    /\ Len(f) = Len(s)
    /\ i + k + d - 1 <= Len(s)
    /\ \A j \in 1..Len(s) : f[j] = IF j >= i /\ j < i + d THEN s[j + k] ELSE s[j]

\* Half way through its loop a delete has moved d of them.
Moved(c, f) ==
    /\ Len(c.seen) = c.size
    /\ Picked(c, c.seen)
    /\ MovedBy(f, c.seen, c.id, c.num, c.d)

\* The records it has read are the next ones of those it found.
InBuf(c) ==
    /\ Len(c.buf) # 0
    /\ c.id + c.num + c.d + Len(c.buf) - 1 <= Len(c.seen)
    /\ \A j \in 1..Len(c.buf) : c.buf[j] = c.seen[c.id + c.num + c.d + j - 1]

Sized == {"del_lock", "del_read"}
Copying == {"del_copy_read", "del_copy_write", "del_close", "del_truncate"}

\* What a call c that has got to label l knows of the file f.
Knows(l, c, f) ==
    /\ l = "append_write" => c.size = Len(f)
    /\ l \in {"sub_lock", "sub_read", "sub_write"} =>
          /\ c.id <= Len(f)
          /\ IF c.cmp THEN f[c.id] = c.src ELSE f[c.id] = c.dst
    /\ l \in {"del_stat"} \cup Sized => Picked(c, f) /\ c.d = 0
    /\ l \in Sized => c.size = Len(f)
    /\ l = "del_read" => c.seen = f
    /\ l \in Copying => Moved(c, f)
    /\ l = "del_copy_write" => InBuf(c)
    /\ l \in {"del_close", "del_truncate"} => c.d = Behind(c)

AloneInv == \A p \in Procs : Knows(pc[p], call[p], file)

-----------------------------------------------------------------------------
\* A block written inside the file changes that block only.
LEMMA WriteAtBlock ==
    ASSUME NEW f \in Seq(Record), NEW o \in Nat, NEW rs \in Seq(Record),
           o + Len(rs) <= Len(f)
    PROVE  /\ Len(WriteAt(f, o, rs)) = Len(f)
           /\ \A j \in 1..Len(f) : WriteAt(f, o, rs)[j] =
                IF j > o /\ j <= o + Len(rs) THEN rs[j - o] ELSE f[j]
<1>1. Len(f) \in Nat /\ Len(rs) \in Nat
  BY LenProperties
<1>2. (IF Len(f) > o + Len(rs) THEN Len(f) ELSE o + Len(rs)) = Len(f)
  BY <1>1
<1>3. WriteAt(f, o, rs) = [j \in 1..Len(f) |->
            IF j > o /\ j <= o + Len(rs) THEN rs[j - o]
            ELSE IF j <= Len(f) THEN f[j] ELSE Zero]
  BY <1>2 DEF WriteAt
<1>4. WriteAt(f, o, rs) \in Seq(Record)
  BY WriteAtType
<1>5. DOMAIN WriteAt(f, o, rs) = 1..Len(f)
  BY <1>3
<1>6. Len(WriteAt(f, o, rs)) = Len(f)
  BY <1>1, <1>4, <1>5, LenProperties
<1>7. \A j \in 1..Len(f) : WriteAt(f, o, rs)[j] =
                IF j > o /\ j <= o + Len(rs) THEN rs[j - o] ELSE f[j]
  BY <1>1, <1>3
<1> QED
  BY <1>6, <1>7

LEMMA TruncateCuts ==
    ASSUME NEW f \in Seq(Record), NEW n \in Nat, n <= Len(f)
    PROVE  /\ Len(Truncate(f, n)) = n
           /\ \A j \in 1..n : Truncate(f, n)[j] = f[j]
<1>1. Len(f) \in Nat
  BY LenProperties
<1>2. Truncate(f, n) \in Seq(Record)
  BY TruncateType
<1>3. Truncate(f, n) = [i \in 1..n |-> IF i <= Len(f) THEN f[i] ELSE Zero]
  BY DEF Truncate
<1>4. Len(Truncate(f, n)) = n
  BY <1>2, <1>3, LenProperties
<1>5. \A j \in 1..n : Truncate(f, n)[j] = f[j]
  BY <1>1, <1>3
<1> QED
  BY <1>4, <1>5

LEMMA CallTypes ==
    ASSUME NEW c \in Call
    PROVE  /\ c.id \in Nat /\ c.num \in Nat /\ c.size \in Nat /\ c.d \in Nat
           /\ c.buf \in Seq(Record) /\ c.seen \in Seq(Record)
           /\ Len(c.buf) \in Nat /\ Len(c.seen) \in Nat
           /\ c.src \in Record /\ c.dst \in Record /\ c.cmp \in BOOLEAN
<1>1. c.buf \in Seq(Record) /\ c.seen \in Seq(Record)
  BY DEF Call
<1>2. Len(c.buf) \in Nat /\ Len(c.seen) \in Nat
  BY <1>1, LenProperties
<1> QED
  BY <1>1, <1>2 DEF Call

\* The next block of the loop: the records rs move to where they belong.
LEMMA CopyBlock ==
    ASSUME NEW f \in Seq(Record), NEW s \in Seq(Record), NEW rs \in Seq(Record),
           NEW i \in Nat \ {0}, NEW k \in Nat, NEW d \in Nat,
           MovedBy(f, s, i, k, d), i + k + d + Len(rs) - 1 <= Len(s),
           \A j \in 1..Len(rs) : rs[j] = s[i + k + d + j - 1]
    PROVE  MovedBy(WriteAt(f, i - 1 + d, rs), s, i, k, d + Len(rs))
<1> DEFINE o == i - 1 + d
           g == WriteAt(f, o, rs)
<1>0. Len(f) \in Nat /\ Len(s) \in Nat /\ Len(rs) \in Nat
  BY LenProperties
<1>1. /\ Len(f) = Len(s)
      /\ \A j \in 1..Len(s) :
            f[j] = IF j >= i /\ j < i + d THEN s[j + k] ELSE s[j]
  BY DEF MovedBy
<1>2. o \in Nat /\ o + Len(rs) <= Len(f)
  BY <1>0, <1>1
<1>3. /\ Len(g) = Len(f)
      /\ \A j \in 1..Len(f) : g[j] =
            IF j > o /\ j <= o + Len(rs) THEN rs[j - o] ELSE f[j]
  <2> HIDE DEF o
  <2> QED
    BY <1>2, WriteAtBlock
<1> HIDE DEF g
<1>4. \A j \in 1..Len(s) : g[j] =
        IF j >= i /\ j < i + (d + Len(rs)) THEN s[j + k] ELSE s[j]
  <2> TAKE j \in 1..Len(s)
  <2>0. j \in Nat /\ j \in 1..Len(f)
    BY <1>0, <1>1
  <2>1. CASE j > o /\ j <= o + Len(rs)
    <3>1. j - o \in 1..Len(rs)
      BY <1>0, <2>0, <2>1
    <3>2. i + k + d + (j - o) - 1 = j + k
      BY <2>0
    <3>3. rs[j - o] = s[i + k + d + (j - o) - 1]
      BY <3>1
    <3>4. g[j] = s[j + k]
      BY <1>3, <2>0, <2>1, <3>2, <3>3
    <3>5. j >= i /\ j < i + (d + Len(rs))
      BY <1>0, <2>0, <2>1
    <3> QED
      BY <3>4, <3>5
  <2>2. CASE ~ (j > o /\ j <= o + Len(rs))
    <3>1. g[j] = f[j]
      BY <1>3, <2>0, <2>2
    <3>2. (j >= i /\ j < i + (d + Len(rs))) <=> (j >= i /\ j < i + d)
      BY <1>0, <2>0, <2>2
    <3> QED
      BY <1>1, <3>1, <3>2
  <2> QED
    BY <2>1, <2>2
<1>5. i + k + (d + Len(rs)) - 1 <= Len(s)
  BY <1>0
<1> QED
  BY <1>1, <1>3, <1>4, <1>5 DEF MovedBy, g

\* The names of the k entries from i on.
NamesFrom(s, i, k) == {s[m] : m \in {j \in 1..Len(s) : j >= i /\ j < i + k}}

\* A file h that has moved e records, or has moved all and been cut, has every
\* name of the file f that had moved fewer but those of the deleted records.
LEMMA NamesKept ==
    ASSUME NEW f \in Seq(Record), NEW s \in Seq(Record), NEW h \in Seq(Record),
           NEW i \in Nat \ {0}, NEW k \in Nat, NEW d \in Nat, NEW e \in Nat,
           MovedBy(f, s, i, k, d), d <= e, i + k + e - 1 <= Len(s),
           Len(h) = Len(s) \/ (i + k + e - 1 = Len(s) /\ Len(h) = Len(s) - k),
           \A j \in 1..Len(h) :
                h[j] = IF j >= i /\ j < i + e THEN s[j + k] ELSE s[j]
    PROVE  NamesIn(f) \ NamesIn(h) \subseteq NamesFrom(s, i, k)
<1>0. Len(f) \in Nat /\ Len(s) \in Nat /\ Len(h) \in Nat
  BY LenProperties
<1>1. /\ Len(f) = Len(s)
      /\ \A j \in 1..Len(s) :
            f[j] = IF j >= i /\ j < i + d THEN s[j + k] ELSE s[j]
  BY DEF MovedBy
<1> SUFFICES ASSUME NEW j \in 1..Len(f), f[j] \notin NamesIn(h)
             PROVE  \E m \in 1..Len(s) : m >= i /\ m < i + k /\ f[j] = s[m]
  BY ZenonT(60) DEF NamesIn, NamesFrom
<1> DEFINE t == IF j >= i /\ j < i + d THEN j + k ELSE j
<1>2. f[j] = s[t]
  BY <1>1
<1>3. t \in 1..Len(s)
  BY <1>0, <1>1
<1>4. \A m \in 1..Len(h) : h[m] # s[t]
  BY <1>2 DEF NamesIn
<1> HIDE DEF t
<1>5. ~ (t < i)
  <2> SUFFICES ASSUME t < i PROVE FALSE
    OBVIOUS
  <2>1. t \in 1..Len(h) /\ t \in Nat
    BY <1>0, <1>3
  <2>2. h[t] = s[t]
    BY <2>1
  <2> QED
    BY <1>4, <2>1, <2>2
<1>6. ~ (t >= i + k)
  <2> SUFFICES ASSUME t >= i + k PROVE FALSE
    OBVIOUS
  <2>1. CASE t < i + k + e
    <3>1. t - k \in 1..Len(h) /\ t - k >= i /\ t - k < i + e
      BY SMTT(40), <1>0, <1>3, <2>1
    <3>2. (t - k) + k = t
      BY <1>0, <1>3
    <3>3. h[t - k] = s[(t - k) + k]
      BY <3>1
    <3> QED
      BY <1>4, <3>1, <3>2, <3>3
  <2>2. CASE ~ (t < i + k + e)
    <3>1. t \in 1..Len(h) /\ ~ (t < i + e)
      BY <1>0, <1>3, <2>2
    <3>2. h[t] = s[t]
      BY <3>1
    <3> QED
      BY <1>4, <3>1, <3>2
  <2> QED
    BY <2>1, <2>2
<1>7. t \in Nat
  BY <1>0, <1>3
<1> QED
  BY <1>2, <1>3, <1>5, <1>6, <1>7

\* When the loop is through, cutting the file leaves the listing that was
\* found without the deleted entries.
LEMMA CutIsExact ==
    ASSUME NEW f \in Seq(Record), NEW s \in Seq(Record),
           NEW i \in Nat \ {0}, NEW k \in Nat, NEW d \in Nat,
           MovedBy(f, s, i, k, d), i + k + d - 1 = Len(s)
    PROVE  Truncate(f, Len(s) - k) =
                SubSeq(s, 1, i - 1) \o SubSeq(s, i + k, Len(s))
<1> DEFINE n == Len(s) - k
           a == SubSeq(s, 1, i - 1)
           b == SubSeq(s, i + k, Len(s))
<1>0. Len(f) \in Nat /\ Len(s) \in Nat
  BY LenProperties
<1>1. /\ Len(f) = Len(s)
      /\ \A j \in 1..Len(s) :
            f[j] = IF j >= i /\ j < i + d THEN s[j + k] ELSE s[j]
  BY DEF MovedBy
<1>2. n \in Nat /\ n <= Len(f) /\ n = i - 1 + d
  BY <1>0, <1>1
<1>3. /\ Len(Truncate(f, n)) = n /\ Truncate(f, n) \in Seq(Record)
      /\ \A j \in 1..n : Truncate(f, n)[j] = f[j]
  <2> HIDE DEF n
  <2> QED
    BY <1>2, TruncateCuts, TruncateType
<1>4. /\ a \in Seq(Record) /\ Len(a) = i - 1
      /\ \A j \in 1..(i - 1) : a[j] = s[j]
  <2>1. \A j \in 1..(i - 1) : s[j] \in Record
    <3> TAKE j \in 1..(i - 1)
    <3>1. j \in 1..Len(s)
      BY <1>0
    <3> QED
      BY <3>1, ElementOfSeq
  <2>2. i - 1 \in Int
    OBVIOUS
  <2>3. /\ a \in Seq(Record)
        /\ Len(a) = IF 1 <= i - 1 THEN i - 1 - 1 + 1 ELSE 0
        /\ \A j \in 1..(i - 1 - 1 + 1) : a[j] = s[1 + j - 1]
    BY <2>1, <2>2, SubSeqProperties
  <2> HIDE DEF a
  <2>4. \A j \in 1..(i - 1) : a[j] = s[j]
    <3> TAKE j \in 1..(i - 1)
    <3>1. j \in 1..(i - 1 - 1 + 1) /\ 1 + j - 1 = j
      OBVIOUS
    <3> QED
      BY <2>3, <3>1
  <2> QED
    BY <2>3, <2>4
<1>5. /\ b \in Seq(Record) /\ Len(b) = d
      /\ \A j \in 1..d : b[j] = s[i + k + j - 1]
  <2> DEFINE m == i + k
  <2>1. \A j \in m..Len(s) : s[j] \in Record
    <3> TAKE j \in m..Len(s)
    <3>1. j \in 1..Len(s)
      BY <1>0
    <3> QED
      BY <3>1, ElementOfSeq
  <2>2. m \in Int /\ Len(s) \in Int /\ d = Len(s) - m + 1
    BY <1>0
  <2> HIDE DEF m
  <2>3. /\ b \in Seq(Record)
        /\ Len(b) = IF m <= Len(s) THEN Len(s) - m + 1 ELSE 0
        /\ \A j \in 1..(Len(s) - m + 1) : b[j] = s[m + j - 1]
    <3>1. b = SubSeq(s, m, Len(s))
      BY DEF m
    <3> HIDE DEF b
    <3> QED
      BY <2>1, <2>2, <3>1, SubSeqProperties
  <2> HIDE DEF b
  <2>4. Len(b) = d
    BY <1>0, <2>2, <2>3
  <2>5. \A j \in 1..d : b[j] = s[m + j - 1]
    BY <2>2, <2>3
  <2> QED
    BY <2>3, <2>4, <2>5 DEF m
<1> HIDE DEF a, b
<1>6. /\ a \o b \in Seq(Record) /\ Len(a \o b) = n
      /\ \A j \in 1..n : (a \o b)[j] = IF j <= i - 1 THEN a[j] ELSE b[j - (i - 1)]
  BY SMTT(40), <1>2, <1>4, <1>5, ConcatProperties
<1>7. \A j \in 1..n : Truncate(f, n)[j] = (a \o b)[j]
  <2> TAKE j \in 1..n
  <2>1. Truncate(f, n)[j] = f[j] /\ j \in 1..Len(s) /\ j \in Nat
    BY <1>0, <1>1, <1>2, <1>3
  <2>2. CASE j <= i - 1
    <3>1. f[j] = s[j]
      BY <1>1, <2>1, <2>2
    <3>2. a[j] = s[j]
      BY <1>4, <2>1, <2>2
    <3> QED
      BY <1>6, <2>1, <2>2, <3>1, <3>2
  <2>3. CASE ~ (j <= i - 1)
    <3>1. j >= i /\ j < i + d
      BY SMTT(40), <1>2, <2>1, <2>3
    <3>2. f[j] = s[j + k]
      BY <1>1, <2>1, <3>1
    <3>3. j - (i - 1) \in 1..d /\ i + k + (j - (i - 1)) - 1 = j + k
      BY <2>1, <3>1
    <3>4. b[j - (i - 1)] = s[i + k + (j - (i - 1)) - 1]
      BY <1>5, <3>3
    <3> QED
      BY <1>6, <2>1, <2>3, <3>2, <3>3, <3>4
  <2> QED
    BY <2>2, <2>3
<1> HIDE DEF n
<1>8. Truncate(f, n) = a \o b
  BY <1>3, <1>6, <1>7, SeqEqual
<1> QED
  BY <1>8 DEF a, b, n

-----------------------------------------------------------------------------
\* Every step of a call leaves it with what it has to know.
LEMMA AppendRecordKnows ==
    ASSUME TypeInv, AloneInv, NEW p \in Procs, AppendRecord(p)
    PROVE  Knows(pc'[p], call'[p], file')
<1>0. pc \in [Procs -> Labels] /\ call \in [Procs -> Call]
  BY DEF TypeInv, TypeOK
<1>1. CASE CallAppend(p)
  <2>1. pc'[p] = "append_flock"
    BY <1>0, <1>1 DEF CallAppend, Goto
  <2> QED
    BY <2>1 DEF Knows, Sized, Copying
<1>2. CASE AppendFlock(p)
  <2>1. pc'[p] = "append_seek"
    BY <1>0, <1>2 DEF AppendFlock, Goto
  <2> QED
    BY <2>1 DEF Knows, Sized, Copying
<1>3. CASE AppendSeek(p)
  <2>1. pc'[p] = "append_write" /\ file' = file
    BY <1>0, <1>3 DEF AppendSeek, Goto
  <2>2. call'[p].size = Len(file)
    BY <1>0, <1>3 DEF AppendSeek, Call
  <2> QED
    BY <2>1, <2>2 DEF Knows, Sized, Copying
<1>4. CASE AppendWrite(p)
  <2>1. pc'[p] = "append_out"
    BY <1>0, <1>4 DEF AppendWrite, Goto
  <2> QED
    BY <2>1 DEF Knows, Sized, Copying
<1>5. CASE AppendOut(p)
  <2>1. pc'[p] = "idle"
    BY <1>0, <1>5 DEF AppendOut, Return, Goto
  <2> QED
    BY <2>1 DEF Knows, Sized, Copying
<1> QED
  BY <1>1, <1>2, <1>3, <1>4, <1>5 DEF AppendRecord

LEMMA SubstituteRecordKnows ==
    ASSUME TypeInv, AloneInv, NEW p \in Procs, SubstituteRecord(p)
    PROVE  Knows(pc'[p], call'[p], file')
<1>0. pc \in [Procs -> Labels] /\ call \in [Procs -> Call] /\ Len(file) \in Nat
  BY LenProperties DEF TypeInv, TypeOK
<1>a. Knows(pc[p], call[p], file)
  BY DEF AloneInv
<1>1. CASE CallSubstitute(p)
  <2> PICK i \in 1..Len(file) :
        call' = [call EXCEPT ![p] = [Pick(i) EXCEPT !.dst = file[i]]]
    BY <1>1 DEF CallSubstitute
  <2>1. pc'[p] = "sub_lock" /\ file' = file
    BY <1>0, <1>1 DEF CallSubstitute, Goto
  <2>2. call'[p].id = i /\ call'[p].cmp = FALSE /\ call'[p].dst = file[i]
    BY <1>0 DEF Pick, NoCall
  <2>3. i <= Len(file)
    BY <1>0
  <2> QED
    BY <2>1, <2>2, <2>3 DEF Knows, Sized, Copying
<1>2. CASE CallSubstitute2(p)
  <2> PICK i \in 1..Len(file) : \E n \in {file[i], FN_SAFEDEL} :
        call' = [call EXCEPT ![p] = [Pick(i) EXCEPT !.cmp = TRUE, !.dst = n]]
    BY <1>2 DEF CallSubstitute2
  <2> PICK n \in {file[i], FN_SAFEDEL} :
        call' = [call EXCEPT ![p] = [Pick(i) EXCEPT !.cmp = TRUE, !.dst = n]]
    OBVIOUS
  <2>1. pc'[p] = "sub_lock" /\ file' = file
    BY <1>0, <1>2 DEF CallSubstitute2, Goto
  <2>2. call'[p].id = i /\ call'[p].cmp = TRUE /\ call'[p].src = file[i]
    BY <1>0 DEF Pick, NoCall
  <2>3. i <= Len(file)
    BY <1>0
  <2> QED
    BY <2>1, <2>2, <2>3 DEF Knows, Sized, Copying
<1>3. CASE SubLock(p)
  <2>1. /\ pc[p] = "sub_lock" /\ pc'[p] \in {"sub_read", "sub_write"}
        /\ call' = call /\ file' = file
    BY <1>0, <1>3 DEF SubLock, Goto
  <2> QED
    BY <1>a, <2>1 DEF Knows, Sized, Copying
<1>4. CASE SubRead(p)
  <2>1. /\ pc[p] = "sub_read" /\ pc'[p] \in {"sub_write", "sub_close"}
        /\ call' = call /\ file' = file
    BY <1>0, <1>4 DEF SubRead, Goto
  <2> QED
    BY <1>a, <2>1 DEF Knows, Sized, Copying
<1>5. CASE SubWrite(p)
  <2>1. pc'[p] = "sub_close"
    BY <1>0, <1>5 DEF SubWrite, Goto
  <2> QED
    BY <2>1 DEF Knows, Sized, Copying
<1>6. CASE SubClose(p)
  <2>1. pc'[p] = "idle"
    BY <1>0, <1>6 DEF SubClose, Return, Goto
  <2> QED
    BY <2>1 DEF Knows, Sized, Copying
<1> QED
  BY <1>1, <1>2, <1>3, <1>4, <1>5, <1>6 DEF SubstituteRecord

\* What the read of the loop returns: the next records, as many as the buffer
\* takes, and none only when there are no more.
LEMMA CopyReadReads ==
    ASSUME TypeInv, AloneInv, NEW p \in Procs, DelCopyRead(p)
    PROVE  LET c == call[p]  b == call'[p].buf IN
           /\ b = <<>> => c.d = Behind(c)
           /\ b # <<>> =>
                /\ Len(b) # 0
                /\ c.id + c.num + c.d + Len(b) - 1 <= Len(c.seen)
                /\ \A j \in 1..Len(b) : b[j] = c.seen[c.id + c.num + c.d + j - 1]
<1> DEFINE c == call[p]
           i == c.id
           k == c.num
           d == c.d
           s == c.seen
           m == i + k + d
           last == m + BufRecs - 1
           to == IF last < Len(file) THEN last ELSE Len(file)
<1>0. call \in [Procs -> Call] /\ c \in Call /\ file \in Seq(Record)
  BY DEF TypeInv, TypeOK
<1>1. /\ i \in Nat \ {0} /\ k \in Nat /\ d \in Nat /\ s \in Seq(Record)
      /\ Len(file) \in Nat /\ BufRecs \in Nat \ {0} /\ c.size \in Nat
  BY <1>0, CallTypes, LenProperties, BufRecsAssumption
  DEF TypeInv, Deleting, DelCopyRead
<1>2. MovedBy(file, s, i, k, d) /\ Len(s) = c.size /\ Len(file) = Len(s)
  BY DEF AloneInv, Knows, Copying, DelCopyRead, Moved, MovedBy
<1>3. call'[p].buf = IF d < ReadSize(p) THEN SubSeq(file, m, to) ELSE <<>>
  <2>1. call' = [call EXCEPT ![p].buf =
                    IF d < ReadSize(p) THEN SubSeq(file, m, to) ELSE <<>>]
    BY DEF DelCopyRead, CopyFrom
  <2> HIDE DEF m, to, d
  <2> QED
    BY <1>0, <2>1 DEF Call
<1>4. ReadSize(p) = Len(s) - (i - 1) - k
  BY <1>2 DEF ReadSize, LockSize
<1>5. i + k + d - 1 <= Len(s)
  BY <1>2 DEF MovedBy
<1> DEFINE b == call'[p].buf
<1>6. CASE d < ReadSize(p)
  <2>1. b = SubSeq(file, m, to)
    BY <1>3, <1>6
  <2>2. m \in Nat \ {0} /\ to \in Nat /\ m <= to /\ to <= Len(file)
    <3> HIDE DEF c, i, k, d, s
    <3>1. m \in Nat \ {0} /\ m <= Len(file)
      BY <1>1, <1>2, <1>4, <1>6
    <3> HIDE DEF m
    <3> QED
      BY <1>1, <3>1
  <2> HIDE DEF to
  <2>3. \A j \in m..to : file[j] \in Record
    <3> TAKE j \in m..to
    <3> HIDE DEF m
    <3>1. j \in 1..Len(file)
      BY <1>1, <2>2
    <3> QED
      BY <1>0, <3>1, ElementOfSeq
  <2>4. /\ Len(b) = IF m <= to THEN to - m + 1 ELSE 0
        /\ \A j \in 1..(to - m + 1) : b[j] = file[m + j - 1]
    <3> HIDE DEF m, b
    <3>1. m \in Int /\ to \in Int
      BY <2>2
    <3> QED
      BY <2>1, <2>3, <3>1, SubSeqProperties
  <2> HIDE DEF b
  <2>5. Len(b) = to - m + 1 /\ Len(b) \in Nat /\ Len(b) # 0
    <3> HIDE DEF m
    <3> QED
      BY <2>2, <2>4
  <2>6. \A j \in 1..Len(b) : b[j] = s[m + j - 1]
    <3> TAKE j \in 1..Len(b)
    <3>1. b[j] = file[m + j - 1]
      BY <2>4, <2>5
    <3>2. m + j - 1 \in 1..Len(s) /\ ~ (m + j - 1 < i + d)
      <4> HIDE DEF c, i, k, d, s
      <4>1. m >= i + d
        BY <1>1
      <4>2. i + d \in Nat
        BY <1>1
      <4> HIDE DEF m
      <4> QED
        BY <1>1, <1>2, <2>2, <2>5, <4>1, <4>2
    <3>3. file[m + j - 1] = s[m + j - 1]
      <4> HIDE DEF m
      <4> QED
        BY <1>2, <3>2 DEF MovedBy
    <3> QED
      BY <3>1, <3>3
  <2>7. m + Len(b) - 1 <= Len(s)
    <3> HIDE DEF m, s
    <3> QED
      BY <1>1, <1>2, <2>2, <2>5
  <2>8. b # <<>>
    BY <2>5
  <2> QED
    BY <2>5, <2>6, <2>7, <2>8 DEF b
<1>7. CASE ~ (d < ReadSize(p))
  <2>1. b = <<>>
    BY <1>3, <1>7
  <2>2. d = Len(s) - (i - 1) - k
    <3> HIDE DEF c, i, k, d, s
    <3>1. Len(s) \in Nat
      BY <1>1, <1>2
    <3> QED
      BY <1>1, <1>4, <1>5, <1>7, <3>1
  <2> QED
    BY <1>2, <2>1, <2>2 DEF Behind
<1> QED
  BY <1>6, <1>7

LEMMA DeleteRecordKnows ==
    ASSUME TypeInv, AloneInv, NEW p \in Procs, DeleteRecord(p)
    PROVE  Knows(pc'[p], call'[p], file')
<1>0. /\ pc \in [Procs -> Labels] /\ call \in [Procs -> Call]
      /\ Len(file) \in Nat /\ file \in Seq(Record)
  BY LenProperties DEF TypeInv, TypeOK
<1>a. Knows(pc[p], call[p], file)
  BY DEF AloneInv
<1>b. CASE pc'[p] = "idle"
  BY <1>b DEF Knows, Sized, Copying
<1>1. CASE CallDelete2(p)
  <2> PICK i \in 1..Len(file) :
        call' = [call EXCEPT ![p] = [Pick(i) EXCEPT !.cmp = TRUE, !.num = 1]]
    BY <1>1 DEF CallDelete2
  <2>1. pc'[p] = "del_stat" /\ file' = file
    BY <1>0, <1>1 DEF CallDelete2, Goto
  <2>2. /\ call'[p].id = i /\ call'[p].cmp = TRUE /\ call'[p].src = file[i]
        /\ call'[p].num = 1 /\ call'[p].d = 0
    BY <1>0 DEF Pick, NoCall
  <2>3. i + 1 - 1 <= Len(file)
    BY <1>0
  <2> QED
    BY <2>1, <2>2, <2>3 DEF Knows, Picked, Sized, Copying
<1>2. CASE CallDeletes(p)
  <2> PICK i \in 1..Len(file) : \E k \in 1..(Len(file) - i + 1) :
        call' = [call EXCEPT ![p] = [NoCall EXCEPT !.id = i, !.num = k]]
    BY <1>2 DEF CallDeletes
  <2> PICK k \in 1..(Len(file) - i + 1) :
        call' = [call EXCEPT ![p] = [NoCall EXCEPT !.id = i, !.num = k]]
    OBVIOUS
  <2>1. pc'[p] = "del_stat" /\ file' = file
    BY <1>0, <1>2 DEF CallDeletes, Goto
  <2>2. /\ call'[p].id = i /\ call'[p].cmp = FALSE
        /\ call'[p].num = k /\ call'[p].d = 0
    BY <1>0 DEF NoCall
  <2>3. i + k - 1 <= Len(file) /\ k # 0
    BY <1>0
  <2> QED
    BY <2>1, <2>2, <2>3 DEF Knows, Picked, Sized, Copying
<1>3. CASE DelStat(p) /\ pc'[p] # "idle"
  <2>1. ~ (Len(file) < call[p].id - 1)
    BY <1>0, <1>3 DEF DelStat, Return, Goto
  <2>2. pc[p] = "del_stat" /\ pc'[p] = "del_lock" /\ file' = file
    BY <1>0, <1>3, <2>1 DEF DelStat, Goto
  <2>3. call' = [call EXCEPT ![p].size = Len(file)]
    BY <1>3, <2>1 DEF DelStat
  <2>4. /\ call'[p].id = call[p].id /\ call'[p].num = call[p].num
        /\ call'[p].cmp = call[p].cmp /\ call'[p].src = call[p].src
        /\ call'[p].d = call[p].d /\ call'[p].size = Len(file)
    BY <1>0, <2>3 DEF Call
  <2> QED
    BY <1>a, <2>2, <2>4 DEF Knows, Picked, Sized, Copying
<1>4. CASE DelLock(p)
  <2>1. /\ pc[p] = "del_lock" /\ file' = file
        /\ pc'[p] = IF call[p].cmp THEN "del_read" ELSE "del_copy_read"
    BY <1>0, <1>4 DEF DelLock, Goto
  <2>2. call' = [call EXCEPT ![p].seen = file]
    BY <1>4 DEF DelLock
  <2>3. /\ call'[p].id = call[p].id /\ call'[p].num = call[p].num
        /\ call'[p].cmp = call[p].cmp /\ call'[p].src = call[p].src
        /\ call'[p].d = call[p].d /\ call'[p].size = call[p].size
        /\ call'[p].seen = file
    BY <1>0, <2>2 DEF Call
  <2>4. Picked(call[p], file) /\ call[p].d = 0 /\ call[p].size = Len(file)
    BY <1>a, <2>1 DEF Knows, Sized
  <2>5. Picked(call'[p], file)
    BY <2>3, <2>4 DEF Picked
  <2>6. MovedBy(file, file, call[p].id, call[p].num, 0)
    <3>1. /\ call[p].id \in Nat /\ call[p].num \in Nat
          /\ call[p].id + call[p].num - 1 <= Len(file)
      BY <1>0, <2>4 DEF Picked, Call
    <3>2. call[p].id + call[p].num + 0 - 1 <= Len(file)
      BY <3>1
    <3>3. \A j \in 1..Len(file) : ~ (j >= call[p].id /\ j < call[p].id + 0)
      BY <1>0, <3>1
    <3> QED
      BY <3>2, <3>3 DEF MovedBy
  <2>7. Moved(call'[p], file)
    BY <2>3, <2>4, <2>5, <2>6 DEF Moved
  <2> QED
    BY <2>1, <2>3, <2>4, <2>5, <2>7 DEF Knows, Sized, Copying
<1>5. CASE DelRead(p) /\ pc'[p] # "idle"
  <2>1. /\ pc[p] = "del_read" /\ pc'[p] = "del_copy_read"
        /\ file' = file /\ call' = call
    BY <1>0, <1>5 DEF DelRead, Return, Goto
  <2>2. /\ Picked(call[p], file) /\ call[p].d = 0
        /\ call[p].size = Len(file) /\ call[p].seen = file
    BY <1>a, <2>1 DEF Knows, Sized
  <2>3. MovedBy(file, file, call[p].id, call[p].num, 0)
    <3>1. /\ call[p].id \in Nat /\ call[p].num \in Nat
          /\ call[p].id + call[p].num - 1 <= Len(file)
      BY <1>0, <2>2 DEF Picked, Call
    <3>2. call[p].id + call[p].num + 0 - 1 <= Len(file)
      BY <3>1
    <3>3. \A j \in 1..Len(file) : ~ (j >= call[p].id /\ j < call[p].id + 0)
      BY <1>0, <3>1
    <3> QED
      BY <3>2, <3>3 DEF MovedBy
  <2> QED
    BY <2>1, <2>2, <2>3 DEF Knows, Moved, Sized, Copying
<1>6. CASE DelCopyRead(p)
  <2>1. /\ pc[p] = "del_copy_read" /\ file' = file
        /\ pc'[p] = IF call'[p].buf = <<>> THEN "del_close" ELSE "del_copy_write"
    <3> DEFINE last == CopyFrom(p) + BufRecs - 1
               x == IF call[p].d < ReadSize(p)
                    THEN SubSeq(file, CopyFrom(p),
                                IF last < Len(file) THEN last ELSE Len(file))
                    ELSE <<>>
    <3>0. /\ call' = [call EXCEPT ![p].buf = x]
          /\ Goto(p, IF x = <<>> THEN "del_close" ELSE "del_copy_write")
      BY <1>6 DEF DelCopyRead
    <3> HIDE DEF x
    <3>1. call'[p].buf = x
      BY <1>0, <3>0 DEF Call
    <3> QED
      BY <1>0, <1>6, <3>0, <3>1 DEF DelCopyRead, Goto
  <2>2. /\ call'[p].id = call[p].id /\ call'[p].num = call[p].num
        /\ call'[p].cmp = call[p].cmp /\ call'[p].src = call[p].src
        /\ call'[p].d = call[p].d /\ call'[p].size = call[p].size
        /\ call'[p].seen = call[p].seen
    <3> PICK x : call' = [call EXCEPT ![p].buf = x]
      BY <1>6 DEF DelCopyRead
    <3> QED
      BY <1>0 DEF Call
  <2>3. Moved(call'[p], file)
    BY <1>a, <2>1, <2>2 DEF Knows, Copying, Moved, Picked
  <2>4. /\ call'[p].buf = <<>> => call'[p].d = Behind(call'[p])
        /\ call'[p].buf # <<>> => InBuf(call'[p])
    BY <1>6, <2>2, CopyReadReads DEF InBuf, Behind
  <2> QED
    BY <2>1, <2>3, <2>4 DEF Knows, Sized, Copying
<1>7. CASE DelCopyWrite(p)
  <2> DEFINE c == call[p]
  <2>1. /\ pc[p] = "del_copy_write" /\ pc'[p] = "del_copy_read"
        /\ file' = WriteAt(file, c.id - 1 + c.d, c.buf)
    BY <1>0, <1>7 DEF DelCopyWrite, Goto
  <2>2. call'[p] = [[c EXCEPT !.d = c.d + Len(c.buf)] EXCEPT !.buf = <<>>]
    BY <1>0, <1>7 DEF DelCopyWrite
  <2>3. c \in Call
    BY <1>0
  <2>4. /\ call'[p].id = c.id /\ call'[p].num = c.num
        /\ call'[p].cmp = c.cmp /\ call'[p].src = c.src
        /\ call'[p].d = c.d + Len(c.buf) /\ call'[p].size = c.size
        /\ call'[p].seen = c.seen
    BY <2>2, <2>3 DEF Call
  <2>5. Moved(c, file) /\ InBuf(c)
    BY <1>a, <2>1 DEF Knows, Copying
  <2>6. /\ c.id \in Nat \ {0} /\ c.num \in Nat /\ c.d \in Nat
        /\ c.buf \in Seq(Record) /\ c.seen \in Seq(Record)
    BY <2>1, <2>3, CallTypes DEF TypeInv, Deleting
  <2>7. MovedBy(file', c.seen, c.id, c.num, c.d + Len(c.buf))
    <3>1. /\ MovedBy(file, c.seen, c.id, c.num, c.d)
          /\ c.id + c.num + c.d + Len(c.buf) - 1 <= Len(c.seen)
          /\ \A j \in 1..Len(c.buf) :
                c.buf[j] = c.seen[c.id + c.num + c.d + j - 1]
      BY <2>5 DEF Moved, InBuf
    <3> HIDE DEF c
    <3> QED
      BY <1>0, <2>1, <2>6, <3>1, CopyBlock
  <2>8. Moved(call'[p], file')
    BY <2>4, <2>5, <2>7 DEF Moved, Picked
  <2> QED
    BY <2>1, <2>8 DEF Knows, Sized, Copying
<1>8. CASE DelClose(p)
  <2>1. /\ pc[p] = "del_close" /\ pc'[p] = "del_truncate"
        /\ call' = call /\ file' = file
    BY <1>0, <1>8 DEF DelClose, Goto
  <2> QED
    BY <1>a, <2>1 DEF Knows, Sized, Copying
<1>9. CASE DelTruncate(p)
  <2>1. pc'[p] = "idle"
    BY <1>0, <1>9 DEF DelTruncate, Return, Goto
  <2> QED
    BY <2>1, <1>b
<1> QED
  BY <1>b, <1>1, <1>2, <1>3, <1>4, <1>5, <1>6, <1>7, <1>8, <1>9 DEF DeleteRecord

\* In Crash, and for the processes that make no call, there is nothing to know.
LEMMA NextAlone ==
    ASSUME TypeInv, AloneInv, OneAtATime, OneAtATime', [Next]_vars
    PROVE  AloneInv'
<1>0. pc \in [Procs -> Labels] /\ call \in [Procs -> Call]
  BY DEF TypeInv, TypeOK
<1>1. CASE UNCHANGED vars
  BY <1>1 DEF vars, AloneInv
<1>2. ASSUME NEW p \in Procs,
             AppendRecord(p) \/ SubstituteRecord(p) \/ DeleteRecord(p) \/ Crash(p)
      PROVE  AloneInv'
  <2>1. Knows(pc'[p], call'[p], file')
    <3>1. CASE Crash(p)
      <4>1. pc'[p] = "idle"
        BY SMTT(40), <1>0, <3>1 DEF Crash, Return, Goto
      <4> QED
        BY <4>1 DEF Knows, Sized, Copying
    <3> QED
      BY <1>2, <3>1, AppendRecordKnows, SubstituteRecordKnows, DeleteRecordKnows
  <2>2. pc[p] # "idle" \/ pc'[p] # "idle"
    BY ZenonT(60), <1>0, <1>2 DEF AppendRecord, CallAppend, AppendFlock, AppendSeek,
        AppendWrite, AppendOut, SubstituteRecord, CallSubstitute,
        CallSubstitute2, SubLock, SubRead, SubWrite, SubClose, DeleteRecord,
        CallDelete2, CallDeletes, DelStat, DelLock, DelRead, DelCopyRead,
        DelCopyWrite, DelClose, DelTruncate, Crash, Goto
  <2>3. \A q \in Procs \ {p} : pc'[q] = pc[q]
    BY <1>0, <1>2 DEF AppendRecord, CallAppend, AppendFlock, AppendSeek,
        AppendWrite, AppendOut, SubstituteRecord, CallSubstitute,
        CallSubstitute2, SubLock, SubRead, SubWrite, SubClose, DeleteRecord,
        CallDelete2, CallDeletes, DelStat, DelLock, DelRead, DelCopyRead,
        DelCopyWrite, DelClose, DelTruncate, Crash, Return, Goto
  <2>4. \A q \in Procs \ {p} : pc'[q] = "idle"
    BY <2>2, <2>3 DEF OneAtATime
  <2>5. \A q \in Procs \ {p} : Knows(pc'[q], call'[q], file')
    BY <2>4 DEF Knows, Sized, Copying
  <2> QED
    BY <2>1, <2>5 DEF AloneInv
<1> QED
  BY <1>1, <1>2 DEF Next

LEMMA InitAlone == Init => AloneInv
BY ZenonT(60) DEF Init, AloneInv, Knows, Sized, Copying

LEMMA SpecAlone == Spec /\ []OneAtATime => [](TypeInv /\ AloneInv)
<1>1. Init => TypeInv /\ AloneInv
  BY InitType, InitAlone
<1>2. TypeInv /\ AloneInv /\ OneAtATime /\ OneAtATime' /\ [Next]_vars
        => TypeInv' /\ AloneInv'
  BY NextType, NextAlone
<1> QED
  BY <1>1, <1>2, PTL DEF Spec

\* The cut that ends a delete leaves the listing it found without the deleted
\* entries.
LEMMA TruncateIsExact ==
    ASSUME TypeInv, AloneInv, NEW p \in Procs, DelTruncate(p)
    PROVE  /\ file' = Truncate(file, Len(call[p].seen) - call[p].num)
           /\ file' = SubSeq(call[p].seen, 1, call[p].id - 1)
                        \o SubSeq(call[p].seen, call[p].id + call[p].num,
                                  Len(call[p].seen))
           /\ MovedBy(file, call[p].seen, call[p].id, call[p].num, call[p].d)
           /\ call[p].id + call[p].num + call[p].d - 1 = Len(call[p].seen)
<1> DEFINE c == call[p]
<1>1. c \in Call /\ file \in Seq(Record)
  BY DEF TypeInv, TypeOK
<1>2. /\ c.id \in Nat \ {0} /\ c.num \in Nat /\ c.d \in Nat
      /\ c.seen \in Seq(Record) /\ Len(c.seen) \in Nat
  BY <1>1, CallTypes DEF TypeInv, Deleting, DelTruncate
<1>3. Moved(c, file) /\ c.d = Behind(c)
  BY DEF AloneInv, Knows, Copying, DelTruncate
<1>4. /\ MovedBy(file, c.seen, c.id, c.num, c.d) /\ c.size = Len(c.seen)
      /\ c.id + c.num - 1 <= Len(c.seen)
      /\ c.d = Len(c.seen) - (c.id - 1) - c.num
  BY <1>3 DEF Moved, Picked, Behind
<1>5. file' = IF c.size - c.num >= 0 THEN Truncate(file, c.size - c.num) ELSE file
  BY DEF DelTruncate
<1>a. /\ c.id + c.num - 1 <= Len(c.seen)
      /\ c.d = Len(c.seen) - (c.id - 1) - c.num
  BY <1>4
<1> HIDE DEF c
<1>6. c.id + c.num + c.d - 1 = Len(c.seen) /\ Len(c.seen) - c.num >= 0
  <2>1. \A i, k, d, n \in Nat :
            i # 0 /\ i + k - 1 <= n /\ d = n - (i - 1) - k
                => i + k + d - 1 = n /\ n - k >= 0
    OBVIOUS
  <2>2. c.id \in Nat /\ c.id # 0 /\ c.num \in Nat /\ c.d \in Nat /\ Len(c.seen) \in Nat
    BY <1>2
  <2> QED
    BY <1>a, <2>1, <2>2
<1>7. file' = Truncate(file, Len(c.seen) - c.num)
  BY <1>4, <1>5, <1>6
<1>8. Truncate(file, Len(c.seen) - c.num)
        = SubSeq(c.seen, 1, c.id - 1) \o SubSeq(c.seen, c.id + c.num, Len(c.seen))
  BY ZenonT(60), <1>1, <1>2, <1>4, <1>6, CutIsExact
<1> QED
  BY <1>4, <1>6, <1>7, <1>8 DEF c

\* Whatever the processes did to the file before, a delete with nobody else on
\* it that reaches its end leaves the listing it found without the deleted
\* entries, for every size of file and of buffer (record.c:213-222, 263-273).
THEOREM DeleteIsExactCorrect == Spec /\ []OneAtATime => DeleteIsExact
<1>1. TypeInv /\ AloneInv => [\A p \in Procs : DelTruncate(p) =>
            LET f == call[p].seen  i == call[p].id  k == call[p].num
            IN file' = SubSeq(f, 1, i - 1) \o SubSeq(f, i + k, Len(f))]_vars
  BY TruncateIsExact
<1> QED
  BY <1>1, SpecAlone, PTL DEF DeleteIsExact

-----------------------------------------------------------------------------
(* Which names a step takes off the file.                                  *)

LEMMA AppendLosesNone ==
    ASSUME TypeInv, AloneInv, NEW p \in Procs, AppendWrite(p)
    PROVE  NamesIn(file) \subseteq NamesIn(file')
<1>1. file \in Seq(Record) /\ Len(file) \in Nat /\ call[p].dst \in Record
  BY LenProperties DEF TypeInv, TypeOK, Call
<1>2. call[p].size = Len(file)
  BY DEF AloneInv, Knows, AppendWrite
<1>3. file' = Append(file, call[p].dst)
  BY <1>1, <1>2, WriteAtEnd DEF AppendWrite
<1>4. /\ Len(file') = Len(file) + 1
      /\ \A j \in 1..Len(file) : file'[j] = file[j]
  BY <1>1, <1>3, AppendProperties
<1>5. \A j \in 1..Len(file) : j \in 1..Len(file')
  BY <1>1, <1>4
<1> QED
  BY <1>4, <1>5 DEF NamesIn

LEMMA SubWriteLoses ==
    ASSUME TypeInv, AloneInv, NEW p \in Procs, SubWrite(p)
    PROVE  NamesIn(file) \ NamesIn(file') \subseteq Removes(p)
<1> DEFINE i == call[p].id
           r == call[p].dst
<1>1. /\ file \in Seq(Record) /\ Len(file) \in Nat /\ r \in Record
      /\ i \in Nat \ {0}
  BY LenProperties DEF TypeInv, TypeOK, Call, Substituting, SubWrite
<1>2. /\ pc[p] = "sub_write" /\ i <= Len(file)
      /\ IF call[p].cmp THEN file[i] = call[p].src ELSE file[i] = r
  BY DEF AloneInv, Knows, SubWrite
<1>3. i \in 1..Len(file)
  BY <1>1, <1>2
<1>4. file' = WriteAt(file, i - 1, <<r>>)
  BY DEF SubWrite
<1> HIDE DEF i, r
<1>5. file' = [file EXCEPT ![i] = r]
  BY <1>1, <1>3, <1>4, WriteAtEntry
<1>6. /\ Len(file') = Len(file) /\ file'[i] = r
      /\ \A j \in 1..Len(file) : j # i => file'[j] = file[j]
  BY <1>1, <1>3, <1>5, ExceptSeq
<1>7. NamesIn(file) \ NamesIn(file') \subseteq {file[i]}
  BY <1>6 DEF NamesIn
<1>8. CASE call[p].cmp
  <2>1. Removes(p) = {call[p].src}
    BY <1>2, <1>8 DEF Removes
  <2> QED
    BY <1>2, <1>7, <1>8, <2>1
<1>9. CASE ~ call[p].cmp
  <2>1. file[i] \in NamesIn(file')
    BY <1>2, <1>3, <1>6, <1>9 DEF NamesIn
  <2> QED
    BY <1>7, <2>1
<1> QED
  BY <1>8, <1>9

\* Either kind of delete may remove the names of the entries it counts off.
LEMMA MayRemove ==
    ASSUME TypeInv, AloneInv, NEW p \in Procs,
           pc[p] \in {"del_copy_write", "del_truncate"}
    PROVE  NamesFrom(call[p].seen, call[p].id, call[p].num) \subseteq Removes(p)
<1> DEFINE c == call[p]
<1>1. CASE ~ c.cmp
  BY <1>1 DEF Removes, NamesFrom
<1>2. CASE c.cmp
  <2>1. c \in Call
    BY DEF TypeInv, TypeOK
  <2>2. c.id \in Nat /\ Len(c.seen) \in Nat
    BY <2>1, CallTypes
  <2>3. c.num = 1 /\ c.seen[c.id] = c.src
    BY <1>2 DEF AloneInv, Knows, Copying, Moved, Picked
  <2>4. Removes(p) = {c.src}
    BY <1>2 DEF Removes
  <2> HIDE DEF c
  <2>5. \A j \in 1..Len(c.seen) : j >= c.id /\ j < c.id + c.num => j = c.id
    BY <2>2, <2>3
  <2>6. NamesFrom(c.seen, c.id, c.num) \subseteq Removes(p)
    BY <2>3, <2>4, <2>5 DEF NamesFrom
  <2> QED
    BY <2>6 DEF c
<1> QED
  BY <1>1, <1>2

LEMMA CopyWriteLoses ==
    ASSUME TypeInv, AloneInv, NEW p \in Procs, DelCopyWrite(p)
    PROVE  NamesIn(file) \ NamesIn(file') \subseteq Removes(p)
<1> DEFINE c == call[p]
           e == c.d + Len(c.buf)
<1>1. c \in Call /\ file \in Seq(Record)
  BY DEF TypeInv, TypeOK
<1>2. /\ c.id \in Nat \ {0} /\ c.num \in Nat /\ c.d \in Nat
      /\ c.seen \in Seq(Record) /\ Len(c.seen) \in Nat
      /\ c.buf \in Seq(Record) /\ Len(c.buf) \in Nat
  BY <1>1, CallTypes DEF TypeInv, Deleting, DelCopyWrite
<1>3. Moved(c, file) /\ InBuf(c) /\ pc[p] = "del_copy_write"
  BY DEF AloneInv, Knows, Copying, DelCopyWrite
<1>4. /\ MovedBy(file, c.seen, c.id, c.num, c.d)
      /\ c.id + c.num + c.d + Len(c.buf) - 1 <= Len(c.seen)
      /\ \A j \in 1..Len(c.buf) :
            c.buf[j] = c.seen[c.id + c.num + c.d + j - 1]
  BY <1>3 DEF Moved, InBuf
<1>5. file' = WriteAt(file, c.id - 1 + c.d, c.buf)
  BY DEF DelCopyWrite
<1>6. file' \in Seq(Record)
  <2>1. c.id - 1 + c.d \in Nat
    BY SMTT(40), <1>2
  <2> HIDE DEF c
  <2> QED
    BY <1>1, <1>2, <1>5, <2>1, WriteAtType
<1>7. MovedBy(file', c.seen, c.id, c.num, e)
  <2> HIDE DEF c
  <2> QED
    BY <1>1, <1>2, <1>4, <1>5, CopyBlock
<1>8. /\ e \in Nat /\ c.d <= e /\ c.id + c.num + e - 1 <= Len(c.seen)
  <2> HIDE DEF c
  <2> QED
    BY SMTT(40), <1>2, <1>4
<1>9. /\ Len(file') = Len(c.seen)
      /\ \A j \in 1..Len(file') : file'[j] =
            IF j >= c.id /\ j < c.id + e THEN c.seen[j + c.num] ELSE c.seen[j]
  BY <1>7 DEF MovedBy
<1> HIDE DEF e
<1>10. NamesIn(file) \ NamesIn(file') \subseteq NamesFrom(c.seen, c.id, c.num)
  <2> HIDE DEF c
  <2> QED
    BY <1>1, <1>2, <1>4, <1>6, <1>8, <1>9, NamesKept
<1> QED
  BY <1>3, <1>10, MayRemove

LEMMA TruncateLoses ==
    ASSUME TypeInv, AloneInv, NEW p \in Procs, DelTruncate(p)
    PROVE  NamesIn(file) \ NamesIn(file') \subseteq Removes(p)
<1> DEFINE c == call[p]
           n == Len(c.seen) - c.num
<1>1. c \in Call /\ file \in Seq(Record)
  BY DEF TypeInv, TypeOK
<1>2. /\ c.id \in Nat \ {0} /\ c.num \in Nat /\ c.d \in Nat
      /\ c.seen \in Seq(Record) /\ Len(c.seen) \in Nat
  BY <1>1, CallTypes DEF TypeInv, Deleting, DelTruncate
<1>3. /\ file' = Truncate(file, n)
      /\ MovedBy(file, c.seen, c.id, c.num, c.d)
      /\ c.id + c.num + c.d - 1 = Len(c.seen)
  BY TruncateIsExact
<1>4. /\ Len(file) = Len(c.seen)
      /\ \A j \in 1..Len(c.seen) : file[j] =
            IF j >= c.id /\ j < c.id + c.d THEN c.seen[j + c.num] ELSE c.seen[j]
  BY <1>3 DEF MovedBy
<1>5. n \in Nat /\ n <= Len(file) /\ n <= Len(c.seen)
  <2> HIDE DEF c
  <2> QED
    BY SMTT(40), <1>2, <1>3, <1>4
<1>6. /\ Len(file') = n /\ file' \in Seq(Record)
      /\ \A j \in 1..n : file'[j] = file[j]
  <2> HIDE DEF n
  <2> QED
    BY <1>1, <1>3, <1>5, TruncateCuts, TruncateType
<1>7. \A j \in 1..Len(file') : file'[j] =
            IF j >= c.id /\ j < c.id + c.d THEN c.seen[j + c.num] ELSE c.seen[j]
  <2> TAKE j \in 1..Len(file')
  <2> HIDE DEF n, c
  <2>1. j \in 1..n /\ j \in 1..Len(c.seen)
    BY <1>2, <1>5, <1>6
  <2> QED
    BY <1>4, <1>6, <2>1
<1>8. c.id + c.num + c.d - 1 <= Len(c.seen)
  BY <1>2, <1>3
<1>9. NamesIn(file) \ NamesIn(file') \subseteq NamesFrom(c.seen, c.id, c.num)
  <2>1. c.d <= c.d /\ Len(file') = Len(c.seen) - c.num
    BY <1>2, <1>6
  <2> HIDE DEF c, n
  <2> QED
    BY <1>1, <1>2, <1>3, <1>6, <1>7, <1>8, <2>1, NamesKept
<1>10. pc[p] = "del_truncate"
  BY DEF DelTruncate
<1> QED
  BY <1>9, <1>10, MayRemove

\* With one call at a time no step takes a name off the file but the deletion
\* of that name, and a delete that dies half way loses nothing but what it was
\* to delete (record.c:156-279).
THEOREM OnlyDeletedNamesVanishCorrect ==
    Spec /\ []OneAtATime => OnlyDeletedNamesVanish
<1>1. TypeInv /\ AloneInv /\ [Next]_vars =>
        [\E p \in Procs : NamesIn(file) \ NamesIn(file') \subseteq Removes(p)]_vars
  <2> SUFFICES ASSUME TypeInv, AloneInv, Next
               PROVE  \E p \in Procs : NamesIn(file) \ NamesIn(file') \subseteq Removes(p)
    OBVIOUS
  <2>1. PICK p \in Procs :
            AppendRecord(p) \/ SubstituteRecord(p) \/ DeleteRecord(p) \/ Crash(p)
    BY SMTT(40) DEF Next
  <2>2. \/ file' = file \/ AppendWrite(p) \/ SubWrite(p)
        \/ DelCopyWrite(p) \/ DelTruncate(p)
    BY <2>1 DEF AppendRecord, CallAppend, AppendFlock, AppendSeek, AppendOut,
        SubstituteRecord, CallSubstitute, CallSubstitute2, SubLock, SubRead,
        SubClose, DeleteRecord, CallDelete2, CallDeletes, DelStat, DelLock,
        DelRead, DelCopyRead, DelClose, Crash
  <2>3. NamesIn(file) \ NamesIn(file') \subseteq Removes(p)
    <3>1. CASE file' = file
      BY <3>1
    <3>2. CASE AppendWrite(p)
      BY <3>2, AppendLosesNone
    <3>3. CASE SubWrite(p)
      BY <3>3, SubWriteLoses
    <3>4. CASE DelCopyWrite(p)
      BY <3>4, CopyWriteLoses
    <3>5. CASE DelTruncate(p)
      BY <3>5, TruncateLoses
    <3> QED
      BY <2>2, <3>1, <3>2, <3>3, <3>4, <3>5
  <2> QED
    BY <2>3
<1> QED
  BY <1>1, SpecAlone, PTL DEF Spec, OnlyDeletedNamesVanish
=============================================================================
