-------------------------- MODULE UserHashProofs ---------------------------
(***************************************************************************)
(* Theorems about UserHash: types, for every instance; and, where nobody   *)
(* kills, that registrations exclude one another (SlotInv), that what they *)
(* granted stays, chains included (ChainInv), and that searches find what  *)
(* is there (FindInv).  Between them stand the lemmas on chains: what a    *)
(* walk along a table of links meets, and what unlinking, naming and       *)
(* linking a slot does to it.                                              *)
(***************************************************************************)
EXTENDS UserHash, FiniteSetTheorems, WellFoundedInduction, TLAPS

Searching == {"s_cmp", "s_next"}
Registering == {"r_check", "r_spare", "r_clean", "r_lock", "r_take",
                "r_record", "r_unlock"}
Setting == {"u_rmwalk", "u_unlink", "u_name", "u_addwalk", "u_link", "u_end"}

\* The locals c of a process at label l.
LocalsOK(l, c) ==
    /\ l = "idle" => c = NoCall
    /\ c.id \in New \cup {Empty}
    /\ l \in Searching \cup Registering => c.id \in New
    /\ l \in Searching => /\ c.ret # ""
                          /\ c.at # Nil => c.times < Cardinality(Slots)
    /\ l = "s_next" => c.at # Nil
    /\ l \in Setting => /\ c.slot \in Slots /\ c.cell \in Cells /\ c.done # ""
                        /\ c.done = "r_record" => c.id \in New
    /\ l \in {"r_record", "r_unlock", "k_record"} => c.slot \in Slots

LocalsKnown == \A p \in Procs : LocalsOK(pc[p], call[p])

TypeInv == TypeOK /\ LocalsKnown

-----------------------------------------------------------------------------
(* Types                                                                   *)

LEMMA SlotsCounted == Cardinality(Slots) \in Nat
BY TableAssumption, FS_CardinalityType

LEMMA NoCallType ==
    /\ NoCall \in Call /\ LocalsOK("idle", NoCall)
    /\ NoCall.id = Empty /\ NoCall.done = "" /\ NoCall.times = 0
<1>1. 0 \in 0..Cardinality(Slots)
  BY SlotsCounted
<1>2. NoCall \in Call
  BY <1>1 DEF NoCall, Call, Ids
<1> QED
  BY <1>2 DEF LocalsOK, NoCall, Searching, Registering, Setting

\* Only p moves, to label l with locals c.
Moves(p, l, c) == pc' = [pc EXCEPT ![p] = l] /\ call' = [call EXCEPT ![p] = c]

LEMMA MovesType ==
    ASSUME TypeInv, NEW p \in Procs, NEW l \in Labels, NEW c \in Call,
           Moves(p, l, c), LocalsOK(l, c)
    PROVE  /\ pc' \in [Procs -> Labels] /\ call' \in [Procs -> Call] /\ LocalsKnown'
           /\ pc'[p] = l /\ call'[p] = c
           /\ \A q \in Procs \ {p} : pc'[q] = pc[q] /\ call'[q] = call[q]
<1>1. pc \in [Procs -> Labels] /\ call \in [Procs -> Call] /\ LocalsKnown
  BY DEF TypeInv, TypeOK
<1>2. /\ pc' \in [Procs -> Labels] /\ call' \in [Procs -> Call]
      /\ pc'[p] = l /\ call'[p] = c
      /\ \A q \in Procs \ {p} : pc'[q] = pc[q] /\ call'[q] = call[q]
  BY <1>1 DEF Moves
<1>3. LocalsKnown'
  BY <1>1, <1>2 DEF LocalsKnown
<1> QED
  BY <1>2, <1>3

\* What is known of the locals of p.
LEMMA NilApart == Nil \notin Slots
BY ZenonT(60), TableAssumption DEF Cells

LEMMA OwnType ==
    ASSUME TypeInv, NEW p \in Procs
    PROVE  /\ pc[p] \in Labels /\ call[p] \in Call /\ LocalsOK(pc[p], call[p])
           /\ pc \in [Procs -> Labels] /\ call \in [Procs -> Call]
           /\ link \in [Cells -> Slots \cup {Nil}] /\ userid \in [Slots -> Ids]
           /\ passwd \in [Slots -> Ids] /\ sem \in Procs \cup {Nobody}
           /\ granted \subseteq Slots \X New /\ torn \in BOOLEAN
           /\ astray \subseteq Procs
BY DEF TypeInv, TypeOK, LocalsKnown

LEMMA InitType == Init => TypeInv
<1> SUFFICES ASSUME Init PROVE TypeInv
  OBVIOUS
<1>1. userid \in [Slots -> Ids] /\ link \in [Cells -> Slots \cup {Nil}]
      /\ passwd \in [Slots -> Ids]
  BY TableAssumption DEF Init, Ids
<1>2. /\ pc \in [Procs -> Labels] /\ call \in [Procs -> Call] /\ LocalsKnown
  BY NoCallType DEF Init, Labels, LocalsKnown
<1> QED
  BY <1>1, <1>2 DEF Init, TypeInv, TypeOK

\* A process that leaves.
LEMMA ReturnMoves ==
    ASSUME TypeInv, NEW p \in Procs, Return(p)
    PROVE  Moves(p, "idle", NoCall) /\ "idle" \in Labels /\ NoCall \in Call
           /\ LocalsOK("idle", NoCall)
BY NoCallType DEF Return, Goto, Moves, Labels

LEMMA ExitMoves ==
    ASSUME TypeInv, NEW p \in Procs, Exit(p)
    PROVE  Moves(p, "idle", NoCall) /\ "idle" \in Labels /\ NoCall \in Call
           /\ LocalsOK("idle", NoCall) /\ sem' \in Procs \cup {Nobody}
BY ReturnMoves, OwnType DEF Exit

\* A process whose locals stay.
LEMMA GotoMoves ==
    ASSUME TypeInv, NEW p \in Procs, NEW l \in Labels, Goto(p, l), UNCHANGED call
    PROVE  Moves(p, l, call[p])
BY OwnType DEF Goto, Moves

\* A search begins.
LEMMA SearchMoves ==
    ASSUME TypeInv, NEW p \in Procs, NEW key \in Ids,
           NEW ret \in {"r_check", "r_spare", "r_take"}, Search(p, key, ret),
           call[p].id \in New
    PROVE  \E c \in Call :
              /\ Moves(p, "s_cmp", c) /\ LocalsOK("s_cmp", c)
              /\ c.key = key /\ c.ret = ret /\ c.id = call[p].id
              /\ c.at = link[Hash[key]] /\ c.slot = call[p].slot
<1> DEFINE found == \E n \in Slots : userid[n] = key /\ OnChain(n)
           c == [call[p] EXCEPT !.key = key, !.ret = ret, !.times = 0,
                                !.at = link[Hash[key]], !.there = found]
<1>1. link[Hash[key]] \in Slots \cup {Nil}
  BY OwnType, TableAssumption DEF Cells
<1>2. call[p] \in Call /\ found \in BOOLEAN /\ 0 \in 0..Cardinality(Slots)
  BY OwnType, SlotsCounted
<1>3. call' = [call EXCEPT ![p] = c] /\ pc' = [pc EXCEPT ![p] = "s_cmp"]
  BY OwnType DEF Search, Goto
<1> HIDE DEF found
<1>4. c \in Call /\ c.key = key /\ c.ret = ret /\ c.id = call[p].id
      /\ c.at = link[Hash[key]] /\ c.times = 0 /\ c.slot = call[p].slot
  BY ZenonT(60), <1>1, <1>2 DEF Call
<1> HIDE DEF c
<1>5. c.at # Nil => c.times < Cardinality(Slots)
  <2>1. CASE Slots = {}
    BY <2>1, <1>1, <1>4
  <2>2. CASE Slots # {}
    BY <2>2, <1>4, SlotsCounted, TableAssumption, FS_EmptySet
  <2> QED
    BY <2>1, <2>2
<1>6. LocalsOK("s_cmp", c)
  BY <1>4, <1>5 DEF LocalsOK, Searching, Registering, Setting
<1> QED
  BY <1>3, <1>4, <1>6 DEF Moves

\* setuserid is called.
LEMMA SetUseridMoves ==
    ASSUME TypeInv, NEW p \in Procs, NEW n \in Slots, NEW id \in Ids,
           NEW done \in {"r_record", "k_record"}, SetUserid(p, n, id, done),
           done = "r_record" => call[p].id \in New
    PROVE  \E c \in Call :
              /\ Moves(p, "u_rmwalk", c) /\ LocalsOK("u_rmwalk", c)
              /\ c.slot = n /\ c.put = id /\ c.done = done /\ c.id = call[p].id
              /\ c.cell = Hash[userid[n]]
<1> DEFINE c == [call[p] EXCEPT !.slot = n, !.put = id, !.done = done,
                                !.cell = Hash[userid[n]], !.at = Nil, !.times = 0]
<1>1. Hash[userid[n]] \in Cells
  BY OwnType, TableAssumption DEF Cells
<1>2. call[p] \in Call /\ 0 \in 0..Cardinality(Slots)
      /\ call[p].id \in New \cup {Empty}
  <2>1. call[p] \in Call /\ LocalsOK(pc[p], call[p])
    BY OwnType
  <2>2. call[p].id \in New \cup {Empty}
    BY <2>1 DEF LocalsOK
  <2> QED
    BY <2>1, <2>2, SlotsCounted
<1>3. call' = [call EXCEPT ![p] = c] /\ pc' = [pc EXCEPT ![p] = "u_rmwalk"]
  BY OwnType DEF SetUserid, Goto
<1>4. c \in Call /\ c.slot = n /\ c.put = id /\ c.done = done /\ c.id = call[p].id
      /\ c.cell = Hash[userid[n]]
  BY <1>1, <1>2 DEF Call
<1> HIDE DEF c
<1>5. LocalsOK("u_rmwalk", c)
  BY <1>1, <1>2, <1>4 DEF LocalsOK, Searching, Registering, Setting
<1> QED
  BY <1>3, <1>4, <1>5 DEF Moves
LEMMA SearchType ==
    ASSUME TypeInv, NEW p \in Procs, SearchCmp(p) \/ SearchNext(p)
    PROVE  \E l \in Labels, c \in Call : Moves(p, l, c) /\ LocalsOK(l, c)
<1>a. /\ call[p] \in Call /\ LocalsOK(pc[p], call[p]) /\ Cardinality(Slots) \in Nat
      /\ link \in [Cells -> Slots \cup {Nil}]
      /\ call[p].times \in 0..Cardinality(Slots) /\ call[p].at \in Slots \cup {Nil}
      /\ call[p].ret \in {"", "r_check", "r_spare", "r_take"}
  BY OwnType, SlotsCounted DEF Call
<1>b. /\ call[p].id \in New /\ call[p].ret \in {"r_check", "r_spare", "r_take"}
      /\ call[p].ret \in Labels
      /\ call[p].at # Nil => call[p].times < Cardinality(Slots)
      /\ pc[p] = "s_next" => call[p].at # Nil
  BY <1>a DEF SearchCmp, SearchNext, LocalsOK, Searching, Labels
<1>n. Cardinality(Slots) \in Nat /\ call[p].times \in 0..Cardinality(Slots)
  BY <1>a
<1>1. CASE SearchCmp(p)
  <2>1. CASE call[p].at = Nil \/ userid[call[p].at] = call[p].key
    <3>1. Moves(p, call[p].ret, call[p])
      BY <1>1, <1>b, <2>1, GotoMoves DEF SearchCmp, SearchEnds
    <3>2. LocalsOK(call[p].ret, call[p])
      BY <1>b, <1>a DEF LocalsOK, Searching, Registering, Setting
    <3> QED
      BY <1>a, <1>b, <3>1, <3>2
  <2>2. CASE ~ (call[p].at = Nil \/ userid[call[p].at] = call[p].key)
    <3>1. Moves(p, "s_next", call[p])
      BY <1>1, <2>2, GotoMoves DEF SearchCmp, Labels
    <3>2. LocalsOK("s_next", call[p])
      BY <1>b, <1>a, <2>2 DEF LocalsOK, Searching, Registering, Setting
    <3> QED
      BY <1>a, <3>1, <3>2 DEF Labels
  <2> QED
    BY <2>1, <2>2
<1>2. CASE SearchNext(p)
  <2> DEFINE t == call[p].times + 1
             last == t = Cardinality(Slots)
             v == IF last THEN Nil ELSE link[call[p].at]
             c == [call[p] EXCEPT !.at = v, !.times = t]
             l == IF last THEN call[p].ret ELSE "s_cmp"
  <2>1. t \in 0..Cardinality(Slots) /\ v \in Slots \cup {Nil} /\ l \in Labels
    <3>1. call[p].at \in Slots /\ call[p].times < Cardinality(Slots)
      BY <1>2, <1>a, <1>b DEF SearchNext
    <3>2. link[call[p].at] \in Slots \cup {Nil}
      BY <3>1, <1>a DEF Cells
    <3>3. t \in 0..Cardinality(Slots)
      BY <3>1, <1>n
    <3> QED
      BY <3>2, <3>3, <1>b DEF Labels
  <2>2. Moves(p, l, c)
    BY <1>2, OwnType DEF SearchNext, Goto, Moves
  <2>3. /\ c \in Call /\ c.at = v /\ c.times = t
        /\ c.id = call[p].id /\ c.ret = call[p].ret
    BY <1>a, <2>1 DEF Call
  <2>4. LocalsOK(l, c)
    <3>0. l = "s_cmp" => ~ last
      BY <1>b
    <3>1. l = "s_cmp" => t < Cardinality(Slots)
      BY <2>1, <3>0, <1>n
    <3>2. l \in {"r_check", "r_spare", "r_take", "s_cmp"}
      BY <1>b
    <3> HIDE DEF c, l
    <3> QED
      BY <1>b, <2>3, <3>1, <3>2 DEF LocalsOK, Searching, Registering, Setting
  <2> QED
    BY <2>1, <2>2, <2>3, <2>4
<1> QED
  BY <1>1, <1>2

LEMMA SetUseridType ==
    ASSUME TypeInv, NEW p \in Procs, SetUseridSteps(p)
    PROVE  /\ \E l \in Labels, c \in Call : Moves(p, l, c) /\ LocalsOK(l, c)
           /\ sem' \in Procs \cup {Nobody}
           /\ link' \in [Cells -> Slots \cup {Nil}] /\ userid' \in [Slots -> Ids]
<1> DEFINE n == call[p].slot
           c0 == call[p].cell
<1>a. /\ call[p] \in Call /\ LocalsOK(pc[p], call[p]) /\ Cardinality(Slots) \in Nat
      /\ link \in [Cells -> Slots \cup {Nil}] /\ userid \in [Slots -> Ids]
      /\ sem \in Procs \cup {Nobody}
      /\ call[p].times \in 0..Cardinality(Slots) /\ call[p].put \in Ids
      /\ call[p].done \in {"", "r_record", "k_record"}
  BY OwnType, SlotsCounted DEF Call
<1>n. Cardinality(Slots) \in Nat /\ call[p].times \in 0..Cardinality(Slots)
  BY <1>a
<1>0. pc[p] \in Setting
  BY DEF SetUseridSteps, RemoveWalk, RemoveUnlink, AddName, AddWalk, AddLink, AddEnd, Setting
<1>b. /\ n \in Slots /\ c0 \in Cells /\ call[p].done \in {"r_record", "k_record"}
      /\ call[p].done = "r_record" => call[p].id \in New
      /\ call[p].id \in New \cup {Empty}
  BY <1>a, <1>0 DEF LocalsOK
\* The walks stay among the cells of the table.
<1>c. ASSUME NEW l \in Setting, NEW c \in Cells, NEW t \in 0..Cardinality(Slots)
      PROVE  /\ l \in Labels /\ [call[p] EXCEPT !.cell = c, !.times = t] \in Call
             /\ LocalsOK(l, [call[p] EXCEPT !.cell = c, !.times = t])
  <2> DEFINE k == [call[p] EXCEPT !.cell = c, !.times = t]
  <2>1. /\ k \in Call /\ k.slot = call[p].slot /\ k.cell = c /\ k.done = call[p].done
        /\ k.id = call[p].id
    BY <1>a DEF Call
  <2> HIDE DEF k
  <2>2. LocalsOK(l, k)
    BY <2>1, <1>b DEF LocalsOK, Searching, Registering, Setting
  <2> QED
    BY <2>1, <2>2 DEF k, Setting, Labels
<1>d. call[p] = [call[p] EXCEPT !.cell = call[p].cell, !.times = call[p].times]
  BY <1>a DEF Call
<1>e. ASSUME NEW l \in Setting
      PROVE  l \in Labels /\ LocalsOK(l, call[p])
  <2>1. LocalsOK(l, [call[p] EXCEPT !.cell = call[p].cell, !.times = call[p].times])
        /\ l \in Labels
    BY <1>a, <1>b, <1>c
  <2> QED
    BY <2>1, <1>d
<1>1. CASE RemoveWalk(p)
  <2>1. UNCHANGED <<userid, link>>
    BY <1>1 DEF RemoveWalk
  <2>2. CASE Exit(p)
    BY <2>1, <2>2, <1>a, ExitMoves
  <2>3. CASE Goto(p, "u_unlink") /\ call' = [call EXCEPT ![p].times = 0] /\ UNCHANGED sem
    <3>1. Moves(p, "u_unlink", [call[p] EXCEPT !.cell = c0, !.times = 0])
      <4>1. [call[p] EXCEPT !.times = 0] = [call[p] EXCEPT !.cell = c0, !.times = 0]
        BY <1>a DEF Call
      <4> QED
        BY <2>3, <4>1, OwnType DEF Goto, Moves
    <3> QED
      <4>1. "u_unlink" \in Setting /\ 0 \in 0..Cardinality(Slots)
        BY <1>n DEF Setting
      <4>2. /\ "u_unlink" \in Labels /\ [call[p] EXCEPT !.cell = c0, !.times = 0] \in Call
            /\ LocalsOK("u_unlink", [call[p] EXCEPT !.cell = c0, !.times = 0])
        BY <4>1, <1>b, <1>c
      <4> QED
        BY <3>1, <4>2, <2>1, <2>3, <1>a
  <2>4. CASE ~ (call[p].times = Cardinality(Slots)) /\ link[c0] # Nil
             /\ call' = [call EXCEPT ![p] = [call[p] EXCEPT !.cell = link[c0],
                                                !.times = call[p].times + 1]]
             /\ UNCHANGED <<pc, sem>>
    <3>1. link[c0] \in Cells /\ call[p].times + 1 \in 0..Cardinality(Slots)
      <4>1. link[c0] \in Slots
        BY <2>4, <1>a, <1>b
      <4>2. call[p].times + 1 \in 0..Cardinality(Slots)
        BY <2>4, <1>n
      <4> QED
        BY <4>1, <4>2 DEF Cells
    <3>2. Moves(p, "u_rmwalk", [call[p] EXCEPT !.cell = link[c0], !.times = call[p].times + 1])
      BY <2>4, <1>1, OwnType DEF RemoveWalk, Moves
    <3>3. /\ "u_rmwalk" \in Labels
          /\ [call[p] EXCEPT !.cell = link[c0], !.times = call[p].times + 1] \in Call
          /\ LocalsOK("u_rmwalk", [call[p] EXCEPT !.cell = link[c0], !.times = call[p].times + 1])
      BY <3>1, <1>c DEF Setting
    <3> QED
      BY <3>2, <3>3, <2>1, <2>4, <1>a
  <2> QED
    BY <1>1, <2>2, <2>3, <2>4 DEF RemoveWalk
<1>2. CASE RemoveUnlink(p)
  <2>1. link' \in [Cells -> Slots \cup {Nil}]
    BY <1>2, <1>a, <1>b DEF RemoveUnlink, Unlinked, Cells
  <2>2. Moves(p, "u_name", call[p]) /\ UNCHANGED <<sem, userid>>
    BY <1>2, GotoMoves DEF RemoveUnlink, Labels
  <2> QED
    BY <2>1, <2>2, <1>a, <1>e DEF Setting
<1>3. CASE AddName(p)
  <2>1. userid' \in [Slots -> Ids] /\ UNCHANGED <<sem, link>>
    BY <1>3, <1>a, <1>b DEF AddName
  <2>2. Hash[call[p].put] \in Cells
    BY <1>a, TableAssumption DEF Cells
  <2>3. Moves(p, "u_addwalk",
              [call[p] EXCEPT !.cell = Hash[call[p].put], !.times = call[p].times])
    <3>1. [call[p] EXCEPT !.cell = Hash[call[p].put]]
            = [call[p] EXCEPT !.cell = Hash[call[p].put], !.times = call[p].times]
      BY <1>a DEF Call
    <3> QED
      BY <1>3, <3>1, OwnType DEF AddName, Goto, Moves
  <2> QED
    <3>1. "u_addwalk" \in Setting
      BY DEF Setting
    <3>2. /\ "u_addwalk" \in Labels
          /\ [call[p] EXCEPT !.cell = Hash[call[p].put], !.times = call[p].times] \in Call
          /\ LocalsOK("u_addwalk",
                      [call[p] EXCEPT !.cell = Hash[call[p].put], !.times = call[p].times])
      BY <2>2, <3>1, <1>a, <1>c
    <3> QED
      BY <2>1, <2>3, <3>2, <1>a
<1>4. CASE AddWalk(p)
  <2>1. UNCHANGED <<userid, link>>
    BY <1>4 DEF AddWalk
  <2>2. CASE Exit(p)
    BY <2>1, <2>2, <1>a, ExitMoves
  <2>3. CASE Goto(p, "u_link") /\ UNCHANGED <<call, sem>>
    <3>1. Moves(p, "u_link", call[p])
      BY <2>3, GotoMoves DEF Labels
    <3> QED
      BY <3>1, <2>1, <2>3, <1>a, <1>e DEF Setting
  <2>4. CASE ~ (call[p].times = Cardinality(Slots)) /\ link[c0] # Nil
             /\ call' = [call EXCEPT ![p] = [call[p] EXCEPT !.cell = link[c0],
                                                !.times = call[p].times + 1]]
             /\ UNCHANGED <<pc, sem>>
    <3>1. link[c0] \in Cells /\ call[p].times + 1 \in 0..Cardinality(Slots)
      <4>1. link[c0] \in Slots
        BY <2>4, <1>a, <1>b
      <4>2. call[p].times + 1 \in 0..Cardinality(Slots)
        BY <2>4, <1>n
      <4> QED
        BY <4>1, <4>2 DEF Cells
    <3>2. Moves(p, "u_addwalk", [call[p] EXCEPT !.cell = link[c0], !.times = call[p].times + 1])
      BY <2>4, <1>4, OwnType DEF AddWalk, Moves
    <3>3. /\ "u_addwalk" \in Labels
          /\ [call[p] EXCEPT !.cell = link[c0], !.times = call[p].times + 1] \in Call
          /\ LocalsOK("u_addwalk", [call[p] EXCEPT !.cell = link[c0], !.times = call[p].times + 1])
      BY <3>1, <1>c DEF Setting
    <3> QED
      BY <3>2, <3>3, <2>1, <2>4, <1>a
  <2> QED
    BY <1>4, <2>2, <2>3, <2>4 DEF AddWalk
<1>5. CASE AddLink(p)
  <2>1. link' \in [Cells -> Slots \cup {Nil}]
    BY <1>5, <1>a, <1>b DEF AddLink
  <2>2. Moves(p, "u_end", call[p]) /\ UNCHANGED <<sem, userid>>
    BY <1>5, GotoMoves DEF AddLink, Labels
  <2> QED
    BY <2>1, <2>2, <1>a, <1>e DEF Setting
<1>6. CASE AddEnd(p)
  <2>1. link' \in [Cells -> Slots \cup {Nil}] /\ call[p].done \in Labels
    BY <1>6, <1>a, <1>b DEF AddEnd, Labels
  <2>2. Moves(p, call[p].done, call[p]) /\ UNCHANGED <<sem, userid>>
    BY <1>6, <2>1, GotoMoves DEF AddEnd
  <2>3. LocalsOK(call[p].done, call[p])
    BY <1>b DEF LocalsOK, Searching, Registering, Setting
  <2> QED
    BY <2>1, <2>2, <2>3, <1>a
<1> QED
  BY <1>1, <1>2, <1>3, <1>4, <1>5, <1>6 DEF SetUseridSteps

LEMMA SetupType ==
    ASSUME TypeInv, NEW p \in Procs, SetupNewUser(p)
    PROVE  /\ \E l \in Labels, c \in Call : Moves(p, l, c) /\ LocalsOK(l, c)
           /\ sem' \in Procs \cup {Nobody}
           /\ passwd' \in [Slots -> Ids] /\ granted' \subseteq Slots \X New
<1>a. /\ call[p] \in Call /\ LocalsOK(pc[p], call[p]) /\ Cardinality(Slots) \in Nat
      /\ link \in [Cells -> Slots \cup {Nil}] /\ userid \in [Slots -> Ids]
      /\ passwd \in [Slots -> Ids] /\ sem \in Procs \cup {Nobody}
      /\ granted \subseteq Slots \X New
  BY OwnType, SlotsCounted
<1>b. pc[p] \in Registering => call[p].id \in New
  BY <1>a DEF LocalsOK
<1>c. Empty \in Ids /\ New \subseteq Ids
  BY DEF Ids
<1>r. "r_check" \in Registering /\ "r_spare" \in Registering /\ "r_clean" \in Registering
      /\ "r_lock" \in Registering /\ "r_take" \in Registering /\ "r_record" \in Registering
      /\ "r_unlock" \in Registering
  BY DEF Registering
<1>1. CASE CallRegister(p)
  <2>1. PICK id \in New :
          /\ call' = [call EXCEPT ![p].id = id, ![p].key = id,
                ![p].ret = "r_check", ![p].at = link[Hash[id]],
                ![p].there = \E n \in Slots : userid[n] = id /\ OnChain(n)]
          /\ pc' = [pc EXCEPT ![p] = "s_cmp"]
    BY <1>1 DEF CallRegister, Goto
  <2> DEFINE found == \E n \in Slots : userid[n] = id /\ OnChain(n)
             c == [NoCall EXCEPT !.id = id, !.key = id, !.ret = "r_check",
                                 !.at = link[Hash[id]], !.there = found]
  <2>2. call[p] = NoCall /\ UNCHANGED <<sem, passwd, granted>>
    BY <1>1, <1>a DEF CallRegister, LocalsOK
  <2>3. Moves(p, "s_cmp", c)
    BY <2>1, <2>2, OwnType DEF Moves
  <2>4. link[Hash[id]] \in Slots \cup {Nil} /\ found \in BOOLEAN /\ id \in Ids
    BY <1>a, TableAssumption DEF Cells, Ids
  <2> HIDE DEF found
  <2>5. c \in Call /\ c.id = id /\ c.ret = "r_check" /\ c.at = link[Hash[id]] /\ c.times = 0
    BY <2>4, NoCallType DEF Call
  <2> HIDE DEF c
  <2>6. c.at # Nil => c.times < Cardinality(Slots)
    BY <2>4, <2>5, <1>a, TableAssumption, FS_EmptySet
  <2>7. LocalsOK("s_cmp", c)
    BY <2>5, <2>6 DEF LocalsOK, Searching, Registering, Setting
  <2> QED
    BY <2>2, <2>3, <2>5, <2>7, <1>a DEF Labels
<1>2. CASE RegisterCheck(p)
  <2>1. UNCHANGED <<sem, passwd, granted>> /\ call[p].id \in New
    BY <1>2, <1>b, <1>r DEF RegisterCheck
  <2>2. CASE Return(p)
    BY <2>1, <2>2, <1>a, ReturnMoves
  <2>3. CASE Search(p, Empty, "r_spare")
    BY <2>1, <2>3, <1>a, <1>c, SearchMoves DEF Labels
  <2> QED
    BY <1>2, <2>2, <2>3 DEF RegisterCheck
<1>3. CASE RegisterSpare(p)
  <2>1. UNCHANGED <<sem, passwd, granted, call>> /\ call[p].id \in New
    BY <1>3, <1>b, <1>r DEF RegisterSpare
  <2>2. PICK l \in {"r_lock", "r_clean"} : Goto(p, l)
    BY <1>3 DEF RegisterSpare
  <2>3. Moves(p, l, call[p]) /\ l \in Labels
    BY <2>1, <2>2, GotoMoves DEF Labels
  <2>4. LocalsOK(l, call[p])
    BY <2>1 DEF LocalsOK, Searching, Registering, Setting
  <2> QED
    BY <2>1, <2>3, <2>4, <1>a
<1>4. CASE RegisterClean(p)
  <2>1. UNCHANGED <<sem, passwd, granted>> /\ call[p].id \in New
    BY <1>4, <1>b, <1>r DEF RegisterClean
  <2>2. CASE Goto(p, "r_lock") /\ UNCHANGED call
    <3>1. Moves(p, "r_lock", call[p]) /\ "r_lock" \in Labels
      BY <2>2, GotoMoves DEF Labels
    <3>2. LocalsOK("r_lock", call[p])
      BY <2>1 DEF LocalsOK, Searching, Registering, Setting
    <3> QED
      BY <2>1, <3>1, <3>2, <1>a
  <2>3. CASE \E n \in Slots : SetUserid(p, n, Empty, "k_record")
    BY <2>1, <2>3, <1>a, <1>c, SetUseridMoves DEF Labels
  <2> QED
    BY <1>4, <2>2, <2>3 DEF RegisterClean
<1>5. CASE RegisterLock(p)
  <2>1. UNCHANGED <<passwd, granted>> /\ call[p].id \in New /\ sem' = p
        /\ Search(p, Empty, "r_take")
    BY <1>5, <1>b, <1>r DEF RegisterLock, PasswdLock
  <2> QED
    BY <2>1, <1>a, <1>c, SearchMoves DEF Labels
<1>6. CASE RegisterTake(p)
  <2>1. UNCHANGED <<passwd, granted>> /\ call[p].id \in New /\ call[p].id \in Ids
    BY <1>6, <1>b, <1>c, <1>r DEF RegisterTake
  <2>2. CASE Exit(p)
    BY <2>1, <2>2, <1>a, ExitMoves
  <2>3. CASE call[p].at # Nil /\ SetUserid(p, call[p].at, call[p].id, "r_record") /\ UNCHANGED sem
    <3>1. call[p].at \in Slots
      BY <2>3, <1>a DEF Call
    <3> QED
      BY <2>1, <2>3, <3>1, <1>a, SetUseridMoves DEF Labels
  <2> QED
    BY <1>6, <2>2, <2>3 DEF RegisterTake
<1>7. CASE RegisterRecord(p)
  <2>1. UNCHANGED <<sem, granted, call>> /\ call[p].id \in New /\ call[p].slot \in Slots
        /\ passwd' \in [Slots -> Ids]
    BY <1>7, <1>a, <1>b, <1>c, <1>r DEF RegisterRecord, LocalsOK
  <2>2. Moves(p, "r_unlock", call[p]) /\ "r_unlock" \in Labels
    BY <1>7, <2>1, GotoMoves DEF RegisterRecord, Labels
  <2>3. LocalsOK("r_unlock", call[p])
    BY <2>1 DEF LocalsOK, Searching, Registering, Setting
  <2> QED
    BY <2>1, <2>2, <2>3, <1>a
<1>8. CASE RegisterUnlock(p)
  <2>1. /\ sem' \in Procs \cup {Nobody} /\ UNCHANGED passwd /\ Return(p)
        /\ granted' = granted \cup {<<call[p].slot, call[p].id>>}
    BY <1>8, <1>a DEF RegisterUnlock
  <2>2. call[p].id \in New /\ call[p].slot \in Slots
    BY <1>8, <1>a, <1>b, <1>r DEF RegisterUnlock, LocalsOK
  <2>3. granted' \subseteq Slots \X New
    BY <2>1, <2>2, <1>a
  <2> QED
    BY <2>1, <2>3, <1>a, ReturnMoves
<1> QED
  BY <1>1, <1>2, <1>3, <1>4, <1>5, <1>6, <1>7, <1>8 DEF SetupNewUser

LEMMA KillType ==
    ASSUME TypeInv, NEW p \in Procs, KillUser(p)
    PROVE  /\ \E l \in Labels, c \in Call : Moves(p, l, c) /\ LocalsOK(l, c)
           /\ passwd' \in [Slots -> Ids]
<1>a. /\ call[p] \in Call /\ LocalsOK(pc[p], call[p])
      /\ passwd \in [Slots -> Ids] /\ Empty \in Ids
  BY OwnType DEF Ids
<1>1. CASE CallKill(p)
  <2>1. UNCHANGED passwd /\ \E n \in Slots : SetUserid(p, n, Empty, "k_record")
    BY <1>1 DEF CallKill
  <2> QED
    BY <2>1, <1>a, SetUseridMoves DEF Labels
<1>2. CASE KillRecord(p)
  <2>1. call[p].slot \in Slots /\ call[p].id \in New \cup {Empty}
    BY <1>2, <1>a DEF KillRecord, LocalsOK
  <2>2. passwd' \in [Slots -> Ids]
    BY <1>2, <2>1, <1>a DEF KillRecord
  <2>3. CASE Return(p)
    BY <2>2, <2>3, <1>a, ReturnMoves
  <2>4. CASE call[p].id # Empty /\ Goto(p, "r_clean") /\ call' = [call EXCEPT ![p].slot = Nil]
    <3> DEFINE c == [call[p] EXCEPT !.slot = Nil]
    <3>1. c \in Call /\ c.id = call[p].id
      BY <1>a DEF Call
    <3>2. Moves(p, "r_clean", c)
      BY <2>4, OwnType DEF Goto, Moves
    <3> HIDE DEF c
    <3>3. LocalsOK("r_clean", c)
      BY <2>1, <2>4, <3>1 DEF LocalsOK, Searching, Registering, Setting
    <3> QED
      BY <2>2, <3>1, <3>2, <3>3 DEF Labels
  <2> QED
    BY <1>2, <2>3, <2>4 DEF KillRecord
<1> QED
  BY <1>1, <1>2 DEF KillUser

LEMMA NextType == TypeInv /\ [Next]_vars => TypeInv'
<1> SUFFICES ASSUME TypeInv, [Next]_vars PROVE TypeInv'
  OBVIOUS
<1>1. CASE UNCHANGED vars
  BY <1>1 DEF vars, TypeInv, TypeOK, LocalsKnown
<1>2. ASSUME NEW p \in Procs, Alive(p) \/ Crash(p) PROVE TypeInv'
  <2>a. TypeOK
    BY DEF TypeInv
  <2>1. \E l \in Labels, c \in Call : Moves(p, l, c) /\ LocalsOK(l, c)
    BY <1>2, SearchType, SetUseridType, SetupType, KillType, ExitMoves DEF Alive, Crash
  <2>2. /\ sem' \in Procs \cup {Nobody} /\ torn' \in BOOLEAN
        /\ link' \in [Cells -> Slots \cup {Nil}] /\ userid' \in [Slots -> Ids]
        /\ passwd' \in [Slots -> Ids] /\ granted' \subseteq Slots \X New
    <3>1. CASE SearchCmp(p) \/ SearchNext(p)
      <4>1. UNCHANGED <<userid, link, passwd, sem, granted>>
        BY <3>1 DEF SearchCmp, SearchNext
      <4>2. torn' = torn \/ torn' = (torn \/ pc[p] = "u_end")
        BY ZenonT(60), <1>2 DEF Alive, Crash
      <4>3. torn' \in BOOLEAN
        BY <4>2, OwnType
      <4> QED
        BY ZenonT(60), <4>1, <4>3, OwnType
    <3>2. CASE SetUseridSteps(p)
      BY <3>2, <1>2, OwnType, SetUseridType DEF SetUseridSteps, RemoveWalk, RemoveUnlink,
         AddName, AddWalk, AddLink, AddEnd, Alive, Crash
    <3>3. CASE SetupNewUser(p)
      BY <3>3, <1>2, OwnType, SetupType DEF SetupNewUser, CallRegister, RegisterCheck,
         RegisterSpare, RegisterClean, RegisterLock, RegisterTake, RegisterRecord,
         RegisterUnlock, Alive, Crash
    <3>4. CASE KillUser(p)
      BY <3>4, <1>2, OwnType, KillType DEF KillUser, CallKill, KillRecord, Alive, Crash
    <3>5. CASE Crash(p)
      BY <3>5, OwnType, ExitMoves DEF Crash
    <3> QED
      BY <1>2, <3>1, <3>2, <3>3, <3>4, <3>5 DEF Alive
  <2>3. pc' \in [Procs -> Labels] /\ call' \in [Procs -> Call] /\ LocalsKnown'
    BY <2>1, MovesType
  <2>4. astray' \subseteq Procs
    BY <1>2 DEF Alive, Crash, Astray
  <2> QED
    BY <2>2, <2>3, <2>4 DEF TypeInv, TypeOK
<1> QED
  BY <1>1, <1>2 DEF Next

\* Every variable keeps to its type, whoever registers, kills or dies and
\* whatever becomes of the chains: the loops of cache.c:184-203 and 168-178
\* never count beyond MAX_USERS, and no walk leaves the table.
THEOREM TypeCorrect == Spec => []TypeOK
<1>1. Spec => []TypeInv
  BY InitType, NextType, PTL DEF Spec
<1>2. TypeInv => TypeOK
  BY DEF TypeInv
<1> QED
  BY <1>1, <1>2, PTL

-----------------------------------------------------------------------------
(* Registrations exclude one another where nobody kills                    *)

NoKill == "kill" \notin Ops

\* p has passed passwd_lock().
Holding(p) == \/ pc[p] \in Setting \cup {"r_take", "r_record", "r_unlock"}
              \/ pc[p] \in Searching /\ call[p].ret = "r_take"

LockHeld == \A p \in Procs : Holding(p) => sem = p

\* The slot in hand: free until it is named, and then nobody else's.
Named == {"u_addwalk", "u_link", "u_end", "r_record", "r_unlock"}
OwnSlot(p) ==
    /\ pc[p] # "k_record"
    /\ pc[p] \in Setting => call[p].done = "r_record" /\ call[p].put = call[p].id
    /\ pc[p] \in Searching /\ call[p].ret = "r_take" => call[p].key = Empty
    /\ pc[p] = "r_take" /\ call[p].at # Nil => userid[call[p].at] = Empty
    /\ pc[p] \in {"u_rmwalk", "u_unlink", "u_name"} => userid[call[p].slot] = Empty
    /\ pc[p] \in Named => /\ userid[call[p].slot] = call[p].id
                           /\ \A g \in granted : g[1] # call[p].slot
    /\ pc[p] = "r_unlock" => passwd[call[p].slot] = call[p].id

GrantedKept == \A g \in granted : userid[g[1]] = g[2] /\ passwd[g[1]] = g[2]

SlotInv == TypeInv /\ LockHeld /\ (\A p \in Procs : OwnSlot(p)) /\ GrantedKept

\* What a step of p leaves to the others.
Leaves(p) ==
    /\ \A q \in Procs \ {p} : pc'[q] = pc[q] /\ call'[q] = call[q]
    /\ \/ UNCHANGED <<userid, passwd, granted>>
       \/ Holding(p)
    /\ \/ UNCHANGED sem
       \/ sem = Nobody
       \/ sem = p

LEMMA OthersSlots ==
    ASSUME SlotInv, NEW p \in Procs, Leaves(p), TypeInv',
           OwnSlot(p)', Holding(p)' => sem' = p, GrantedKept'
    PROVE  SlotInv'
<1>1. LockHeld /\ Nobody \notin Procs
  BY TableAssumption DEF SlotInv
<1>2. ASSUME NEW q \in Procs, q # p, Holding(q)'
      PROVE  Holding(q) /\ sem' = q
  <2>1. Holding(q)
    BY <1>2 DEF Leaves, Holding
  <2> QED
    BY <1>1, <1>2, <2>1 DEF Leaves, LockHeld
<1>3. LockHeld'
  BY <1>2 DEF LockHeld
<1>4. ASSUME NEW q \in Procs, q # p
      PROVE  OwnSlot(q)'
  <2>1. OwnSlot(q) /\ pc'[q] = pc[q] /\ call'[q] = call[q]
    BY <1>4 DEF SlotInv, Leaves
  <2>2. CASE Holding(q)
    <3>1. sem = q /\ ~ Holding(p)
      BY <2>2, <1>1, <1>4 DEF LockHeld
    <3> QED
      BY <2>1, <3>1 DEF Leaves, OwnSlot
  <2>3. CASE ~ Holding(q)
    BY <2>1, <2>3 DEF OwnSlot, Holding, Setting, Named
  <2> QED
    BY <2>2, <2>3
<1> QED
  BY <1>3, <1>4 DEF SlotInv

\* What is known of p, and what it is to its step.
LEMMA SlotStep ==
    ASSUME SlotInv, NEW p \in Procs, Alive(p) \/ Crash(p)
    PROVE  /\ call[p] \in Call /\ LocalsOK(pc[p], call[p]) /\ OwnSlot(p) /\ GrantedKept
           /\ pc \in [Procs -> Labels] /\ call \in [Procs -> Call]
           /\ userid \in [Slots -> Ids] /\ passwd \in [Slots -> Ids]
           /\ granted \subseteq Slots \X New
           /\ Holding(p) => sem = p
           /\ TypeInv /\ TypeInv' /\ Empty \notin New
           /\ \A q \in Procs \ {p} : pc'[q] = pc[q] /\ call'[q] = call[q]
<1>1. TypeInv /\ LockHeld /\ OwnSlot(p) /\ GrantedKept
  BY DEF SlotInv
<1>2. \E l \in Labels, c \in Call : Moves(p, l, c) /\ LocalsOK(l, c)
  BY <1>1, SearchType, SetUseridType, SetupType, KillType, ExitMoves DEF Alive, Crash
<1>3. \A q \in Procs \ {p} : pc'[q] = pc[q] /\ call'[q] = call[q]
  BY <1>1, <1>2, MovesType
<1>4. TypeInv'
  BY <1>1, NextType DEF Next
<1> QED
  BY <1>1, <1>3, <1>4, OwnType, TableAssumption DEF LockHeld

LEMMA ReturnSlots ==
    ASSUME NEW p \in Procs, pc'[p] = "idle"
    PROVE  OwnSlot(p)' /\ ~ Holding(p)'
BY DEF OwnSlot, Holding, Setting, Searching, Named

LEMMA ReturnIdle ==
    ASSUME pc \in [Procs -> Labels], NEW p \in Procs, Return(p)
    PROVE  pc'[p] = "idle"
BY DEF Return, Goto

LEMMA ExitSlots ==
    ASSUME SlotInv, NEW p \in Procs, Exit(p), Alive(p) \/ Crash(p),
           UNCHANGED <<userid, passwd, granted>>
    PROVE  SlotInv'
<1>1. pc'[p] = "idle"
  BY SlotStep, ReturnIdle DEF Exit
<1>2. Leaves(p)
  BY SlotStep DEF Exit, Leaves
<1>3. GrantedKept'
  BY SlotStep DEF GrantedKept
<1> QED
  BY <1>1, <1>2, <1>3, SlotStep, ReturnSlots, OthersSlots

LEMMA SearchSlots ==
    ASSUME SlotInv, NEW p \in Procs, Alive(p), SearchCmp(p) \/ SearchNext(p)
    PROVE  SlotInv'
<1>a. /\ call[p] \in Call /\ LocalsOK(pc[p], call[p]) /\ OwnSlot(p) /\ GrantedKept
      /\ pc \in [Procs -> Labels] /\ call \in [Procs -> Call]
      /\ Holding(p) => sem = p
      /\ pc[p] \in Searching
      /\ \A q \in Procs \ {p} : pc'[q] = pc[q] /\ call'[q] = call[q]
      /\ UNCHANGED <<userid, passwd, granted, sem>>
  BY SlotStep DEF SearchCmp, SearchNext, Searching
<1>1. Leaves(p) /\ GrantedKept'
  BY <1>a DEF Leaves, GrantedKept
<1>b. call[p].ret \in {"r_check", "r_spare", "r_take"}
  BY <1>a DEF LocalsOK, Call
<1>2. OwnSlot(p)' /\ (Holding(p)' => Holding(p))
  <2>1. CASE SearchCmp(p)
    <3>1. call' = call
      BY <2>1 DEF SearchCmp
    <3>2. CASE call[p].at = Nil \/ userid[call[p].at] = call[p].key
      <4>1. pc'[p] = call[p].ret
        BY <2>1, <3>2, <1>a DEF SearchCmp, SearchEnds, Goto
      <4>2. call[p].ret = "r_take" => Holding(p) /\ call[p].key = Empty
        BY <1>a DEF OwnSlot, Holding
      <4> QED
        BY <1>a, <1>b, <3>1, <3>2, <4>1, <4>2 DEF OwnSlot, Holding, Setting, Searching, Named
    <3>3. CASE ~ (call[p].at = Nil \/ userid[call[p].at] = call[p].key)
      <4>1. pc'[p] = "s_next"
        BY <2>1, <3>3, <1>a DEF SearchCmp, Goto
      <4> QED
        BY <1>a, <3>1, <4>1 DEF OwnSlot, Holding, Setting, Searching, Named
    <3> QED
      BY <3>2, <3>3
  <2>2. CASE SearchNext(p)
    <3> DEFINE last == call[p].times + 1 = Cardinality(Slots)
    <3>1. call'[p].ret = call[p].ret /\ call'[p].key = call[p].key
      BY <2>2, <1>a DEF SearchNext, Call
    <3>2. last => call'[p].at = Nil
      BY <2>2, <1>a DEF SearchNext, Call
    <3>3. pc'[p] = IF last THEN call[p].ret ELSE "s_cmp"
      BY <2>2, <1>a DEF SearchNext, Goto
    <3> HIDE DEF last
    <3>4. CASE last
      BY <1>a, <1>b, <3>1, <3>2, <3>3, <3>4 DEF OwnSlot, Holding, Setting, Searching, Named
    <3>5. CASE ~ last
      BY <1>a, <1>b, <3>1, <3>3, <3>5 DEF OwnSlot, Holding, Setting, Searching, Named
    <3> QED
      BY <3>4, <3>5
  <2> QED
    BY <2>1, <2>2
<1> QED
  BY <1>a, <1>1, <1>2, SlotStep, OthersSlots

LEMMA SetUseridSlots ==
    ASSUME SlotInv, NEW p \in Procs, Alive(p), SetUseridSteps(p)
    PROVE  SlotInv'
<1> DEFINE n == call[p].slot
<1>a. /\ call[p] \in Call /\ LocalsOK(pc[p], call[p]) /\ OwnSlot(p) /\ GrantedKept
      /\ pc \in [Procs -> Labels] /\ call \in [Procs -> Call]
      /\ userid \in [Slots -> Ids] /\ granted \subseteq Slots \X New
      /\ Holding(p) => sem = p
      /\ \A q \in Procs \ {p} : pc'[q] = pc[q] /\ call'[q] = call[q]
      /\ Empty \notin New
  BY SlotStep
<1>b. pc[p] \in Setting /\ UNCHANGED <<passwd, granted>>
  BY DEF SetUseridSteps, RemoveWalk, RemoveUnlink, AddName, AddWalk, AddLink, AddEnd, Setting
<1>c. Holding(p) /\ sem = p /\ n \in Slots /\ call[p].done = "r_record"
      /\ call[p].put = call[p].id
  BY <1>a, <1>b DEF Holding, LocalsOK, OwnSlot
<1>1. CASE Exit(p) /\ UNCHANGED userid
  BY <1>1, <1>b, ExitSlots
<1>2. CASE ~ Exit(p) \/ ~ UNCHANGED userid
  <2>1. sem' = sem /\ call'[p].slot = n /\ call'[p].done = call[p].done
        /\ call'[p].put = call[p].put /\ call'[p].id = call[p].id
    <3>1. CASE RemoveWalk(p) \/ AddWalk(p)
      <4>1. /\ sem' = sem
            /\ \/ call' = call
               \/ call' = [call EXCEPT ![p] = [call[p] EXCEPT !.times = 0]]
               \/ call' = [call EXCEPT ![p] = [call[p] EXCEPT
                              !.cell = link[call[p].cell], !.times = call[p].times + 1]]
        BY <1>2, <3>1 DEF RemoveWalk, AddWalk
      <4>2. \/ call'[p] = call[p]
            \/ call'[p] = [call[p] EXCEPT !.times = 0]
            \/ call'[p] = [call[p] EXCEPT !.cell = link[call[p].cell],
                                         !.times = call[p].times + 1]
        BY <1>a, <4>1
      <4> QED
        BY ZenonT(60), <1>a, <4>1, <4>2 DEF Call
    <3>2. CASE RemoveUnlink(p) \/ AddName(p) \/ AddLink(p) \/ AddEnd(p)
      <4>1. /\ sem' = sem
            /\ \/ call' = call
               \/ call' = [call EXCEPT ![p].cell = Hash[call[p].put]]
        BY <3>2 DEF RemoveUnlink, AddName, AddLink, AddEnd
      <4>2. \/ call'[p] = call[p]
            \/ call'[p] = [call[p] EXCEPT !.cell = Hash[call[p].put]]
        BY <1>a, <4>1
      <4> QED
        BY <1>a, <4>1, <4>2 DEF Call
    <3> QED
      BY <3>1, <3>2 DEF SetUseridSteps
  <2>2. \/ /\ pc[p] = "u_name" /\ pc'[p] = "u_addwalk"
           /\ userid' = [userid EXCEPT ![n] = call[p].id]
        \/ /\ UNCHANGED userid
           /\ \/ pc[p] \in {"u_rmwalk", "u_unlink"} /\ pc'[p] \in {"u_rmwalk", "u_unlink", "u_name"}
              \/ pc[p] \in Named /\ pc'[p] \in Named \ {"r_unlock"}
    BY <1>2, <1>a, <1>c DEF SetUseridSteps, RemoveWalk, RemoveUnlink, AddName, AddWalk,
       AddLink, AddEnd, Goto, Named
  <2>3. Leaves(p) /\ (Holding(p)' => sem' = p)
    BY <1>a, <1>c, <2>1 DEF Leaves
  <2>4. CASE UNCHANGED userid
    <3>1. OwnSlot(p)' /\ GrantedKept'
      BY <1>a, <1>b, <1>c, <2>1, <2>2, <2>4 DEF OwnSlot, GrantedKept, Setting, Searching, Named
    <3> QED
      BY <2>3, <3>1, SlotStep, OthersSlots
  <2>5. CASE pc[p] = "u_name" /\ pc'[p] = "u_addwalk"
             /\ userid' = [userid EXCEPT ![n] = call[p].id]
    <3>1. userid[n] = Empty
      BY <1>a, <2>5 DEF OwnSlot
    <3>2. \A g \in granted : g[1] # n
      BY <1>a, <3>1 DEF GrantedKept
    <3>3. userid'[n] = call[p].id /\ \A g \in granted : userid'[g[1]] = userid[g[1]]
      BY <1>a, <1>c, <2>5, <3>2
    <3>4. OwnSlot(p)' /\ GrantedKept'
      BY <1>a, <1>b, <1>c, <2>1, <2>5, <3>2, <3>3
      DEF OwnSlot, GrantedKept, Setting, Searching, Named
    <3> QED
      BY <2>3, <3>4, SlotStep, OthersSlots
  <2> QED
    BY <2>2, <2>4, <2>5
<1> QED
  BY <1>1, <1>2

LEMMA SetupSlots ==
    ASSUME NoKill, SlotInv, NEW p \in Procs, Alive(p), SetupNewUser(p)
    PROVE  SlotInv'
<1>a. /\ call[p] \in Call /\ LocalsOK(pc[p], call[p]) /\ OwnSlot(p) /\ GrantedKept
      /\ pc \in [Procs -> Labels] /\ call \in [Procs -> Call]
      /\ passwd \in [Slots -> Ids] /\ granted \subseteq Slots \X New
      /\ Holding(p) => sem = p
      /\ \A q \in Procs \ {p} : pc'[q] = pc[q] /\ call'[q] = call[q]
      /\ TypeInv
  BY SlotStep
\* p goes on where no slot is in hand.
<1>b. ASSUME pc'[p] \in {"idle", "r_check", "r_spare", "r_clean", "r_lock"},
             UNCHANGED <<userid, passwd, granted, sem>>
      PROVE  SlotInv'
  <2>1. OwnSlot(p)' /\ ~ Holding(p)'
    BY <1>b DEF OwnSlot, Holding, Setting, Searching, Named
  <2>2. Leaves(p) /\ GrantedKept'
    BY <1>a, <1>b DEF Leaves, GrantedKept
  <2> QED
    BY <2>1, <2>2, SlotStep, OthersSlots
<1>c. ASSUME NEW key, NEW ret, Search(p, key, ret), ret = "r_take" => key = Empty /\ sem' = p,
             UNCHANGED <<userid, passwd, granted>>, sem' = sem \/ sem = Nobody
      PROVE  SlotInv'
  <2>1. pc'[p] = "s_cmp" /\ call'[p].key = key /\ call'[p].ret = ret
    BY <1>c, <1>a DEF Search, Goto, Call
  <2>2. OwnSlot(p)' /\ (Holding(p)' => sem' = p)
    BY <1>c, <2>1 DEF OwnSlot, Holding, Setting, Searching, Named
  <2>3. Leaves(p) /\ GrantedKept'
    BY <1>a, <1>c DEF Leaves, GrantedKept
  <2> QED
    BY <2>2, <2>3, SlotStep, OthersSlots
<1>1. CASE CallRegister(p)
  <2>1. /\ pc'[p] = "s_cmp" /\ call'[p].ret = "r_check"
        /\ UNCHANGED <<userid, passwd, granted, sem>>
    <3>1. PICK id \in New :
            call' = [call EXCEPT ![p].id = id, ![p].key = id,
                ![p].ret = "r_check", ![p].at = link[Hash[id]],
                ![p].there = \E n \in Slots : userid[n] = id /\ OnChain(n)]
      BY <1>1 DEF CallRegister
    <3>2. call'[p].ret = "r_check"
      BY <3>1, <1>a DEF Call
    <3> QED
      BY <1>1, <3>2, <1>a DEF CallRegister, Goto
  <2>2. OwnSlot(p)' /\ ~ Holding(p)'
    BY <2>1 DEF OwnSlot, Holding, Setting, Searching, Named
  <2>3. Leaves(p) /\ GrantedKept'
    BY <1>a, <2>1 DEF Leaves, GrantedKept
  <2> QED
    BY <2>2, <2>3, SlotStep, OthersSlots
<1>2. CASE RegisterCheck(p)
  <2>1. CASE Return(p)
    BY <1>2, <2>1, <1>a, <1>b, ReturnIdle DEF RegisterCheck
  <2>2. CASE Search(p, Empty, "r_spare")
    BY <1>2, <2>2, <1>c DEF RegisterCheck
  <2> QED
    BY <1>2, <2>1, <2>2 DEF RegisterCheck
<1>3. CASE RegisterSpare(p)
  BY <1>3, <1>a, <1>b DEF RegisterSpare, Goto
<1>4. CASE RegisterClean(p)
  BY <1>4, <1>a, <1>b DEF RegisterClean, Goto, NoKill
<1>5. CASE RegisterLock(p)
  BY <1>5, <1>c DEF RegisterLock, PasswdLock
<1>6. CASE RegisterTake(p)
  <2>1. CASE Exit(p)
    BY <1>6, <2>1, ExitSlots DEF RegisterTake
  <2>2. CASE call[p].at # Nil /\ SetUserid(p, call[p].at, call[p].id, "r_record") /\ UNCHANGED sem
    <3>1. /\ pc'[p] = "u_rmwalk" /\ call'[p].slot = call[p].at /\ call'[p].id = call[p].id
          /\ call'[p].put = call[p].id /\ call'[p].done = "r_record"
      <4>1. pc'[p] = "u_rmwalk"
        BY <2>2, <1>a DEF SetUserid, Goto
      <4>2. call'[p] = [call[p] EXCEPT !.slot = call[p].at, !.put = call[p].id,
               !.done = "r_record", !.cell = Hash[userid[call[p].at]], !.at = Nil, !.times = 0]
        BY <2>2, <1>a DEF SetUserid
      <4> QED
        BY <4>1, <4>2, <1>a DEF Call
    <3>2. Holding(p) /\ userid[call[p].at] = Empty /\ UNCHANGED <<userid, passwd, granted, sem>>
      BY <1>6, <2>2, <1>a DEF RegisterTake, Holding, OwnSlot
    <3>3. OwnSlot(p)' /\ sem' = p
      BY <3>1, <3>2, <1>a DEF OwnSlot, Setting, Searching, Named
    <3>4. Leaves(p) /\ GrantedKept'
      BY <1>a, <3>2 DEF Leaves, GrantedKept
    <3> QED
      BY <3>3, <3>4, SlotStep, OthersSlots
  <2> QED
    BY <1>6, <2>1, <2>2 DEF RegisterTake
<1>7. CASE RegisterRecord(p)
  <2>1. /\ pc[p] = "r_record" /\ pc'[p] = "r_unlock" /\ UNCHANGED <<userid, granted, sem, call>>
        /\ passwd' = [passwd EXCEPT ![call[p].slot] = call[p].id]
        /\ call[p].slot \in Slots
    BY <1>7, <1>a DEF RegisterRecord, Goto, LocalsOK
  <2>2. Holding(p) /\ userid[call[p].slot] = call[p].id
        /\ \A g \in granted : g[1] # call[p].slot
    BY <1>a, <2>1 DEF Holding, OwnSlot, Named
  <2>3. passwd'[call[p].slot] = call[p].id /\ \A g \in granted : passwd'[g[1]] = passwd[g[1]]
    BY <1>a, <2>1, <2>2
  <2>4. OwnSlot(p)' /\ GrantedKept' /\ Leaves(p)
    BY <1>a, <2>1, <2>2, <2>3 DEF OwnSlot, GrantedKept, Leaves, Setting, Searching, Named
  <2> QED
    BY <1>a, <2>1, <2>2, <2>4, SlotStep, OthersSlots
<1>8. CASE RegisterUnlock(p)
  <2>1. /\ pc[p] = "r_unlock" /\ pc'[p] = "idle" /\ UNCHANGED <<userid, passwd>>
        /\ granted' = granted \cup {<<call[p].slot, call[p].id>>}
    BY <1>8, <1>a, ReturnIdle DEF RegisterUnlock
  <2>2. Holding(p) /\ userid[call[p].slot] = call[p].id /\ passwd[call[p].slot] = call[p].id
    BY <1>a, <2>1 DEF Holding, OwnSlot, Named
  <2>3. GrantedKept' /\ Leaves(p)
    BY <1>a, <2>1, <2>2 DEF GrantedKept, Leaves
  <2> QED
    BY <2>1, <2>3, SlotStep, ReturnSlots, OthersSlots
<1> QED
  BY <1>1, <1>2, <1>3, <1>4, <1>5, <1>6, <1>7, <1>8 DEF SetupNewUser

LEMMA NextSlots == NoKill /\ SlotInv /\ [Next]_vars => SlotInv'
<1> SUFFICES ASSUME NoKill, SlotInv, [Next]_vars PROVE SlotInv'
  OBVIOUS
<1>1. CASE UNCHANGED vars
  <2>1. TypeInv'
    BY <1>1, NextType DEF SlotInv
  <2> QED
    BY <1>1, <2>1 DEF vars, SlotInv, LockHeld, Holding, OwnSlot, GrantedKept
<1>2. ASSUME NEW p \in Procs, Alive(p) PROVE SlotInv'
  <2>1. ~ KillUser(p)
    BY SlotStep, <1>2 DEF KillUser, CallKill, KillRecord, NoKill, OwnSlot
  <2> QED
    BY <1>2, <2>1, SearchSlots, SetUseridSlots, SetupSlots DEF Alive
<1>3. ASSUME NEW p \in Procs, Crash(p) PROVE SlotInv'
  BY <1>3, ExitSlots DEF Crash
<1> QED
  BY <1>1, <1>2, <1>3 DEF Next

LEMMA InitSlots == Init => SlotInv
BY InitType DEF Init, SlotInv, LockHeld, Holding, OwnSlot, GrantedKept, Setting, Searching,
   Named

\* Where nobody kills, any number of processes may register and die: the slot
\* that setupnewuser takes is nobody else's, and neither the name nor the
\* record of an account that was granted changes again (register.c:378-406).
\* So it is kill_user alone, and its missing lock, that breaks this promise in
\* uhash_kill.
THEOREM GrantedKeepsCorrect ==
    ASSUME NoKill
    PROVE  Spec => []GrantedKeepsRecord
<1>1. Spec => []SlotInv
  BY InitSlots, NextSlots, PTL DEF Spec
<1>2. SlotInv => GrantedKeepsRecord
  BY DEF SlotInv, GrantedKept, GrantedKeepsRecord
<1> QED
  BY <1>1, <1>2, PTL

-----------------------------------------------------------------------------
(* Chains                                                                  *)

Links == [Cells -> Slots \cup {Nil}]

Closed(L, S, A) == \A k \in S \ A : L[k] \in S \cup {Nil}

\* The cells that a walk along L meets from cell x on, up to the first of A.
Reach(L, x, A) == {m \in Cells : \A S \in SUBSET Cells :
                       x \in S /\ Closed(L, S, A) => m \in S}

LEMMA ReachLeast ==
    ASSUME NEW L, NEW x, NEW A, NEW S \in SUBSET Cells, x \in S, Closed(L, S, A)
    PROVE  Reach(L, x, A) \subseteq S
BY DEF Reach

LEMMA ReachClosed ==
    ASSUME NEW L \in Links, NEW x \in Cells, NEW A
    PROVE  /\ Reach(L, x, A) \in SUBSET Cells
           /\ x \in Reach(L, x, A)
           /\ Closed(L, Reach(L, x, A), A)
<1>1. Reach(L, x, A) \in SUBSET Cells /\ x \in Reach(L, x, A)
  BY DEF Reach
<1>2. ASSUME NEW k \in Reach(L, x, A) \ A, L[k] # Nil
      PROVE  L[k] \in Reach(L, x, A)
  <2>1. k \in Cells /\ L[k] \in Cells
    BY <1>1, <1>2 DEF Links, Cells
  <2>2. ASSUME NEW S \in SUBSET Cells, x \in S, Closed(L, S, A)
        PROVE  L[k] \in S
    <3>1. k \in S
      BY <2>2, <1>2, ReachLeast
    <3> QED
      BY <3>1, <2>2, <1>2 DEF Closed
  <2> QED
    BY <2>1, <2>2 DEF Reach
<1> QED
  BY <1>1, <1>2 DEF Closed

\* A walk that stops less goes further.
LEMMA ReachFurther ==
    ASSUME NEW L \in Links, NEW x \in Cells, NEW A, NEW B, A \subseteq B
    PROVE  Reach(L, x, B) \subseteq Reach(L, x, A)
<1>1. Closed(L, Reach(L, x, A), B)
  BY ReachClosed DEF Closed
<1> QED
  BY <1>1, ReachClosed, ReachLeast

\* Where a walk begins that has not stopped yet.
LEMMA ReachOn ==
    ASSUME NEW L \in Links, NEW x \in Cells, NEW A, NEW m \in Reach(L, x, A), m # x
    PROVE  x \notin A /\ L[x] \in Cells /\ m \in Reach(L, L[x], A)
<1>1. CASE x \in A
  <2>1. Closed(L, {x}, A)
    BY <1>1 DEF Closed
  <2> QED
    BY <2>1, ReachLeast
<1>2. CASE x \notin A /\ L[x] = Nil
  <2>1. Closed(L, {x}, A)
    BY <1>2 DEF Closed
  <2> QED
    BY <2>1, ReachLeast
<1>3. CASE x \notin A /\ L[x] # Nil
  <2>1. L[x] \in Cells
    BY <1>3 DEF Links, Cells
  <2>2. Closed(L, {x} \cup Reach(L, L[x], A), A)
    BY <2>1, ReachClosed DEF Closed
  <2> QED
    BY <2>1, <2>2, <1>3, ReachClosed, ReachLeast
<1> QED
  BY <1>1, <1>2, <1>3

\* A walk that stops at c stops there first.
LEMMA ReachTo ==
    ASSUME NEW L \in Links, NEW x \in Cells, NEW A, NEW c \in Reach(L, x, A)
    PROVE  c \in Reach(L, x, A \cup {c})
<1> SUFFICES ASSUME c \notin Reach(L, x, A \cup {c}) PROVE FALSE
  OBVIOUS
<1>1. Closed(L, Reach(L, x, A \cup {c}), A)
  BY ReachClosed DEF Closed
<1> QED
  BY <1>1, ReachClosed, ReachLeast

\* A walk stops once.
LEMMA ReachOne ==
    ASSUME NEW L \in Links, NEW x \in Cells, NEW A,
           NEW a \in Reach(L, x, A) \cap A, NEW b \in Reach(L, x, A) \cap A
    PROVE  a = b
<1> DEFINE S == {m \in Reach(L, x, A) : a \in Reach(L, m, A)}
<1>1. S \in SUBSET Cells /\ x \in S
  BY ReachClosed
<1>2. ASSUME NEW k \in S \ A
      PROVE  L[k] \in S \cup {Nil}
  <2>1. k \in Cells /\ a # k /\ a \in Reach(L, k, A) /\ k \in Reach(L, x, A)
    BY <1>1, <1>2
  <2>2. L[k] \in Cells /\ a \in Reach(L, L[k], A)
    BY <2>1, ReachOn
  <2>3. L[k] \in Reach(L, x, A) \cup {Nil}
    BY <2>1, <1>2, ReachClosed DEF Closed
  <2> QED
    BY <2>2, <2>3
<1>3. b \in S
  <2>1. Closed(L, S, A)
    BY <1>2 DEF Closed
  <2> QED
    BY <1>1, <2>1, ReachLeast
<1>4. b \in Cells /\ a \in Reach(L, b, A)
  BY <1>1, <1>3
<1> QED
  BY <1>4, ReachOn

\* A cell other than the first is entered from a cell before it.
LEMMA ReachEntry ==
    ASSUME NEW L \in Links, NEW x \in Cells, NEW A, NEW f \in Reach(L, x, A) \cap A, f # x
    PROVE  \E d \in Reach(L, x, A) \ A : L[d] = f
<1> SUFFICES ASSUME \A d \in Reach(L, x, A) \ A : L[d] # f PROVE FALSE
  OBVIOUS
<1> DEFINE S == Reach(L, x, A) \ {f}
<1>1. S \in SUBSET Cells /\ x \in S /\ Closed(L, S, A)
  BY ReachClosed DEF Closed
<1> QED
  BY <1>1, ReachLeast

\* The cell from which it is entered is one.
LEMMA ReachEntryOne ==
    ASSUME NEW L \in Links, NEW x \in Cells, NEW A, NEW n \in A \cap Slots,
           NEW c \in Reach(L, x, A) \ A, NEW d \in Reach(L, x, A) \ A, L[c] = n, L[d] = n
    PROVE  c = d
<1> SUFFICES ASSUME c # d PROVE FALSE
  OBVIOUS
<1> DEFINE B == A \cup {c}
<1>0. c \in Cells /\ d \in Cells /\ Reach(L, x, B) \in SUBSET Cells /\ x \in Reach(L, x, B)
      /\ Closed(L, Reach(L, x, B), B)
  BY ReachClosed
<1>1. c \in Reach(L, x, B)
  BY ReachTo
<1>2. n \notin Reach(L, x, B)
  BY <1>1, ReachOne
<1>3. Closed(L, Reach(L, x, B) \cup {n}, A) /\ n \in Cells
  BY <1>0 DEF Closed, Cells
<1>4. d \in Reach(L, x, B) \ B
  BY <1>0, <1>3, ReachLeast
<1> HIDE DEF B
<1>5. L[d] \in Reach(L, x, B) \cup {Nil}
  BY <1>0, <1>4 DEF Closed
<1>6. n # Nil
  <2>1. n \in Slots
    OBVIOUS
  <2> QED
    BY <2>1, NilApart
<1> QED
  BY <1>2, <1>5, <1>6

\* A walk meets the same cells in two tables that agree on them.
LEMMA ReachSame ==
    ASSUME NEW L \in Links, NEW M \in Links, NEW x \in Cells, NEW A,
           \A k \in Reach(L, x, A) \ A : M[k] = L[k]
    PROVE  Reach(M, x, A) = Reach(L, x, A)
<1>1. Closed(M, Reach(L, x, A), A)
  BY ReachClosed DEF Closed
<1>2. Reach(M, x, A) \subseteq Reach(L, x, A)
  BY <1>1, ReachClosed, ReachLeast
<1>3. Closed(L, Reach(M, x, A), A)
  BY <1>2, ReachClosed DEF Closed
<1> QED
  BY <1>2, <1>3, ReachClosed, ReachLeast

\* Links that take the place of Nil only lengthen a walk.
LEMMA ReachLonger ==
    ASSUME NEW L \in Links, NEW M \in Links, NEW x \in Cells, NEW A,
           \A k \in Cells : L[k] \in {M[k], Nil}
    PROVE  Reach(L, x, A) \subseteq Reach(M, x, A)
<1>1. Closed(L, Reach(M, x, A), A)
  BY ReachClosed DEF Closed
<1> QED
  BY <1>1, ReachClosed, ReachLeast

\* A walk that does not meet f goes on where it would stop at f.
LEMMA ReachPast ==
    ASSUME NEW L \in Links, NEW x \in Cells, NEW A, NEW f, f \notin Reach(L, x, A \cup {f})
    PROVE  Reach(L, x, A) \subseteq Reach(L, x, A \cup {f})
<1>1. Closed(L, Reach(L, x, A \cup {f}), A)
  BY ReachClosed DEF Closed
<1> QED
  BY <1>1, ReachClosed, ReachLeast
-----------------------------------------------------------------------------
\* Induction over the natural numbers, for sets.
LEMMA LeastNatural ==
    ASSUME NEW T, T \subseteq Nat, T # {}
    PROVE  \E n \in T : \A m \in T : n <= m
<1>1. PICK n \in T : \A m \in T : ~ (<<m, n>> \in OpToRel(<, Nat))
  BY NatLessThanWellFounded, WFMin
<1>2. \A m \in T : ~ (m < n)
  BY <1>1 DEF OpToRel
<1> QED
  BY <1>2

LEMMA SetInduction ==
    ASSUME NEW T, 0 \in T, \A n \in Nat : n \in T => n + 1 \in T
    PROVE  Nat \subseteq T
<1> SUFFICES ASSUME Nat \ T # {} PROVE FALSE
  OBVIOUS
<1>1. PICK n \in Nat \ T : \A m \in Nat \ T : n <= m
  <2> DEFINE U == Nat \ T
  <2>1. U \subseteq Nat /\ U # {}
    OBVIOUS
  <2>2. \E k \in U : \A m \in U : k <= m
    BY <2>1, LeastNatural
  <2> QED
    BY <2>2
<1>2. n # 0 /\ n - 1 \in Nat
  BY <1>1
<1>3. n - 1 \in T
  BY <1>1, <1>2
<1> QED
  BY <1>1, <1>2, <1>3

\* The cells of the first n steps from c.
Steps(w, c, n) ==
    /\ w \in [0..n -> Slots \cup {Nil}]
    /\ \A k \in 0..n : w[k] = IF k = 0 THEN link[c]
                             ELSE IF w[k - 1] = Nil THEN Nil ELSE link[w[k - 1]]

LEMMA StepsExist ==
    ASSUME link \in Links, NEW c \in Cells, NEW n \in Nat
    PROVE  \E w : Steps(w, c, n)
<1> DEFINE T == {k \in Nat : \E w : Steps(w, c, k)}
<1>1. 0 \in T
  <2>1. Steps([k \in 0..0 |-> link[c]], c, 0)
    BY DEF Steps, Links
  <2> QED
    BY <2>1
<1>2. ASSUME NEW k \in Nat, k \in T PROVE k + 1 \in T
  <2>1. PICK w : Steps(w, c, k)
    BY <1>2
  <2> DEFINE last == IF w[k] = Nil THEN Nil ELSE link[w[k]]
             v == [j \in 0..(k + 1) |-> IF j = k + 1 THEN last ELSE w[j]]
  <2>2. last \in Slots \cup {Nil}
    BY <2>1 DEF Steps, Links, Cells
  <2>3. v \in [0..(k + 1) -> Slots \cup {Nil}]
    BY <2>1, <2>2 DEF Steps
  <2>4. ASSUME NEW j \in 0..(k + 1)
        PROVE  v[j] = IF j = 0 THEN link[c]
                      ELSE IF v[j - 1] = Nil THEN Nil ELSE link[v[j - 1]]
    <3>1. CASE j = k + 1
      BY <3>1, <2>1 DEF Steps
    <3>2. CASE j \in 0..k
      BY <3>2, <2>1 DEF Steps
    <3> QED
      BY <3>1, <3>2
  <2>5. Steps(v, c, k + 1)
    BY <2>3, <2>4 DEF Steps
  <2> QED
    BY <2>5
<1>3. Nat \subseteq T
  <2> HIDE DEF T
  <2> QED
    BY <1>1, <1>2, SetInduction
<1> QED
  BY <1>3

LEMMA WalkSteps ==
    ASSUME link \in Links, NEW c \in Cells
    PROVE  \E w : /\ Steps(w, c, Cardinality(Slots))
                  /\ Walk(c) = {w[k] : k \in 0..Cardinality(Slots)} \ {Nil}
<1> DEFINE N == Cardinality(Slots)
           w == CHOOSE w : w = [k \in 0..N |-> IF k = 0 THEN link[c]
                       ELSE IF w[k - 1] = Nil THEN Nil ELSE link[w[k - 1]]]
<1>0. N \in Nat
  BY TableAssumption, FS_CardinalityType
<1>1. PICK v : Steps(v, c, N)
  BY <1>0, StepsExist
<1>2. v = [k \in 0..N |-> IF k = 0 THEN link[c]
                       ELSE IF v[k - 1] = Nil THEN Nil ELSE link[v[k - 1]]]
  <2> HIDE DEF N
  <2>1. v \in [0..N -> Slots \cup {Nil}]
    BY <1>1 DEF Steps
  <2>2. \A k \in 0..N : v[k] = IF k = 0 THEN link[c]
                              ELSE IF v[k - 1] = Nil THEN Nil ELSE link[v[k - 1]]
    BY <1>1 DEF Steps
  <2> QED
    BY ZenonT(60), <2>1, <2>2
<1>3. w = [k \in 0..N |-> IF k = 0 THEN link[c]
                       ELSE IF w[k - 1] = Nil THEN Nil ELSE link[w[k - 1]]]
  BY <1>2
<1>4. Walk(c) = {w[k] : k \in 0..N} \ {Nil}
  BY DEF Walk
<1> HIDE DEF w
<1>5. \A k \in 0..N : w[k] = IF k = 0 THEN link[c]
                          ELSE IF w[k - 1] = Nil THEN Nil ELSE link[w[k - 1]]
  BY <1>3
<1> DEFINE T == {k \in Nat : k \in 0..N => w[k] \in Slots \cup {Nil}}
<1>6. 0 \in T /\ \A k \in Nat : k \in T => k + 1 \in T
  <2>1. \A k \in Slots \cup Buckets : link[k] \in Slots \cup {Nil}
    BY DEF Links, Cells
  <2>2. 0 \in T
    BY <1>5, <2>1 DEF Cells
  <2>3. ASSUME NEW k \in Nat, k \in T, k + 1 \in 0..N PROVE w[k + 1] \in Slots \cup {Nil}
    <3>1. k \in 0..N /\ k + 1 # 0 /\ (k + 1) - 1 = k
      BY <1>0, <2>3
    <3>2. w[k + 1] = IF w[k] = Nil THEN Nil ELSE link[w[k]]
      BY <1>5, <2>3, <3>1
    <3>3. w[k] \in Slots \cup {Nil}
      BY <2>3, <3>1
    <3> QED
      BY <3>2, <3>3, <2>1
  <2> QED
    BY <2>2, <2>3
<1>7. Nat \subseteq T
  <2> HIDE DEF T
  <2> QED
    BY <1>6, SetInduction
<1>8. Steps(w, c, N)
  <2>1. \A k \in 0..N : w[k] \in Slots \cup {Nil}
    BY <1>7, <1>0
  <2>2. w \in [0..N -> Slots \cup {Nil}]
    BY <1>3, <2>1
  <2> QED
    BY <1>5, <2>2 DEF Steps
<1> QED
  BY <1>4, <1>8

\* What a walk meets from c on, OnChain finds: after as many links as there are
\* slots it has come to the end of the chain or met a slot twice.
LEMMA ReachWalk ==
    ASSUME link \in Links, NEW c \in Cells
    PROVE  Reach(link, c, {}) \subseteq Walk(c) \cup {c}
<1> DEFINE N == Cardinality(Slots)
<1>0. N \in Nat /\ Nil \notin Cells
  BY TableAssumption, FS_CardinalityType
<1>1. PICK w : /\ Steps(w, c, N)
               /\ Walk(c) = {w[k] : k \in 0..N} \ {Nil}
  BY WalkSteps
<1>2. /\ \A k \in 0..N : w[k] \in Slots \cup {Nil}
      /\ w[0] = link[c]
      /\ \A k \in 0..N : k + 1 \in 0..N /\ w[k] # Nil => w[k + 1] = link[w[k]]
  <2>1. ASSUME NEW k \in 0..N, k + 1 \in 0..N, w[k] # Nil PROVE w[k + 1] = link[w[k]]
    <3>1. k + 1 # 0 /\ (k + 1) - 1 = k
      BY <1>0
    <3> QED
      BY <1>1, <2>1, <3>1 DEF Steps
  <2> QED
    BY <1>0, <1>1, <2>1 DEF Steps
\* The first m links and a last one that is Nil or goes back to them.
<1>3. ASSUME NEW m \in 0..N,
             \/ w[m] = Nil
             \/ \E i \in 0..N : i < m /\ w[i] = w[m]
      PROVE  Reach(link, c, {}) \subseteq Walk(c) \cup {c}
  <2> DEFINE S == ({w[i] : i \in 0..m} \ {Nil}) \cup {c}
  <2>1. 0..m \subseteq 0..N
    BY <1>0
  <2>2. S \in SUBSET Cells /\ S \subseteq Walk(c) \cup {c}
    BY <2>1, <1>1, <1>2 DEF Cells
  <2>3. ASSUME NEW i \in 0..m, w[i] # Nil PROVE link[w[i]] \in S \cup {Nil}
    <3>1. CASE i < m
      <4>1. i \in 0..N /\ i + 1 \in 0..N /\ i + 1 \in 0..m
        BY <3>1, <1>0
      <4> QED
        BY <1>2, <2>3, <4>1
    <3>2. CASE i = m
      <4>1. PICK j \in 0..N : j < m /\ w[j] = w[m]
        BY <1>3, <2>3, <3>2
      <4>2. j + 1 \in 0..N /\ j + 1 \in 0..m
        BY <4>1, <1>0
      <4> QED
        BY <1>2, <2>3, <3>2, <4>1, <4>2
    <3> QED
      BY <3>1, <3>2, <1>0
  <2>4. link[c] \in S \cup {Nil}
    <3>1. 0 \in 0..m
      BY <1>0
    <3> QED
      BY <1>2, <3>1
  <2>5. Closed(link, S, {})
    BY <2>3, <2>4 DEF Closed
  <2> HIDE DEF S
  <2>6. c \in S
    BY DEF S
  <2> QED
    BY <2>2, <2>5, <2>6, ReachLeast
<1>4. CASE \E m \in 0..N : w[m] = Nil
  BY <1>3, <1>4
<1>5. CASE \A m \in 0..N : w[m] # Nil
  <2>1. w \in [0..N -> Slots]
    BY <1>1, <1>2, <1>5 DEF Steps
  <2>2. IsFiniteSet(0..N) /\ IsFiniteSet(Slots) /\ Cardinality(Slots) < Cardinality(0..N)
    BY <1>0, FS_Interval, TableAssumption
  <2>3. PICK i \in 0..N, j \in 0..N : i # j /\ w[i] = w[j]
    BY <2>1, <2>2, FS_PigeonHole
  <2>4. CASE i < j
    BY <1>3, <2>3, <2>4
  <2>5. CASE j < i
    BY <1>3, <2>3, <2>5
  <2> QED
    BY <2>3, <2>4, <2>5, <1>0
<1> QED
  BY <1>4, <1>5

\* And the walk meets nothing else.
LEMMA WalkReach ==
    ASSUME link \in Links, NEW c \in Cells
    PROVE  Walk(c) \subseteq Reach(link, c, {})
<1> DEFINE N == Cardinality(Slots)
           R == Reach(link, c, {})
<1>0. N \in Nat /\ R \in SUBSET Cells /\ c \in R /\ \A k \in R : link[k] \in R \cup {Nil}
  <2>1. R \in SUBSET Cells /\ c \in R /\ Closed(link, R, {})
    BY ReachClosed
  <2> QED
    BY <2>1, SlotsCounted DEF Closed
<1> HIDE DEF R
<1>1. PICK w : /\ Steps(w, c, N)
               /\ Walk(c) = {w[k] : k \in 0..N} \ {Nil}
  BY WalkSteps
<1>2. \A k \in 0..N : w[k] = IF k = 0 THEN link[c]
                             ELSE IF w[k - 1] = Nil THEN Nil ELSE link[w[k - 1]]
  BY <1>1 DEF Steps
<1> DEFINE T == {k \in Nat : k \in 0..N => w[k] \in R \cup {Nil}}
<1>3. 0 \in T
  BY <1>0, <1>2
<1>4. ASSUME NEW k \in Nat, k \in T PROVE k + 1 \in T
  <2> SUFFICES ASSUME k + 1 \in 0..N PROVE w[k + 1] \in R \cup {Nil}
    OBVIOUS
  <2>1. k \in 0..N /\ k + 1 # 0 /\ (k + 1) - 1 = k
    BY <1>0
  <2>2. w[k + 1] = IF w[k] = Nil THEN Nil ELSE link[w[k]]
    BY <1>2, <2>1
  <2>3. w[k] \in R \cup {Nil}
    BY <1>4, <2>1
  <2> QED
    BY <1>0, <2>2, <2>3
<1>5. Nat \subseteq T
  <2> HIDE DEF T
  <2> QED
    BY <1>3, <1>4, SetInduction
<1>6. \A k \in 0..N : w[k] \in R \cup {Nil}
  BY <1>0, <1>5
<1> QED
  BY <1>1, <1>6 DEF R

-----------------------------------------------------------------------------
(* The table between the steps of a registration                           *)

Free(u) == {m \in Slots : u[m] = Empty}

\* The cells of the chain of free slots before the first of them.
Before(L, u) == Reach(L, Hash[Empty], Free(u)) \ Free(u)

Chained(L) == UNION {Reach(L, b, {}) : b \in Buckets}

\* At most one of the cells S has its link to a given free slot.
OneWay(L, u, S) ==
    \A d, e \in S : L[d] = L[e] /\ L[d] \in Free(u) => d = e

NoSelf(L, u) == \A m \in Free(u) : L[m] # m

\* Account g is on its chain, and does not need the link of f, the next free
\* slot to be taken, for it: it stands before f, or its chain comes to f by
\* the link that is turned when f is taken.
Safe(L, u, g) ==
    /\ g[1] \in Reach(L, Hash[g[2]], {})
    /\ \A f \in Free(u) \cap Reach(L, Hash[Empty], Free(u)) :
          \/ g[1] \in Reach(L, Hash[g[2]], {f})
          \/ \E e \in Before(L, u) \cap Reach(L, Hash[g[2]], {f}) : L[e] = f

\* The table when no slot is in hand.  Chains of accounts may run on into that
\* of the free slots, where processes have died; the free slots that follow
\* have but one way in.
Table(L, u, G) ==
    /\ OneWay(L, u, Chained(L) \ Before(L, u))
    /\ NoSelf(L, u)
    /\ \A g \in G : Safe(L, u, g)

\* The table when slot n is unlinked and not yet linked again: where its link
\* leads another one leads too, and no account needs the link.
InHand(L, u, G, n) ==
    /\ \/ L[n] \in {Nil, n}
       \/ \E c \in Before(L, u) : c # n /\ L[c] = L[n]
    /\ OneWay(L, u, Chained(L) \ {n})
    /\ NoSelf(L, u)
    /\ \A g \in G : g[1] \in Reach(L, Hash[g[2]], {n})

LEMMA IdBuckets == \A id \in Ids : Hash[id] \in Buckets /\ Hash[id] \in Cells /\ Hash[id] \notin Slots
BY TableAssumption DEF Cells

LEMMA ChainedCells ==
    ASSUME NEW L \in Links
    PROVE  /\ Chained(L) \in SUBSET Cells /\ Closed(L, Chained(L), {})
           /\ \A id \in Ids : \A A : Reach(L, Hash[id], A) \subseteq Chained(L)
<1>1. \A b \in Buckets : b \in Cells
  BY DEF Cells
<1>2. \A b \in Buckets : Reach(L, b, {}) \in SUBSET Cells /\ Closed(L, Reach(L, b, {}), {})
  BY <1>1, ReachClosed
<1>3. Chained(L) \in SUBSET Cells /\ Closed(L, Chained(L), {})
  BY <1>2 DEF Chained, Closed
<1>4. ASSUME NEW id \in Ids, NEW A
      PROVE  Reach(L, Hash[id], A) \subseteq Chained(L)
  <2>1. Reach(L, Hash[id], A) \subseteq Reach(L, Hash[id], {})
    BY IdBuckets, ReachFurther
  <2> QED
    BY <1>4, <2>1, IdBuckets DEF Chained
<1> QED
  BY <1>3, <1>4

LEMMA BeforeChained ==
    ASSUME NEW L \in Links, NEW u
    PROVE  /\ Before(L, u) \subseteq Chained(L) /\ Before(L, u) \in SUBSET Cells
           /\ Reach(L, Hash[Empty], Free(u)) \in SUBSET Cells
           /\ Hash[Empty] \in Cells /\ Hash[Empty] \notin Free(u)
           /\ Free(u) \subseteq Slots /\ Free(u) \subseteq Cells /\ Nil \notin Free(u)
BY ChainedCells, IdBuckets, TableAssumption DEF Before, Ids, Free, Cells

\* A registrant who dies with a slot in hand leaves such a table.
LEMMA HandTable ==
    ASSUME NEW L \in Links, NEW u, NEW G \in SUBSET (Slots \X New), NEW n \in Slots,
           InHand(L, u, G, n)
    PROVE  Table(L, u, G)
<1> DEFINE D == Before(L, u)
           R == Chained(L)
<1>0. D \subseteq R /\ R \in SUBSET Cells /\ Nil \notin Free(u) /\ Free(u) \subseteq Cells
  BY BeforeChained, ChainedCells
\* n is the other way in from D at most.
<1>1. ASSUME NEW f \in Free(u), L[n] = f
      PROVE  \E c \in D : c # n /\ L[c] = f
  BY <1>0, <1>1 DEF InHand, NoSelf
<1>2. OneWay(L, u, R \ D)
  <2>1. ASSUME NEW d \in R \ D, NEW e \in R \ D, L[d] = L[e], L[d] \in Free(u), d # e
        PROVE  FALSE
    <3>1. CASE d = n
      BY <3>1, <2>1, <1>0, <1>1 DEF InHand, OneWay
    <3>2. CASE e = n
      BY <3>2, <2>1, <1>0, <1>1 DEF InHand, OneWay
    <3>3. CASE d # n /\ e # n
      BY <3>3, <2>1 DEF InHand, OneWay
    <3> QED
      BY <3>1, <3>2, <3>3
  <2> QED
    BY <2>1 DEF OneWay
<1>3. ASSUME NEW g \in G
      PROVE  Safe(L, u, g)
  <2> DEFINE b == Hash[g[2]]
  <2>0. g[2] \in Ids /\ b \in Cells /\ b \notin Slots
    BY IdBuckets DEF Ids
  <2>1. g[1] \in Reach(L, b, {n})
    BY DEF InHand
  <2>2. g[1] \in Reach(L, b, {})
    BY <2>0, <2>1, ReachFurther
  <2>3. ASSUME NEW f \in Free(u) \cap Reach(L, Hash[Empty], Free(u)),
               g[1] \notin Reach(L, b, {f})
        PROVE  \E e \in D \cap Reach(L, b, {f}) : L[e] = f
    <3>1. f \in Slots /\ f # b /\ f # Hash[Empty] /\ f # n
      BY <2>0, <2>1, <2>3, BeforeChained
    <3>2. f \in Reach(L, b, {n, f})
      <4>1. {n, f} = {n} \cup {f}
        OBVIOUS
      <4> SUFFICES ASSUME f \notin Reach(L, b, {n} \cup {f}) PROVE FALSE
        BY <4>1
      <4>2. Reach(L, b, {n}) \subseteq Reach(L, b, {n} \cup {f})
        BY <2>0, ReachPast
      <4>3. Reach(L, b, {n} \cup {f}) \subseteq Reach(L, b, {f})
        BY <2>0, ReachFurther
      <4> QED
        BY <2>1, <2>3, <4>2, <4>3
    <3>3. PICK d \in Reach(L, b, {n, f}) \ {n, f} : L[d] = f
      BY <3>1, <3>2, <2>0, ReachEntry
    <3>4. PICK c \in D : L[c] = f
      BY <3>1, BeforeChained, ReachEntry DEF Before
    <3>5. PICK e \in D : L[e] = f /\ e # n
      BY <3>4, <1>1
    <3>6. d \in R /\ d \in Reach(L, b, {f})
      <4>1. Reach(L, b, {n, f}) \subseteq Reach(L, b, {f})
        BY <2>0, ReachFurther
      <4> QED
        BY <4>1, <2>0, ChainedCells
    <3>7. d = e
      BY <3>3, <3>5, <3>6, <1>0 DEF InHand, OneWay
    <3> QED
      BY <3>5, <3>6, <3>7
  <2> QED
    BY <2>2, <2>3 DEF Safe
<1> QED
  BY <1>2, <1>3 DEF Table, InHand

\* A slot is unlinked.
LEMMA UnlinkHand ==
    ASSUME NEW L \in Links, NEW u, NEW G \in SUBSET (Slots \X New), Table(L, u, G),
           \A g \in G : u[g[1]] # Empty,
           NEW n \in Free(u), NEW c \in Before(L, u), L[c] = n,
           NEW M \in Links, M[c] = L[n], \A k \in Cells \ {c} : M[k] = L[k]
    PROVE  InHand(M, u, G, n)
<1>0. /\ n \in Slots /\ n \in Cells /\ c \in Cells /\ c \notin Free(u) /\ c # n
      /\ Hash[Empty] \in Cells /\ Before(L, u) \subseteq Chained(L)
      /\ Nil \notin Free(u) /\ Free(u) \subseteq Cells
      /\ c \in Reach(L, Hash[Empty], Free(u)) \ Free(u)
  BY BeforeChained DEF Before
\* n is the first free slot, and c the one way to it.
<1>2. n \in Reach(L, Hash[Empty], Free(u))
  BY <1>0, ReachClosed, TableAssumption DEF Closed
<1>3. \A e \in Before(L, u) : L[e] \in Free(u) => e = c
  <2>1. ASSUME NEW e \in Before(L, u), L[e] \in Free(u) PROVE e = c
    <3>1. e \in Reach(L, Hash[Empty], Free(u)) \ Free(u)
      BY <2>1 DEF Before
    <3>2. L[e] \in Reach(L, Hash[Empty], Free(u))
      BY <2>1, <3>1, <1>0, ReachClosed DEF Closed
    <3>3. L[e] = n
      BY <2>1, <3>2, <1>0, <1>2, ReachOne
    <3> QED
      BY <3>1, <3>3, <1>0, ReachEntryOne
  <2> QED
    BY <2>1
\* A walk that came to c does so still.
<1>4. ASSUME NEW x \in Cells, NEW A, c \in Reach(L, x, A)
      PROVE  c \in Reach(M, x, A)
  <2>1. c \in Reach(L, x, A \cup {c})
    BY <1>4, ReachTo
  <2>2. \A k \in Reach(L, x, A \cup {c}) \ (A \cup {c}) : M[k] = L[k]
    BY ReachClosed
  <2>3. Reach(M, x, A \cup {c}) = Reach(L, x, A \cup {c})
    BY <2>2, ReachSame
  <2> QED
    BY <2>1, <2>3, ReachFurther
<1>5. c \in Before(M, u)
  BY <1>0, <1>4 DEF Before
<1>6. Chained(M) \subseteq Chained(L)
  <2>1. ASSUME NEW b \in Buckets PROVE Reach(M, b, {}) \subseteq Reach(L, b, {})
    <3>1. b \in Cells
      BY DEF Cells
    <3>2. Closed(M, Reach(L, b, {}), {})
      BY <3>1, <1>0, ReachClosed, TableAssumption DEF Closed
    <3> QED
      BY <3>1, <3>2, ReachClosed, ReachLeast
  <2> QED
    BY <2>1 DEF Chained
<1>7. OneWay(M, u, Chained(M) \ {n})
  <2>0. \A k \in Chained(M) : k \in Chained(L) /\ k \in Cells
    BY <1>6, ChainedCells
  <2>1. ASSUME NEW e \in Chained(M) \ {n}, M[c] = M[e], M[c] \in Free(u), e # c
        PROVE  FALSE
    <3>1. L[n] = L[e] /\ e \notin Before(L, u) /\ n # e
      BY <2>0, <2>1, <1>3
    <3>2. n \in Chained(L) \ Before(L, u)
      BY <1>2, ChainedCells DEF Before, Ids
    <3> QED
      BY <2>0, <2>1, <3>1, <3>2 DEF Table, OneWay
  <2>2. ASSUME NEW d \in Chained(M) \ {n}, NEW e \in Chained(M) \ {n},
               M[d] = M[e], M[d] \in Free(u)
        PROVE  d = e
    <3>1. CASE d = c \/ e = c
      BY <2>1, <2>2, <3>1
    <3>2. CASE d # c /\ e # c
      <4>1. L[d] = L[e] /\ L[d] \in Free(u)
        BY <2>0, <2>2, <3>2
      <4>2. d \notin Before(L, u) /\ e \notin Before(L, u)
        BY <3>2, <4>1, <1>3
      <4> QED
        BY <2>0, <2>2, <4>1, <4>2 DEF Table, OneWay
    <3> QED
      BY <3>1, <3>2
  <2> QED
    BY <2>2 DEF OneWay
<1>8. NoSelf(M, u)
  BY <1>0 DEF NoSelf, Table
<1>9. ASSUME NEW g \in G
      PROVE  g[1] \in Reach(M, Hash[g[2]], {n})
  <2> DEFINE b == Hash[g[2]]
             X == Reach(M, b, {n})
  <2>0. b \in Cells /\ g[1] # n /\ Safe(L, u, g)
    BY IdBuckets DEF Ids, Free, Table
  <2>1. CASE c \in Reach(L, b, {n})
    <3>1. c \in X /\ X \in SUBSET Cells /\ b \in X /\ Closed(M, X, {n})
      BY <2>0, <2>1, <1>4, ReachClosed
    <3>2. L[n] \in X \cup {Nil}
      BY <3>1, <1>0 DEF Closed
    <3>3. Closed(L, X \cup {n}, {})
      BY <3>1, <3>2, <1>0 DEF Closed
    <3>4. Reach(L, b, {}) \subseteq X \cup {n}
      <4>1. X \cup {n} \in SUBSET Cells /\ b \in X \cup {n}
        BY <3>1, <1>0
      <4> HIDE DEF X
      <4> QED
        BY <3>3, <4>1, ReachLeast
    <3> QED
      BY <2>0, <3>4 DEF Safe
  <2>2. CASE c \notin Reach(L, b, {n})
    <3>0. \A k \in Reach(L, b, {n}) \ {n} : M[k] = L[k]
      BY <2>0, <2>2, ReachClosed
    <3>1. Reach(M, b, {n}) = Reach(L, b, {n})
      <4> DEFINE A == {n}
      <4>1. b \in Cells /\ \A k \in Reach(L, b, A) \ A : M[k] = L[k]
        BY <2>0, <3>0
      <4> HIDE DEF b, X, A
      <4>2. Reach(M, b, A) = Reach(L, b, A)
        BY <4>1, ReachSame
      <4> QED
        BY <4>2 DEF A
    <3>2. \A e \in Before(L, u) : L[e] = n => e = c
      BY <1>3
    <3>3. g[1] \in Reach(L, b, {n})
      BY <2>0, <2>2, <3>2, <1>2 DEF Safe
    <3> QED
      BY <3>1, <3>3
  <2> QED
    BY <2>1, <2>2
<1> QED
  BY <1>0, <1>5, <1>7, <1>8, <1>9 DEF InHand

\* It is named.
LEMMA NameHand ==
    ASSUME NEW L \in Links, NEW u \in [Slots -> Ids], NEW G, NEW n \in Slots,
           InHand(L, u, G, n), NEW id \in New, NEW v, v = [u EXCEPT ![n] = id]
    PROVE  InHand(L, v, G, n)
<1>1. Free(v) \subseteq Free(u) /\ Hash[Empty] \in Cells
  BY TableAssumption, IdBuckets DEF Free, Ids
<1>2. Before(L, u) \subseteq Before(L, v)
  BY <1>1, ReachFurther DEF Before
<1> QED
  BY <1>1, <1>2 DEF InHand, OneWay, NoSelf

\* It is linked to the end e of the chain of its name.
LEMMA LinkHand ==
    ASSUME NEW L \in Links, NEW u, NEW G \in SUBSET (Slots \X New), NEW n \in Slots,
           InHand(L, u, G, n), u[n] # Empty, NEW id \in Ids,
           NEW e \in Reach(L, Hash[id], {}), L[e] = Nil,
           NEW M \in Links, M[e] = n, \A k \in Cells \ {e} : M[k] = L[k]
    PROVE  InHand(M, u, G, n) /\ n \in Reach(M, Hash[id], {})
<1>0. /\ e \in Cells /\ n \in Cells /\ n \notin Free(u) /\ Hash[id] \in Cells /\ Hash[Empty] \in Cells
      /\ Before(L, u) \subseteq Chained(L) /\ Nil \notin Cells
  BY IdBuckets, ReachClosed, BeforeChained, TableAssumption DEF Free, Cells
<1>2. ASSUME NEW x \in Cells, NEW A PROVE Reach(L, x, A) \subseteq Reach(M, x, A)
  BY ReachLonger
<1>3. n \in Reach(M, Hash[id], {})
  <2>1. e \in Reach(M, Hash[id], {}) /\ Closed(M, Reach(M, Hash[id], {}), {})
    BY <1>0, <1>2, ReachClosed
  <2> QED
    BY <2>1, <1>0 DEF Closed
<1>4. \/ M[n] \in {Nil, n}
      \/ \E c \in Before(M, u) : c # n /\ M[c] = M[n]
  <2>1. Before(L, u) \subseteq Before(M, u)
    BY <1>0, <1>2 DEF Before
  <2>2. CASE n = e \/ L[n] \in {Nil, n}
    BY <2>2, <1>0
  <2>3. CASE n # e /\ L[n] # Nil
    BY <2>1, <2>3, <1>0, ChainedCells DEF InHand
  <2> QED
    BY <2>2, <2>3
<1>5. Chained(M) \subseteq Chained(L) \cup {n}
  <2>0. Chained(L) \in SUBSET Cells /\ Closed(L, Chained(L), {})
    BY ChainedCells
  <2>1. L[n] \in Chained(L) \cup {n, Nil}
    BY <2>0, <1>0 DEF InHand, Closed
  <2>2. ASSUME NEW k \in Chained(L) \cup {n} PROVE M[k] \in Chained(L) \cup {n, Nil}
    <3>1. L[k] \in Chained(L) \cup {n, Nil} /\ k \in Cells
      BY <2>0, <2>1, <1>0 DEF Closed
    <3> QED
      BY <3>1
  <2>3. \A b \in Buckets : b \in Cells /\ b \in Chained(L)
    BY ReachClosed DEF Cells, Chained
  <2>4. Closed(M, Chained(L) \cup {n}, {})
    BY <2>2 DEF Closed
  <2>5. \A b \in Buckets : Reach(M, b, {}) \subseteq Chained(L) \cup {n}
    BY <2>0, <2>4, <2>3, <1>0, ReachLeast
  <2> QED
    BY <2>5 DEF Chained
<1>6. OneWay(M, u, Chained(M) \ {n})
  BY <1>0, <1>5, ChainedCells DEF InHand, OneWay
<1>7. NoSelf(M, u)
  BY <1>0, BeforeChained DEF InHand, NoSelf
<1>8. \A g \in G : g[1] \in Reach(M, Hash[g[2]], {n})
  BY <1>2, IdBuckets DEF InHand, Ids
<1> QED
  BY <1>3, <1>4, <1>6, <1>7, <1>8 DEF InHand

\* It becomes the end of the chain.
LEMMA EndTable ==
    ASSUME NEW L \in Links, NEW u, NEW G \in SUBSET (Slots \X New), NEW n \in Slots,
           InHand(L, u, G, n), NEW id \in New, n \in Reach(L, Hash[id], {}),
           NEW M \in Links, M[n] = Nil, \A k \in Cells \ {n} : M[k] = L[k]
    PROVE  Table(M, u, G \cup {<<n, id>>})
<1>0. n \in Cells /\ Nil \notin Cells /\ \A i \in Ids : Hash[i] \in Cells
  BY IdBuckets, TableAssumption DEF Cells
<1>2. Chained(M) \subseteq Chained(L)
  <2>1. ASSUME NEW b \in Buckets PROVE Reach(M, b, {}) \subseteq Reach(L, b, {})
    BY ReachClosed, ReachLonger DEF Cells
  <2> QED
    BY <2>1 DEF Chained
<1>3. OneWay(M, u, Chained(M))
  <2>0. \A k \in Chained(M) : k \in Chained(L) /\ k \in Cells
    BY <1>2, ChainedCells
  <2>1. ASSUME NEW d \in Chained(M), NEW e \in Chained(M), M[d] = M[e], M[d] \in Free(u)
        PROVE  d = e
    <3>1. d # n /\ e # n
      BY <2>1, BeforeChained
    <3>2. L[d] = L[e] /\ L[d] \in Free(u)
      BY <2>0, <2>1, <3>1
    <3> QED
      BY <2>0, <3>1, <3>2 DEF InHand, OneWay
  <2> QED
    BY <2>1 DEF OneWay
<1>4. NoSelf(M, u)
  BY <1>0, BeforeChained DEF InHand, NoSelf
<1>5. ASSUME NEW g \in G \cup {<<n, id>>}
      PROVE  Safe(M, u, g)
  <2> DEFINE b == Hash[g[2]]
  <2>0. g[1] \in Slots /\ g[2] \in New /\ g[2] \in Ids /\ b \in Cells /\ b \notin Slots
    BY IdBuckets DEF Ids
  <2>1. g[1] \in Reach(L, b, {n})
    <3>1. CASE g \in G
      BY <3>1 DEF InHand
    <3>2. CASE g = <<n, id>>
      <4>1. n \in Reach(L, b, {} \cup {n})
        BY <3>2, <2>0, ReachTo
      <4>2. {} \cup {n} = {n}
        OBVIOUS
      <4> QED
        BY <3>2, <4>1, <4>2
    <3> QED
      BY <3>1, <3>2
  <2>2. Reach(M, b, {n}) = Reach(L, b, {n})
    <3>1. \A k \in Reach(L, b, {n}) \ {n} : M[k] = L[k]
      BY <2>0, ReachClosed
    <3> QED
      BY <2>0, <3>1, ReachSame
  <2>3. g[1] \in Reach(M, b, {})
    BY <2>0, <2>1, <2>2, ReachFurther
  <2>4. ASSUME NEW f \in Free(u) \cap Reach(M, Hash[Empty], Free(u)),
               g[1] \notin Reach(M, b, {f})
        PROVE  \E e \in Before(M, u) \cap Reach(M, b, {f}) : M[e] = f
    <3>1. f \in Slots /\ f # b /\ f # Hash[Empty] /\ Hash[Empty] \in Cells
      BY <2>0, BeforeChained
    <3>2. f \in Reach(M, b, {f})
      <4>1. {} \cup {f} = {f}
        OBVIOUS
      <4>2. f \notin Reach(M, b, {} \cup {f})
              => Reach(M, b, {}) \subseteq Reach(M, b, {} \cup {f})
        BY <2>0, ReachPast
      <4> QED
        BY <2>3, <2>4, <4>1, <4>2
    <3>3. PICK d \in Reach(M, b, {f}) \ {f} : M[d] = f
      <4>1. f \in Reach(M, b, {f}) \cap {f}
        BY <3>2
      <4> QED
        BY <3>1, <4>1, <2>0, ReachEntry
    <3>4. PICK e \in Before(M, u) : M[e] = f
      <4>1. f \in Reach(M, Hash[Empty], Free(u)) \cap Free(u)
        BY <2>4
      <4>2. \E e \in Reach(M, Hash[Empty], Free(u)) \ Free(u) : M[e] = f
        BY <3>1, <4>1, ReachEntry
      <4> QED
        BY <4>2 DEF Before
    <3>5. d \in Chained(M) /\ e \in Chained(M)
      BY <2>0, BeforeChained, ChainedCells
    <3>6. d = e
      BY <3>3, <3>4, <3>5, <1>3 DEF OneWay
    <3> QED
      BY <3>3, <3>4, <3>6
  <2> QED
    BY <2>3, <2>4 DEF Safe
<1>6. OneWay(M, u, Chained(M) \ Before(M, u))
  BY <1>3 DEF OneWay
<1> QED
  BY <1>4, <1>5, <1>6 DEF Table

-----------------------------------------------------------------------------
(* Accounts stay on their chains                                           *)

FirstFree == Reach(link, Hash[Empty], Free(userid))

\* How far p, which holds the lock, has come.
Stage(p) ==
    LET c == call[p]  n == call[p].slot IN
    /\ pc[p] \in {"s_cmp", "s_next"} /\ c.ret = "r_take" /\ c.at # Nil => c.at \in FirstFree
    /\ pc[p] = "s_next" /\ c.ret = "r_take" => userid[c.at] # Empty
    /\ pc[p] = "r_take" /\ c.at # Nil => c.at \in FirstFree
    /\ pc[p] = "u_rmwalk" => /\ c.cell \in FirstFree /\ c.cell # n
                             /\ n \in Reach(link, c.cell, Free(userid))
    /\ pc[p] = "u_unlink" => c.cell \in Before(link, userid) /\ link[c.cell] = n
    /\ pc[p] \in {"u_name", "u_addwalk", "u_link", "u_end"} => InHand(link, userid, granted, n)
    /\ pc[p] \in {"u_addwalk", "u_link"} => c.cell \in Reach(link, Hash[c.id], {})
    /\ pc[p] = "u_link" => link[c.cell] = Nil
    /\ pc[p] = "u_end" => n \in Reach(link, Hash[c.id], {})
    /\ pc[p] \in {"r_record", "r_unlock"} => Safe(link, userid, <<n, c.id>>)

ChainInv == /\ SlotInv
            /\ Table(link, userid, granted)
            /\ \A p \in Procs : Stage(p)

\* Nobody but the holder of the lock is at a stage.
LEMMA NoStage ==
    ASSUME NEW p \in Procs, ~ Holding(p)
    PROVE  Stage(p)
BY DEF Stage, Holding, Setting, Searching

LEMMA OthersStages ==
    ASSUME ChainInv, SlotInv', NEW p \in Procs,
           \A q \in Procs \ {p} : pc'[q] = pc[q] /\ call'[q] = call[q],
           UNCHANGED <<userid, link, granted>> \/ Holding(p),
           Stage(p)', Table(link, userid, granted)'
    PROVE  ChainInv'
<1>1. ASSUME NEW q \in Procs, q # p
      PROVE  Stage(q)'
  <2>1. pc'[q] = pc[q] /\ call'[q] = call[q] /\ Stage(q)
    BY <1>1 DEF ChainInv
  <2>2. CASE Holding(q)
    <3>1. ~ Holding(p)
      BY <1>1, <2>2 DEF ChainInv, SlotInv, LockHeld
    <3> QED
      BY <2>1, <3>1 DEF Stage, FirstFree
  <2>3. CASE ~ Holding(q)
    <3>1. ~ Holding(q)'
      BY <2>1, <2>3 DEF Holding
    <3> QED
      BY <2>1, <3>1 DEF Stage, Holding, Setting, Searching
  <2> QED
    BY <2>2, <2>3
<1> QED
  BY <1>1 DEF ChainInv

\* What is known of p and of the table at its step.
LEMMA StageStep ==
    ASSUME NoKill, ChainInv, NEW p \in Procs, Alive(p) \/ Crash(p)
    PROVE  /\ SlotInv /\ SlotInv' /\ Stage(p) /\ Table(link, userid, granted)
           /\ call[p] \in Call /\ LocalsOK(pc[p], call[p]) /\ OwnSlot(p)
           /\ link \in Links /\ link' \in Links
           /\ userid \in [Slots -> Ids] /\ granted \in SUBSET (Slots \X New)
           /\ pc \in [Procs -> Labels] /\ call \in [Procs -> Call]
           /\ \A g \in granted : userid[g[1]] # Empty
           /\ \A q \in Procs \ {p} : pc'[q] = pc[q] /\ call'[q] = call[q]
<1>1. SlotInv /\ Stage(p) /\ Table(link, userid, granted)
  BY DEF ChainInv
<1>2. SlotInv'
  BY <1>1, NextSlots DEF Next
<1>3. TypeInv /\ TypeInv' /\ GrantedKept
  BY <1>1, <1>2 DEF SlotInv
<1>4. link \in Links /\ link' \in Links
  BY <1>3 DEF TypeInv, TypeOK, Links
<1>5. \A g \in granted : userid[g[1]] # Empty
  BY <1>3, OwnType, TableAssumption DEF GrantedKept
<1> QED
  BY <1>1, <1>2, <1>4, <1>5, SlotStep, OwnType

\* A step that touches neither chains nor names.
LEMMA QuietStage ==
    ASSUME NoKill, ChainInv, NEW p \in Procs, Alive(p) \/ Crash(p),
           UNCHANGED <<userid, link, granted>>, Stage(p)'
    PROVE  ChainInv'
BY StageStep, OthersStages

LEMMA LeaveStage ==
    ASSUME NoKill, ChainInv, NEW p \in Procs, Alive(p) \/ Crash(p),
           UNCHANGED <<userid, link, granted>>,
           pc'[p] \in {"idle", "r_check", "r_spare", "r_clean", "r_lock"}
    PROVE  ChainInv'
BY QuietStage DEF Stage

LEMMA ExitStage ==
    ASSUME NoKill, ChainInv, NEW p \in Procs, Alive(p) \/ Crash(p),
           UNCHANGED <<userid, link, granted>>, Exit(p)
    PROVE  ChainInv'
BY LeaveStage, StageStep, ReturnIdle DEF Exit

LEMMA SearchStage ==
    ASSUME NoKill, ChainInv, NEW p \in Procs, Alive(p), SearchCmp(p) \/ SearchNext(p)
    PROVE  ChainInv'
<1>a. /\ call[p] \in Call /\ LocalsOK(pc[p], call[p]) /\ OwnSlot(p) /\ Stage(p)
      /\ pc \in [Procs -> Labels] /\ call \in [Procs -> Call] /\ link \in Links
      /\ UNCHANGED <<userid, link, granted>>
  BY StageStep DEF SearchCmp, SearchNext
<1>b. call[p].ret \in {"r_check", "r_spare", "r_take"} /\ call[p].at \in Slots \cup {Nil}
  BY <1>a DEF LocalsOK, Call, SearchCmp, SearchNext, Searching
<1>1. CASE SearchCmp(p)
  <2>0. pc[p] = "s_cmp" /\ call' = call
    BY <1>1 DEF SearchCmp
  <2>1. CASE call[p].at = Nil \/ userid[call[p].at] = call[p].key
    <3>1. pc'[p] = call[p].ret
      BY <1>1, <2>1, <1>a DEF SearchCmp, SearchEnds, Goto
    <3>2. Stage(p)'
      BY <1>a, <1>b, <2>0, <3>1 DEF Stage, FirstFree
    <3> QED
      BY <1>a, <3>2, QuietStage
  <2>2. CASE call[p].at # Nil /\ userid[call[p].at] # call[p].key
    <3>1. pc'[p] = "s_next"
      BY <1>1, <2>2, <1>a DEF SearchCmp, Goto
    <3>2. call[p].ret = "r_take" => call[p].key = Empty
      BY <1>a, <2>0 DEF OwnSlot, Searching
    <3>3. Stage(p)'
      BY <1>a, <2>0, <2>2, <3>1, <3>2 DEF Stage, FirstFree
    <3> QED
      BY <1>a, <3>3, QuietStage
  <2> QED
    BY <2>1, <2>2
<1>2. CASE SearchNext(p)
  <2> DEFINE last == call[p].times + 1 = Cardinality(Slots)
  <2>0. pc[p] = "s_next" /\ call[p].at \in Slots
    BY <1>2, <1>a, <1>b DEF SearchNext, LocalsOK
  <2>1. /\ pc'[p] = IF last THEN call[p].ret ELSE "s_cmp"
        /\ call'[p].ret = call[p].ret
        /\ call'[p].at = IF last THEN Nil ELSE link[call[p].at]
    BY <1>2, <1>a DEF SearchNext, Goto, Call
  <2> HIDE DEF last
  <2>2. CASE last
    BY <1>a, <1>b, <2>1, <2>2, QuietStage DEF Stage
  <2>3. CASE ~ last
    <3>1. ASSUME call[p].ret = "r_take", link[call[p].at] # Nil
          PROVE  link[call[p].at] \in FirstFree
      <4>1. call[p].at \in FirstFree /\ call[p].at \notin Free(userid)
        BY <3>1, <1>a, <2>0, TableAssumption DEF Stage, Free, Cells
      <4>2. Closed(link, FirstFree, Free(userid))
        BY <1>a, ReachClosed, IdBuckets DEF FirstFree, Ids
      <4> QED
        BY <3>1, <4>1, <4>2 DEF Closed
    <3>2. Stage(p)'
      BY <1>a, <2>1, <2>3, <3>1 DEF Stage, FirstFree
    <3> QED
      BY <1>a, <3>2, QuietStage
  <2> QED
    BY <2>2, <2>3
<1> QED
  BY <1>1, <1>2

\* What is known of p inside setuserid.
LEMMA SettingStep ==
    ASSUME NoKill, ChainInv, NEW p \in Procs, Alive(p), SetUseridSteps(p)
    PROVE  /\ Holding(p) /\ call[p].slot \in Slots /\ call[p].cell \in Cells
           /\ call[p].done = "r_record" /\ call[p].put = call[p].id
           /\ call[p].id \in New /\ call[p].id \in Ids
           /\ UNCHANGED <<passwd, granted>> /\ Empty \notin New
<1>1. pc[p] \in Setting /\ UNCHANGED <<passwd, granted>>
  BY DEF SetUseridSteps, RemoveWalk, RemoveUnlink, AddName, AddWalk, AddLink, AddEnd, Setting
<1>2. LocalsOK(pc[p], call[p]) /\ OwnSlot(p)
  BY StageStep
<1> QED
  BY <1>1, <1>2, TableAssumption DEF LocalsOK, OwnSlot, Holding, Ids

LEMMA RemoveWalkStage ==
    ASSUME NoKill, ChainInv, NEW p \in Procs, Alive(p), RemoveWalk(p)
    PROVE  ChainInv'
<1> DEFINE n == call[p].slot
           c == call[p].cell
<1>a. /\ call[p] \in Call /\ OwnSlot(p) /\ Stage(p)
      /\ pc \in [Procs -> Labels] /\ call \in [Procs -> Call] /\ link \in Links
      /\ pc[p] = "u_rmwalk" /\ UNCHANGED <<userid, link, granted>>
      /\ n \in Slots /\ c \in Cells
  BY StageStep, SettingStep DEF RemoveWalk, SetUseridSteps
<1>b. c \in FirstFree /\ c # n /\ n \in Reach(link, c, Free(userid))
  BY <1>a DEF Stage
<1>c. c \notin Free(userid) /\ link[c] \in Cells /\ link[c] # Nil
      /\ n \in Reach(link, link[c], Free(userid))
  BY <1>a, <1>b, ReachOn, TableAssumption
<1>d. Closed(link, FirstFree, Free(userid))
  BY <1>a, ReachClosed, IdBuckets DEF FirstFree, Ids
<1>1. CASE Exit(p)
  BY <1>1, <1>a, ExitStage
<1>2. CASE /\ link[c] = n /\ Goto(p, "u_unlink")
           /\ call' = [call EXCEPT ![p] = [call[p] EXCEPT !.times = 0]]
  <2>1. pc'[p] = "u_unlink" /\ call'[p].slot = n /\ call'[p].cell = c
    BY <1>2, <1>a DEF Goto, Call
  <2>2. c \in Before(link, userid)
    BY <1>b, <1>c DEF Before, FirstFree
  <2>3. Stage(p)'
    BY <1>2, <1>a, <2>1, <2>2 DEF Stage
  <2> QED
    BY <1>a, <2>3, QuietStage
<1>3. CASE /\ link[c] # n
           /\ call' = [call EXCEPT ![p] = [call[p] EXCEPT !.cell = link[c],
                                              !.times = call[p].times + 1]]
           /\ UNCHANGED pc
  <2>1. pc'[p] = "u_rmwalk" /\ call'[p].slot = n /\ call'[p].cell = link[c]
    BY <1>3, <1>a DEF Call
  <2>2. link[c] \in FirstFree
    BY <1>b, <1>c, <1>d DEF Closed
  <2>3. Stage(p)'
    BY <1>3, <1>a, <1>c, <2>1, <2>2 DEF Stage, FirstFree
  <2> QED
    BY <1>a, <2>3, QuietStage
<1> QED
  BY <1>1, <1>2, <1>3, <1>c DEF RemoveWalk

LEMMA RemoveUnlinkStage ==
    ASSUME NoKill, ChainInv, NEW p \in Procs, Alive(p), RemoveUnlink(p)
    PROVE  ChainInv'
<1> DEFINE n == call[p].slot
           c == call[p].cell
<1>a. /\ Holding(p) /\ OwnSlot(p) /\ Stage(p) /\ Table(link, userid, granted)
      /\ pc \in [Procs -> Labels] /\ link \in Links /\ link' \in Links
      /\ granted \in SUBSET (Slots \X New) /\ \A g \in granted : userid[g[1]] # Empty
      /\ n \in Slots /\ c \in Cells /\ n \in Cells
      /\ pc[p] = "u_unlink" /\ UNCHANGED <<userid, granted, call>>
  BY StageStep, SettingStep DEF RemoveUnlink, SetUseridSteps, Cells
<1>b. /\ c \in Before(link, userid) /\ link[c] = n /\ n \in Free(userid)
      /\ pc'[p] = "u_name"
  BY <1>a DEF Stage, OwnSlot, Free, RemoveUnlink, Goto
<1>c. link'[c] = link[n] /\ \A k \in Cells \ {c} : link'[k] = link[k]
  BY <1>a, <1>b DEF RemoveUnlink, Unlinked, Links
<1>1. InHand(link', userid, granted, n)
  BY <1>a, <1>b, <1>c, UnlinkHand
<1>2. Table(link', userid, granted)
  BY <1>a, <1>1, HandTable
<1>3. Stage(p)'
  BY <1>a, <1>b, <1>1 DEF Stage
<1>4. Table(link, userid, granted)'
  BY <1>a, <1>2
<1> QED
  BY <1>a, <1>3, <1>4, StageStep, OthersStages

LEMMA AddNameStage ==
    ASSUME NoKill, ChainInv, NEW p \in Procs, Alive(p), AddName(p)
    PROVE  ChainInv'
<1> DEFINE n == call[p].slot
           id == call[p].id
<1>a. /\ Holding(p) /\ Stage(p) /\ call[p] \in Call /\ call \in [Procs -> Call]
      /\ pc \in [Procs -> Labels] /\ link \in Links /\ userid \in [Slots -> Ids]
      /\ granted \in SUBSET (Slots \X New)
      /\ n \in Slots /\ id \in New /\ id \in Ids /\ call[p].put = id
      /\ pc[p] = "u_name" /\ UNCHANGED <<link, granted>>
  BY StageStep, SettingStep DEF AddName, SetUseridSteps
<1>b. /\ pc'[p] = "u_addwalk" /\ userid' = [userid EXCEPT ![n] = id]
      /\ call'[p].slot = n /\ call'[p].id = id /\ call'[p].cell = Hash[id]
  BY <1>a DEF AddName, Goto, Call
<1>1. InHand(link, userid', granted, n)
  <2>1. InHand(link, userid, granted, n)
    BY <1>a DEF Stage
  <2> QED
    BY <2>1, <1>a, <1>b, NameHand
<1>2. Table(link, userid', granted)
  BY <1>a, <1>1, HandTable
<1>3. Hash[id] \in Reach(link, Hash[id], {})
  BY <1>a, IdBuckets, ReachClosed
<1>4. Stage(p)'
  BY <1>a, <1>b, <1>1, <1>3 DEF Stage
<1>5. Table(link, userid, granted)'
  BY <1>a, <1>2
<1> QED
  BY <1>a, <1>4, <1>5, StageStep, OthersStages

LEMMA AddWalkStage ==
    ASSUME NoKill, ChainInv, NEW p \in Procs, Alive(p), AddWalk(p)
    PROVE  ChainInv'
<1> DEFINE n == call[p].slot
           c == call[p].cell
           id == call[p].id
<1>a. /\ call[p] \in Call /\ Stage(p)
      /\ pc \in [Procs -> Labels] /\ call \in [Procs -> Call] /\ link \in Links
      /\ pc[p] = "u_addwalk" /\ UNCHANGED <<userid, link, granted>>
      /\ n \in Slots /\ c \in Cells /\ id \in Ids
  BY StageStep, SettingStep DEF AddWalk, SetUseridSteps
<1>b. InHand(link, userid, granted, n) /\ c \in Reach(link, Hash[id], {})
  BY <1>a DEF Stage
<1>1. CASE Exit(p)
  BY <1>1, <1>a, ExitStage
<1>2. CASE link[c] = Nil /\ Goto(p, "u_link") /\ UNCHANGED call
  <2>1. pc'[p] = "u_link"
    BY <1>2, <1>a DEF Goto
  <2>2. Stage(p)'
    BY <1>2, <1>a, <1>b, <2>1 DEF Stage
  <2> QED
    BY <1>a, <2>2, QuietStage
<1>3. CASE /\ link[c] # Nil
           /\ call' = [call EXCEPT ![p] = [call[p] EXCEPT !.cell = link[c],
                                              !.times = call[p].times + 1]]
           /\ UNCHANGED pc
  <2>1. pc'[p] = "u_addwalk" /\ call'[p].slot = n /\ call'[p].cell = link[c]
        /\ call'[p].id = id
    BY <1>3, <1>a DEF Call
  <2>2. link[c] \in Reach(link, Hash[id], {})
    <3>1. Closed(link, Reach(link, Hash[id], {}), {})
      BY <1>a, IdBuckets, ReachClosed
    <3> QED
      BY <1>3, <1>b, <3>1 DEF Closed
  <2>3. Stage(p)'
    BY <1>a, <1>b, <2>1, <2>2 DEF Stage
  <2> QED
    BY <1>a, <2>3, QuietStage
<1> QED
  BY <1>1, <1>2, <1>3 DEF AddWalk

LEMMA AddLinkStage ==
    ASSUME NoKill, ChainInv, NEW p \in Procs, Alive(p), AddLink(p)
    PROVE  ChainInv'
<1> DEFINE n == call[p].slot
           c == call[p].cell
           id == call[p].id
<1>a. /\ Holding(p) /\ OwnSlot(p) /\ Stage(p)
      /\ pc \in [Procs -> Labels] /\ link \in Links /\ link' \in Links
      /\ granted \in SUBSET (Slots \X New)
      /\ n \in Slots /\ c \in Cells /\ id \in New /\ id \in Ids /\ Empty \notin New
      /\ pc[p] = "u_link" /\ UNCHANGED <<userid, granted, call>>
  BY StageStep, SettingStep DEF AddLink, SetUseridSteps
<1>b. /\ InHand(link, userid, granted, n) /\ userid[n] # Empty
      /\ c \in Reach(link, Hash[id], {}) /\ link[c] = Nil /\ pc'[p] = "u_end"
  BY <1>a DEF Stage, OwnSlot, Named, AddLink, Goto
<1>c. link'[c] = n /\ \A k \in Cells \ {c} : link'[k] = link[k]
  BY <1>a DEF AddLink, Links
<1>1. InHand(link', userid, granted, n) /\ n \in Reach(link', Hash[id], {})
  <2>1. /\ link \in Links /\ link' \in Links /\ granted \in SUBSET (Slots \X New)
        /\ n \in Slots /\ InHand(link, userid, granted, n) /\ userid[n] # Empty
        /\ id \in Ids /\ c \in Reach(link, Hash[id], {}) /\ link[c] = Nil
        /\ link'[c] = n /\ \A k \in Cells \ {c} : link'[k] = link[k]
    BY <1>a, <1>b, <1>c
  <2> HIDE DEF n, c, id
  <2> QED
    BY <2>1, LinkHand
<1>2. Table(link', userid, granted)
  BY <1>a, <1>1, HandTable
<1>3. Stage(p)'
  BY <1>a, <1>b, <1>1 DEF Stage
<1>4. Table(link, userid, granted)'
  BY <1>a, <1>2
<1> QED
  BY <1>a, <1>3, <1>4, StageStep, OthersStages

LEMMA AddEndStage ==
    ASSUME NoKill, ChainInv, NEW p \in Procs, Alive(p), AddEnd(p)
    PROVE  ChainInv'
<1> DEFINE n == call[p].slot
           id == call[p].id
<1>a. /\ Holding(p) /\ Stage(p)
      /\ pc \in [Procs -> Labels] /\ link \in Links /\ link' \in Links
      /\ granted \in SUBSET (Slots \X New)
      /\ n \in Slots /\ n \in Cells /\ id \in New /\ call[p].done = "r_record"
      /\ pc[p] = "u_end" /\ UNCHANGED <<userid, granted, call>>
  BY StageStep, SettingStep DEF AddEnd, SetUseridSteps, Cells
<1>b. /\ InHand(link, userid, granted, n) /\ n \in Reach(link, Hash[id], {})
      /\ pc'[p] = "r_record"
  BY <1>a DEF Stage, AddEnd, Goto
<1>c. link'[n] = Nil /\ \A k \in Cells \ {n} : link'[k] = link[k]
  BY <1>a DEF AddEnd, Links
<1>1. Table(link', userid, granted \cup {<<n, id>>})
  BY <1>a, <1>b, <1>c, EndTable
<1>2. Stage(p)' /\ Table(link, userid, granted)'
  BY <1>a, <1>b, <1>1 DEF Stage, Table
<1> QED
  BY <1>a, <1>2, StageStep, OthersStages

LEMMA SetupStage ==
    ASSUME NoKill, ChainInv, NEW p \in Procs, Alive(p), SetupNewUser(p)
    PROVE  ChainInv'
<1>a. /\ call[p] \in Call /\ LocalsOK(pc[p], call[p]) /\ OwnSlot(p) /\ Stage(p)
      /\ pc \in [Procs -> Labels] /\ call \in [Procs -> Call] /\ link \in Links
      /\ Table(link, userid, granted)
  BY StageStep
<1>b. Hash[Empty] \in Cells /\ Hash[Empty] \notin Slots
  BY IdBuckets DEF Ids
<1>1. CASE CallRegister(p)
  <2>1. PICK id \in New :
          call' = [call EXCEPT ![p].id = id, ![p].key = id,
              ![p].ret = "r_check", ![p].at = link[Hash[id]],
              ![p].there = \E n \in Slots : userid[n] = id /\ OnChain(n)]
    BY <1>1 DEF CallRegister
  <2>2. call'[p].ret = "r_check" /\ pc'[p] = "s_cmp" /\ UNCHANGED <<userid, link, granted>>
    BY <2>1, <1>1, <1>a DEF CallRegister, Goto, Call
  <2> QED
    BY <2>2, QuietStage DEF Stage
<1>2. CASE RegisterCheck(p)
  <2>1. UNCHANGED <<userid, link, granted>>
    BY <1>2 DEF RegisterCheck
  <2>2. CASE Return(p)
    BY <2>1, <2>2, <1>a, ReturnIdle, LeaveStage
  <2>3. CASE Search(p, Empty, "r_spare")
    <3>1. call'[p].ret = "r_spare" /\ pc'[p] = "s_cmp"
      BY <2>3, <1>a DEF Search, Goto, Call
    <3> QED
      BY <2>1, <3>1, QuietStage DEF Stage
  <2> QED
    BY <1>2, <2>2, <2>3 DEF RegisterCheck
<1>3. CASE RegisterSpare(p)
  BY <1>3, <1>a, LeaveStage DEF RegisterSpare, Goto
<1>4. CASE RegisterClean(p)
  BY <1>4, <1>a, LeaveStage DEF RegisterClean, Goto, NoKill
<1>5. CASE RegisterLock(p)
  <2>1. /\ UNCHANGED <<userid, link, granted>>
        /\ call'[p].ret = "r_take" /\ pc'[p] = "s_cmp" /\ call'[p].at = link[Hash[Empty]]
    BY <1>5, <1>a DEF RegisterLock, Search, Goto, Call
  <2>2. link[Hash[Empty]] \in FirstFree \cup {Nil}
    <3>1. Hash[Empty] \in FirstFree /\ Closed(link, FirstFree, Free(userid))
      BY <1>a, <1>b, ReachClosed DEF FirstFree
    <3> QED
      BY <1>b, <3>1 DEF Closed, Free
  <2>3. Stage(p)'
    BY <2>1, <2>2 DEF Stage, FirstFree
  <2> QED
    BY <2>1, <2>3, QuietStage
<1>6. CASE RegisterTake(p)
  <2>0. pc[p] = "r_take" /\ UNCHANGED <<userid, link, granted>>
    BY <1>6 DEF RegisterTake
  <2>1. CASE Exit(p)
    BY <2>0, <2>1, ExitStage
  <2>2. CASE call[p].at # Nil /\ SetUserid(p, call[p].at, call[p].id, "r_record")
    <3>1. call[p].at \in FirstFree /\ userid[call[p].at] = Empty /\ call[p].at \in Slots
      BY <2>0, <2>2, <1>a DEF Stage, OwnSlot, Call
    <3>2. /\ pc'[p] = "u_rmwalk" /\ call'[p].slot = call[p].at
          /\ call'[p].cell = Hash[Empty]
      BY <2>2, <3>1, <1>a DEF SetUserid, Goto, Call
    <3>3. Hash[Empty] \in FirstFree /\ Hash[Empty] # call[p].at
      BY <1>a, <1>b, <3>1, ReachClosed DEF FirstFree
    <3>4. Stage(p)'
      BY <2>0, <3>1, <3>2, <3>3 DEF Stage, FirstFree
    <3> QED
      BY <2>0, <3>4, QuietStage
  <2> QED
    BY <1>6, <2>1, <2>2 DEF RegisterTake
<1>7. CASE RegisterRecord(p)
  <2>1. /\ pc[p] = "r_record" /\ pc'[p] = "r_unlock"
        /\ UNCHANGED <<userid, link, granted, call>>
    BY <1>7, <1>a DEF RegisterRecord, Goto
  <2>2. Stage(p)'
    BY <2>1, <1>a DEF Stage
  <2> QED
    BY <2>1, <2>2, QuietStage
<1>8. CASE RegisterUnlock(p)
  <2>1. /\ pc[p] = "r_unlock" /\ pc'[p] = "idle" /\ UNCHANGED <<userid, link>>
        /\ granted' = granted \cup {<<call[p].slot, call[p].id>>}
    BY <1>8, <1>a, ReturnIdle DEF RegisterUnlock
  <2>2. Safe(link, userid, <<call[p].slot, call[p].id>>) /\ Holding(p)
    BY <1>a, <2>1 DEF Stage, Holding
  <2>3. Table(link, userid, granted)'
    BY <2>1, <2>2, <1>a DEF Table
  <2>4. Stage(p)'
    BY <2>1 DEF Stage
  <2> QED
    BY <2>2, <2>3, <2>4, StageStep, OthersStages
<1> QED
  BY <1>1, <1>2, <1>3, <1>4, <1>5, <1>6, <1>7, <1>8 DEF SetupNewUser

LEMMA NextStage == NoKill /\ ChainInv /\ [Next]_vars => ChainInv'
<1> SUFFICES ASSUME NoKill, ChainInv, [Next]_vars PROVE ChainInv'
  OBVIOUS
<1>1. CASE UNCHANGED vars
  <2>1. SlotInv'
    BY NextSlots DEF ChainInv
  <2> QED
    BY <1>1, <2>1 DEF vars, ChainInv, Stage, FirstFree
<1>2. ASSUME NEW p \in Procs, Alive(p) PROVE ChainInv'
  <2>1. ~ KillUser(p)
    BY StageStep, <1>2 DEF KillUser, CallKill, KillRecord, NoKill, OwnSlot
  <2> QED
    BY <1>2, <2>1, SearchStage, SetupStage, RemoveWalkStage, RemoveUnlinkStage, AddNameStage,
       AddWalkStage, AddLinkStage, AddEndStage DEF Alive, SetUseridSteps
<1>3. ASSUME NEW p \in Procs, Crash(p) PROVE ChainInv'
  BY <1>3, ExitStage DEF Crash
<1> QED
  BY <1>1, <1>2, <1>3 DEF Next

LEMMA InitStage == Init => ChainInv
<1> SUFFICES ASSUME Init PROVE ChainInv
  OBVIOUS
<1>1. SlotInv
  BY InitSlots
<1>2. link = InitLink /\ granted = {} /\ link \in Links
  BY TableAssumption DEF Init, Links
<1>3. \A p \in Procs : Stage(p)
  BY DEF Init, Stage
<1>4. OneWay(link, userid, Chained(link) \ Before(link, userid))
  <2>1. PICK S \in SUBSET Cells :
          /\ Buckets \subseteq S /\ Closed(link, S, {})
          /\ \A c, d \in S : link[c] = link[d] /\ c # d => link[c] = Nil
    BY <1>2, TableAssumption DEF Closed
  <2>2. \A b \in Buckets : Reach(link, b, {}) \subseteq S
    BY <2>1, ReachLeast
  <2>3. Chained(link) \subseteq S
    BY <2>2 DEF Chained
  <2> QED
    BY <2>1, <2>3, <1>2, BeforeChained DEF OneWay
<1>5. NoSelf(link, userid)
  BY <1>2, TableAssumption DEF NoSelf, Free
<1> QED
  BY <1>1, <1>2, <1>3, <1>4, <1>5 DEF ChainInv, Table

\* Where nobody kills, an account that setupnewuser reported keeps its slot,
\* its record and its place on the chain of its id, for any number of
\* processes, slots and buckets, wherever registrants die: also between the
\* two words of cache.c:180, which leaves the chain of an id running on into
\* that of the free slots (register.c:335-407, cache.c:162-206).
THEOREM GrantedStaysCorrect ==
    ASSUME NoKill
    PROVE  Spec => []GrantedStays
<1>1. Spec => []ChainInv
  BY InitStage, NextStage, PTL DEF Spec
<1>2. ChainInv => GrantedStays
  <2> SUFFICES ASSUME ChainInv, NEW g \in granted
               PROVE  userid[g[1]] = g[2] /\ passwd[g[1]] = g[2] /\ OnChain(g[1])
    BY DEF GrantedStays
  <2>1. /\ userid[g[1]] = g[2] /\ passwd[g[1]] = g[2] /\ g[1] \in Slots /\ g[2] \in Ids
        /\ link \in Links /\ Safe(link, userid, g)
    BY DEF ChainInv, SlotInv, GrantedKept, TypeInv, TypeOK, Links, Ids, Table
  <2>2. g[1] \in Walk(Hash[g[2]])
    BY <2>1, ReachWalk, IdBuckets DEF Safe
  <2> QED
    BY <2>1, <2>2 DEF OnChain
<1> QED
  BY <1>1, <1>2, PTL

-----------------------------------------------------------------------------
(* Searches find what is there                                             *)

FreeChain(L) == Reach(L, Hash[Empty], {})

\* Slots in hand: out of all chains, and linked to a chain that goes on where it
\* led before.
Out == {call[p].slot : p \in {q \in Procs : pc[q] \in {"u_name", "u_addwalk", "u_link"}}}
Half == {call[p].slot : p \in {q \in Procs : pc[q] = "u_end"}}

\* The chains where no process has died between the two words, N and H being
\* the slots out of all chains and linked half.  No cell is linked to twice, no
\* account of another chain is behind the free slots, and what is in hand led
\* there.
Sound(L, u, N, H) ==
    /\ \E S \in SUBSET Cells :
          /\ Buckets \subseteq S /\ N \cap S = {} /\ Closed(L, S, H)
          /\ \A c, d \in S \ H : L[c] = L[d] /\ c # d => L[c] = Nil
    /\ \A m \in FreeChain(L) \cap Slots : u[m] \in New => Hash[u[m]] = Hash[Empty]
    /\ \A n \in N \cup H : L[n] \in FreeChain(L) \cup {Nil}

\* A search c that stands on the way to a slot m with its key, without a cell of
\* A before m, and has met the slots V.
Way(L, u, A, c, m, V) ==
    /\ m \in Slots \ V /\ u[m] = c.key
    /\ Cardinality(V) = c.times
    /\ c.at \in Slots /\ m \in Reach(L, c.at, A \cup V)

\* What a registration may turn.
Turned == FreeChain(link) \cup Out \cup Half

\* A search that has to find something, on keys that are on no chain of free slots.
Seeks(p) == pc[p] \in Searching /\ call[p].there /\ Hash[call[p].key] # Hash[Empty]

OnWay(p) == \E V \in SUBSET Slots, m \in Slots :
    /\ Way(link, userid, Turned, call[p], m, V)
    /\ pc[p] = "s_next" => m # call[p].at

FindInv ==
    /\ ChainInv
    /\ ~ torn => /\ Sound(link, userid, Out, Half)
                 /\ \A p \in Procs : Seeks(p) => OnWay(p)

LEMMA FreeChainIs ==
    ASSUME NEW L \in Links
    PROVE  /\ FreeChain(L) \in SUBSET Cells /\ Hash[Empty] \in FreeChain(L)
           /\ Closed(L, FreeChain(L), {})
           /\ Hash[Empty] \in Cells /\ Hash[Empty] \in Buckets /\ Hash[Empty] \notin Slots
BY IdBuckets, ReachClosed DEF FreeChain, Ids

\* Where no cell is linked to twice, another chain does not meet the free slots.
LEMMA ChainsApart ==
    ASSUME NEW L \in Links, NEW b \in Buckets, b # Hash[Empty],
           NEW S \in SUBSET Cells, Buckets \subseteq S, Closed(L, S, {}),
           \A c, d \in S : L[c] = L[d] /\ c # d => L[c] = Nil
    PROVE  Reach(L, b, {}) \cap FreeChain(L) = {}
<1> DEFINE e == Hash[Empty]
           E == FreeChain(L)
           D == {x \in S : x \notin E}
<1>0. E \in SUBSET Cells /\ e \in E /\ Closed(L, E, {}) /\ e \in Buckets /\ e \notin Slots
  BY FreeChainIs
<1>1. E \subseteq S
  BY <1>0, ReachLeast DEF FreeChain
<1>2. b \in D
  <2>1. Closed(L, E \ {b}, {})
    <3>1. b \notin Slots \cup {Nil}
      BY TableAssumption DEF Cells
    <3> QED
      BY <1>0, <3>1 DEF Closed, Links
  <2>2. E \subseteq E \ {b}
    BY <1>0, <2>1, ReachLeast DEF FreeChain
  <2> QED
    BY <2>2
<1>3. ASSUME NEW x \in D, L[x] # Nil PROVE L[x] \in D
  <2>1. L[x] \in S /\ L[x] \in Slots
    BY <1>3 DEF Closed, Links
  <2>2. ASSUME L[x] \in E PROVE FALSE
    <3>1. L[x] # e
      BY <1>0, <2>1
    <3>2. PICK y \in E : L[y] = L[x]
      <4> SUFFICES ASSUME \A y \in E : L[y] # L[x] PROVE FALSE
        OBVIOUS
      <4>1. E \ {L[x]} \in SUBSET Cells /\ e \in E \ {L[x]} /\ Closed(L, E \ {L[x]}, {})
        BY <1>0, <3>1 DEF Closed
      <4>2. E \subseteq E \ {L[x]}
        BY <4>1, ReachLeast DEF FreeChain
      <4> QED
        BY <2>2, <4>2
    <3> QED
      BY <1>1, <1>3, <3>2
  <2> QED
    BY <2>1, <2>2
<1>4. Closed(L, D, {})
  BY <1>3 DEF Closed
<1>5. Reach(L, b, {}) \subseteq D
  BY <1>2, <1>4, ReachLeast
<1> QED
  BY <1>5

LEMMA UnlinkSound ==
    ASSUME NEW L \in Links, NEW u, Sound(L, u, {}, {}), NEW n \in Slots,
           NEW c \in FreeChain(L), L[c] = n, c # n,
           NEW M \in Links, M[c] = L[n], \A k \in Cells \ {c} : M[k] = L[k]
    PROVE  Sound(M, u, {n}, {}) /\ FreeChain(M) \cup {n} \subseteq FreeChain(L)
<1> DEFINE e == Hash[Empty]
           E == FreeChain(L)
           F == FreeChain(M)
<1>0. /\ E \in SUBSET Cells /\ e \in E /\ Closed(L, E, {}) /\ e \notin Slots
      /\ F \in SUBSET Cells /\ e \in F /\ Closed(M, F, {}) /\ n \in Cells /\ Nil \notin Cells
      /\ e \in Cells
  BY FreeChainIs, TableAssumption DEF Cells
<1>1. n \in E /\ L[n] \in E \cup {Nil}
  BY <1>0 DEF Closed
<1>2. F \subseteq E
  <2>1. Closed(M, E, {})
    BY <1>0, <1>1 DEF Closed
  <2> QED
    BY <1>0, <2>1, ReachLeast DEF FreeChain
<1>3. PICK S \in SUBSET Cells :
        /\ Buckets \subseteq S /\ Closed(L, S, {})
        /\ \A x, y \in S : L[x] = L[y] /\ x # y => L[x] = Nil
  BY DEF Sound
<1>4. E \subseteq S
  BY <1>0, <1>3, ReachLeast, FreeChainIs DEF FreeChain
<1> HIDE DEF E, F
<1>5. c \in S /\ n \in S /\ c \in Cells /\ n # Nil
  BY <1>0, <1>1, <1>4 DEF E
<1>6. \A x \in S : L[x] = n => x = c
  BY <1>3, <1>5
<1>7. /\ Buckets \subseteq S \ {n} /\ {n} \cap (S \ {n}) = {} /\ Closed(M, S \ {n}, {})
      /\ \A x, y \in (S \ {n}) \ {} : M[x] = M[y] /\ x # y => M[x] = Nil
  <2>1. Buckets \subseteq S \ {n}
    BY <1>3, TableAssumption
  <2>2. L[n] # n
    BY <1>5, <1>6
  <2>3. Closed(M, S \ {n}, {})
    <3> SUFFICES ASSUME NEW x \in S \ {n}, M[x] # Nil PROVE M[x] \in S \ {n}
      BY DEF Closed
    <3>1. CASE x = c
      BY <1>3, <1>5, <2>2, <3>1 DEF Closed
    <3>2. CASE x # c
      BY <1>3, <1>6, <3>2 DEF Closed
    <3> QED
      BY <3>1, <3>2
  <2>4. ASSUME NEW x \in S \ {n}, NEW y \in S \ {n}, M[x] = M[y], x # y PROVE M[x] = Nil
    <3>1. CASE x = c
      BY <1>3, <1>5, <2>4, <3>1
    <3>2. CASE y = c
      BY <1>3, <1>5, <2>4, <3>2
    <3>3. CASE x # c /\ y # c
      BY <1>3, <2>4, <3>3
    <3> QED
      BY <3>1, <3>2, <3>3
  <2> QED
    BY <2>1, <2>3, <2>4
<1>8. L[n] \in F \cup {Nil}
  <2>1. c \in F
    <3> SUFFICES ASSUME c \notin F PROVE FALSE
      OBVIOUS
    <3>1. Closed(L, F, {})
      BY <1>0 DEF Closed
    <3>2. E \subseteq F
      BY <1>0, <3>1, ReachLeast DEF FreeChain, E
    <3> QED
      BY <3>2 DEF E
  <2> QED
    BY <1>0, <2>1 DEF Closed
<1>9. M[n] = L[n]
  BY <1>0
<1>10. \A m \in F \cap Slots : u[m] \in New => Hash[u[m]] = Hash[Empty]
  BY <1>2 DEF Sound, E
<1>11. S \ {n} \in SUBSET Cells
  OBVIOUS
<1>12. Sound(M, u, {n}, {})
  BY <1>7, <1>8, <1>9, <1>10, <1>11 DEF Sound, F
<1> QED
  BY <1>1, <1>2, <1>12 DEF E, F

\* A slot that is in hand is not among the free ones.
LEMMA OutApart ==
    ASSUME NEW L \in Links, NEW u, NEW n, Sound(L, u, {n}, {})
    PROVE  n \notin FreeChain(L)
<1>1. PICK S \in SUBSET Cells : Buckets \subseteq S /\ {n} \cap S = {} /\ Closed(L, S, {})
  BY DEF Sound
<1>2. FreeChain(L) \subseteq S
  BY <1>1, FreeChainIs, ReachLeast DEF FreeChain
<1> QED
  BY <1>1, <1>2

LEMMA NameSound ==
    ASSUME NEW L \in Links, NEW u, NEW n, Sound(L, u, {n}, {}),
           NEW v, \A m \in Slots \ {n} : v[m] = u[m]
    PROVE  Sound(L, v, {n}, {})
<1>1. \A m \in FreeChain(L) \cap Slots : v[m] = u[m]
  BY OutApart
<1> QED
  BY <1>1 DEF Sound

LEMMA LinkSound ==
    ASSUME NEW L \in Links, NEW u, NEW n \in Slots, Sound(L, u, {n}, {}),
           NEW id \in New, u[n] = id,
           NEW c \in Reach(L, Hash[id], {}), L[c] = Nil,
           NEW M \in Links, M[c] = n, \A k \in Cells \ {c} : M[k] = L[k]
    PROVE  Sound(M, u, {}, {n}) /\ FreeChain(M) \subseteq FreeChain(L) \cup {n}
<1> DEFINE e == Hash[Empty]
           b == Hash[id]
           E == FreeChain(L)
           F == FreeChain(M)
<1>0. /\ E \in SUBSET Cells /\ e \in E /\ Closed(L, E, {}) /\ n \in Cells /\ e \in Cells
      /\ b \in Buckets /\ b \in Cells /\ Nil \notin Cells
  BY FreeChainIs, IdBuckets, TableAssumption DEF Cells, Ids
<1>1. PICK S \in SUBSET Cells :
        /\ Buckets \subseteq S /\ {n} \cap S = {} /\ Closed(L, S, {})
        /\ \A x, y \in S : L[x] = L[y] /\ x # y => L[x] = Nil
  BY DEF Sound
<1>2. E \subseteq S /\ c \in S
  <2>1. E \subseteq S
    BY <1>0, <1>1, ReachLeast, FreeChainIs DEF FreeChain
  <2>2. Reach(L, b, {}) \subseteq S
    BY <1>0, <1>1, ReachLeast
  <2> QED
    BY <2>1, <2>2
<1>3. L[n] \in E \cup {Nil} /\ c # n
  BY <1>1, <1>2 DEF Sound
<1>4. F \subseteq E \cup {n}
  <2>1. Closed(M, E \cup {n}, {})
    BY <1>0, <1>3 DEF Closed
  <2> QED
    BY <1>0, <2>1, ReachLeast DEF FreeChain
<1>5. E \subseteq F
  <2>1. \A k \in Cells : L[k] \in {M[k], Nil}
    OBVIOUS
  <2> QED
    BY <1>0, <2>1, ReachLonger DEF FreeChain
<1>6. n \in F => b = e
  <2> SUFFICES ASSUME b # e PROVE n \notin F
    OBVIOUS
  <2>1. c \notin E
    BY <1>0, <1>1, ChainsApart
  <2>2. Closed(M, E, {})
    BY <1>0, <2>1 DEF Closed
  <2>3. F \subseteq E
    BY <1>0, <2>2, ReachLeast DEF FreeChain
  <2> QED
    BY <2>3, OutApart
<1> HIDE DEF E, F
<1>7. \A m \in F \cap Slots : u[m] \in New => Hash[u[m]] = Hash[Empty]
  BY <1>4, <1>6 DEF Sound, E
<1>8. M[n] \in F \cup {Nil}
  BY <1>0, <1>3, <1>5
<1>9. /\ Buckets \subseteq S \cup {n} /\ {} \cap (S \cup {n}) = {} /\ Closed(M, S \cup {n}, {n})
      /\ \A x, y \in (S \cup {n}) \ {n} : M[x] = M[y] /\ x # y => M[x] = Nil
      /\ S \cup {n} \in SUBSET Cells
  <2>1. Closed(M, S \cup {n}, {n})
    BY <1>1, <1>2 DEF Closed
  <2>2. \A x, y \in S : M[x] = M[y] /\ x # y => M[x] = Nil
    <3> SUFFICES ASSUME NEW x \in S, NEW y \in S, M[x] = M[y], x # y PROVE M[x] = Nil
      OBVIOUS
    <3>1. \A z \in S \ {c} : M[z] = L[z] /\ M[z] # n
      BY <1>0, <1>1, TableAssumption DEF Closed, Cells
    <3> QED
      BY <1>1, <3>1
  <2> QED
    BY <1>0, <1>1, <2>1, <2>2
<1>10. Sound(M, u, {}, {n})
  BY <1>7, <1>8, <1>9 DEF Sound, F
<1> QED
  BY <1>4, <1>10 DEF E, F

LEMMA EndSound ==
    ASSUME NEW L \in Links, NEW u, NEW n \in Slots, Sound(L, u, {}, {n}),
           NEW M \in Links, M[n] = Nil, \A k \in Cells \ {n} : M[k] = L[k]
    PROVE  Sound(M, u, {}, {}) /\ FreeChain(M) \subseteq FreeChain(L)
<1>0. Hash[Empty] \in Cells
  BY IdBuckets DEF Ids
<1>1. FreeChain(M) \subseteq FreeChain(L)
  <2>1. \A k \in Cells : M[k] \in {L[k], Nil}
    OBVIOUS
  <2> QED
    BY <1>0, <2>1, ReachLonger DEF FreeChain
<1>2. PICK S \in SUBSET Cells :
        /\ Buckets \subseteq S /\ Closed(L, S, {n})
        /\ \A x, y \in S \ {n} : L[x] = L[y] /\ x # y => L[x] = Nil
  BY DEF Sound
<1>3. /\ Buckets \subseteq S /\ {} \cap S = {} /\ Closed(M, S, {})
      /\ \A x, y \in S \ {} : M[x] = M[y] /\ x # y => M[x] = Nil
  BY <1>2 DEF Closed
<1>4. \A m \in FreeChain(M) \cap Slots : u[m] \in New => Hash[u[m]] = Hash[Empty]
  BY <1>1 DEF Sound
<1>5. Sound(M, u, {}, {})
  BY <1>3, <1>4 DEF Sound
<1> QED
  BY <1>1, <1>5

\* Who dies before *p is written leaves the slot out.
LEMMA LostSound ==
    ASSUME NEW L, NEW u, NEW N, Sound(L, u, N, {})
    PROVE  Sound(L, u, {}, {})
BY DEF Sound

\* A slot that a search of its id would meet is met before all that may be
\* turned.
LEMMA SoundMeets ==
    ASSUME NEW L \in Links, NEW u, NEW N, NEW H, Sound(L, u, N, H),
           NEW id \in New, Hash[id] # Hash[Empty],
           NEW m \in Slots, u[m] = id, m \in Reach(L, Hash[id], {})
    PROVE  /\ L[Hash[id]] \in Slots
           /\ m \in Reach(L, L[Hash[id]], FreeChain(L) \cup N \cup H)
<1> DEFINE b == Hash[id]
           E == FreeChain(L)
           A == E \cup N \cup H
           R == Reach(L, b, A)
<1>0. /\ b \in Buckets /\ b \in Cells /\ b \notin Slots
      /\ E \in SUBSET Cells /\ Closed(L, E, {})
      /\ R \in SUBSET Cells /\ b \in R /\ Closed(L, R, A)
  BY IdBuckets, FreeChainIs, ReachClosed DEF Ids
<1>1. PICK S \in SUBSET Cells : Buckets \subseteq S /\ N \cap S = {} /\ Closed(L, S, H)
  BY DEF Sound
<1>2. R \subseteq S
  <2>1. Closed(L, S, A)
    BY <1>1 DEF Closed
  <2> QED
    BY <1>0, <1>1, <2>1, ReachLeast
<1>3. Closed(L, R \cup E, {})
  <2> SUFFICES ASSUME NEW x \in R \cup E PROVE L[x] \in R \cup E \cup {Nil}
    BY DEF Closed
  <2>1. CASE x \in E
    BY <1>0, <2>1 DEF Closed
  <2>2. CASE x \in R /\ x \notin A
    BY <1>0, <2>2 DEF Closed
  <2>3. CASE x \in R /\ x \in N \cup H
    BY <1>1, <1>2, <2>3 DEF Sound
  <2> QED
    BY <2>1, <2>2, <2>3
<1>4. m \in R
  <2>1. m \in R \cup E
    <3>1. R \cup E \in SUBSET Cells /\ b \in R \cup E
      BY <1>0
    <3> HIDE DEF R, E, A
    <3> QED
      BY <1>3, <3>1, ReachLeast
  <2>2. m \notin E
    BY DEF Sound
  <2> QED
    BY <2>1, <2>2
<1>5. L[b] \in Cells /\ m \in Reach(L, L[b], A)
  BY <1>0, <1>4, ReachOn
<1>6. L[b] \in Slots
  BY <1>0, <1>5, TableAssumption DEF Links
<1> QED
  BY <1>5, <1>6

\* One step along the way.
LEMMA WayOn ==
    ASSUME NEW L \in Links, NEW A, NEW V \in SUBSET Slots, NEW x \in Slots,
           NEW m \in Slots \ V, m # x, m \in Reach(L, x, A \cup V)
    PROVE  /\ x \notin V /\ L[x] \in Slots
           /\ m \in Slots \ (V \cup {x})
           /\ m \in Reach(L, L[x], A \cup (V \cup {x}))
<1> DEFINE B == A \cup V
<1>0. x \in Cells /\ L[x] \in Slots \cup {Nil} /\ Nil \notin Cells
  BY TableAssumption DEF Cells, Links
<1>1. x \notin B /\ L[x] \in Cells /\ m \in Reach(L, L[x], B)
  BY <1>0, ReachOn
<1>2. L[x] \in Slots
  BY <1>0, <1>1
<1>3. m \in Reach(L, L[x], B \cup {x})
  <2> DEFINE R == Reach(L, L[x], B \cup {x})
  <2>1. R \in SUBSET Cells /\ L[x] \in R /\ Closed(L, R, B \cup {x})
    BY <1>1, ReachClosed
  <2>2. Closed(L, R \cup {x}, B) /\ R \cup {x} \in SUBSET Cells /\ x \in R \cup {x}
    BY <1>0, <2>1 DEF Closed
  <2>3. m \in R \cup {x}
    <3> HIDE DEF R
    <3> QED
      BY <2>2, ReachLeast
  <2> QED
    BY <2>3
<1>4. B \cup {x} = A \cup (V \cup {x})
  OBVIOUS
<1> QED
  BY <1>1, <1>2, <1>3, <1>4

\* What others turn does not lead a search off its way.
LEMMA WayStays ==
    ASSUME NEW L \in Links, NEW M \in Links, NEW A, NEW B, B \subseteq A,
           \A k \in Cells \ A : L[k] \in {M[k], Nil},
           NEW V, NEW x \in Slots, NEW m \in Reach(L, x, A \cup V)
    PROVE  m \in Reach(M, x, B \cup V)
<1>0. x \in Cells
  BY DEF Cells
<1>1. Closed(L, Reach(M, x, A \cup V), A \cup V)
  BY <1>0, ReachClosed DEF Closed
<1>2. m \in Reach(M, x, A \cup V)
  BY <1>0, <1>1, ReachClosed, ReachLeast
<1> QED
  BY <1>0, <1>2, ReachFurther

InHands == {"u_name", "u_addwalk", "u_link"}

LEMMA HandsKept ==
    ASSUME NEW p \in Procs, \A q \in Procs \ {p} : pc'[q] = pc[q] /\ call'[q] = call[q],
           pc[p] \notin InHands \cup {"u_end"}, pc'[p] \notin InHands \cup {"u_end"}
    PROVE  Out' = Out /\ Half' = Half
<1>1. \A q \in Procs : pc'[q] \in InHands => pc[q] \in InHands /\ call'[q] = call[q]
  OBVIOUS
<1>2. \A q \in Procs : pc[q] \in InHands => pc'[q] \in InHands /\ call'[q] = call[q]
  OBVIOUS
<1>3. \A q \in Procs : pc'[q] = "u_end" => pc[q] = "u_end" /\ call'[q] = call[q]
  OBVIOUS
<1>4. \A q \in Procs : pc[q] = "u_end" => pc'[q] = "u_end" /\ call'[q] = call[q]
  OBVIOUS
<1>5. Out' = Out
  BY <1>1, <1>2 DEF Out, InHands
<1>6. Half' = Half
  BY <1>3, <1>4 DEF Half
<1> QED
  BY <1>5, <1>6

\* The holder of the lock has the only slot in hand.
LEMMA HandsAre ==
    ASSUME SlotInv, NEW p \in Procs, Holding(p),
           \A q \in Procs \ {p} : pc'[q] = pc[q] /\ call'[q] = call[q]
    PROVE  /\ Out = IF pc[p] \in InHands THEN {call[p].slot} ELSE {}
           /\ Half = IF pc[p] = "u_end" THEN {call[p].slot} ELSE {}
           /\ Out' = IF pc'[p] \in InHands THEN {call'[p].slot} ELSE {}
           /\ Half' = IF pc'[p] = "u_end" THEN {call'[p].slot} ELSE {}
<1>1. \A q \in Procs \ {p} : ~ Holding(q)
  BY DEF SlotInv, LockHeld
<1>2. \A q \in Procs \ {p} : pc[q] \notin InHands \cup {"u_end"} /\ pc'[q] = pc[q]
  BY <1>1 DEF Holding, Setting, InHands
<1>3. Out = IF pc[p] \in InHands THEN {call[p].slot} ELSE {}
  BY <1>2 DEF Out, InHands
<1>4. Half = IF pc[p] = "u_end" THEN {call[p].slot} ELSE {}
  BY <1>2 DEF Half
<1>5. Out' = IF pc'[p] \in InHands THEN {call'[p].slot} ELSE {}
  BY <1>2 DEF Out, InHands
<1>6. Half' = IF pc'[p] = "u_end" THEN {call'[p].slot} ELSE {}
  BY <1>2 DEF Half
<1> QED
  BY <1>3, <1>4, <1>5, <1>6

LEMMA FindStep ==
    ASSUME NoKill, FindInv, NEW p \in Procs, Alive(p) \/ Crash(p)
    PROVE  /\ SlotInv /\ ChainInv /\ ChainInv' /\ Stage(p) /\ OwnSlot(p)
           /\ torn' = (torn \/ (Crash(p) /\ pc[p] = "u_end")) \/ torn' = torn
           /\ call[p] \in Call /\ LocalsOK(pc[p], call[p])
           /\ link \in Links /\ link' \in Links
           /\ userid \in [Slots -> Ids] /\ userid' \in [Slots -> Ids]
           /\ pc \in [Procs -> Labels] /\ call \in [Procs -> Call]
           /\ \A q \in Procs : call[q] \in Call /\ LocalsOK(pc[q], call[q])
           /\ \A q \in Procs \ {p} : pc'[q] = pc[q] /\ call'[q] = call[q]
<1>1. ChainInv /\ ChainInv'
  BY NextStage DEF FindInv, Next
<1>2. TypeInv /\ TypeInv'
  BY <1>1 DEF ChainInv, SlotInv
<1>3. userid \in [Slots -> Ids] /\ userid' \in [Slots -> Ids]
  BY <1>2 DEF TypeInv, TypeOK
<1>4. \A q \in Procs : call[q] \in Call /\ LocalsOK(pc[q], call[q])
  BY <1>2 DEF TypeInv, TypeOK, LocalsKnown
<1>5. torn' = (torn \/ (Crash(p) /\ pc[p] = "u_end")) \/ torn' = torn
  BY DEF Alive, Crash
<1> QED
  BY <1>1, <1>3, <1>4, <1>5, StageStep

\* The searches of the others stay on their way.
LEMMA OthersFind ==
    ASSUME NoKill, FindInv, NEW p \in Procs, Alive(p) \/ Crash(p),
           ~ torn => /\ Sound(link', userid', Out', Half')
                     /\ Turned' \subseteq Turned
                     /\ \A k \in Cells \ Turned : link[k] \in {link'[k], Nil}
                     /\ \A m \in Slots : userid[m] # Empty => userid'[m] = userid[m]
                     /\ Seeks(p)' => OnWay(p)'
    PROVE  FindInv'
<1>0. ChainInv' /\ (~ torn' => ~ torn)
  BY FindStep
<1> SUFFICES ASSUME ~ torn PROVE /\ Sound(link, userid, Out, Half)'
                                 /\ \A q \in Procs : Seeks(q)' => OnWay(q)'
  BY <1>0 DEF FindInv
<1>1. ASSUME NEW q \in Procs, q # p, Seeks(q)' PROVE OnWay(q)'
  <2>0. pc'[q] = pc[q] /\ call'[q] = call[q] /\ call[q] \in Call
        /\ link \in Links /\ link' \in Links
    BY <1>1, FindStep
  <2>1. Seeks(q)
    BY <1>1, <2>0 DEF Seeks
  <2>2. PICK V \in SUBSET Slots : \E m \in Slots :
            /\ Way(link, userid, Turned, call[q], m, V)
            /\ pc[q] = "s_next" => m # call[q].at
    BY <2>1 DEF FindInv, OnWay
  <2>3. PICK m \in Slots :
            /\ Way(link, userid, Turned, call[q], m, V)
            /\ pc[q] = "s_next" => m # call[q].at
    BY <2>2
  <2>4. userid'[m] = userid[m]
    BY <2>1, <2>3 DEF Way, Seeks
  <2>5. m \in Reach(link', call[q].at, Turned' \cup V)
    <3>1. /\ Turned' \subseteq Turned
          /\ \A k \in Cells \ Turned : link[k] \in {link'[k], Nil}
          /\ call[q].at \in Slots /\ m \in Reach(link, call[q].at, Turned \cup V)
      BY <2>3 DEF Way
    <3>2. /\ link \in Links /\ link' \in Links
          /\ Turned' \subseteq Turned
          /\ \A k \in Cells \ Turned : link[k] \in {link'[k], Nil}
      BY <2>0, <3>1
    <3> DEFINE L == link
               M == link'
               A == Turned
               B == Turned'
               x == call[q].at
    <3>3. /\ L \in Links /\ M \in Links /\ B \subseteq A
          /\ \A k \in Cells \ A : L[k] \in {M[k], Nil}
          /\ x \in Slots /\ m \in Reach(L, x, A \cup V)
      BY <3>1, <3>2
    <3>4. m \in Reach(M, x, B \cup V)
      <4> HIDE DEF L, M, A, B, x
      <4> QED
        BY <3>3, WayStays
    <3> QED
      BY <3>4
  <2>6. Way(link', userid', Turned', call'[q], m, V)
    BY <2>0, <2>3, <2>4, <2>5 DEF Way
  <2> QED
    BY <2>0, <2>3, <2>6 DEF OnWay
<1> QED
  BY <1>1

\* A step that touches neither chains nor names nor the slots in hand.
LEMMA QuietFind ==
    ASSUME NoKill, FindInv, NEW p \in Procs, Alive(p) \/ Crash(p),
           UNCHANGED <<userid, link>>, Out' = Out, Half' = Half,
           ~ torn /\ Seeks(p)' => OnWay(p)'
    PROVE  FindInv'
<1>1. ~ torn => Sound(link', userid', Out', Half')
  BY DEF FindInv
<1>2. Turned' = Turned
  BY DEF Turned
<1>3. \A k \in Cells \ Turned : link[k] \in {link'[k], Nil}
  OBVIOUS
<1> QED
  BY <1>1, <1>2, <1>3, OthersFind

LEMMA RestFind ==
    ASSUME NoKill, FindInv, NEW p \in Procs, Alive(p) \/ Crash(p),
           UNCHANGED <<userid, link>>, Out' = Out, Half' = Half,
           pc'[p] \notin Searching
    PROVE  FindInv'
BY QuietFind DEF Seeks

\* Whoever leaves the table leaves a slot out at most.
LEMMA LeaveFind ==
    ASSUME NoKill, FindInv, NEW p \in Procs, Alive(p) \/ Crash(p),
           UNCHANGED <<userid, link>>, pc'[p] = "idle", torn' \/ pc[p] # "u_end"
    PROVE  FindInv'
<1>0. /\ SlotInv /\ ChainInv'
      /\ \A q \in Procs \ {p} : pc'[q] = pc[q] /\ call'[q] = call[q]
  BY FindStep
<1>1. CASE torn'
  BY <1>0, <1>1 DEF FindInv
<1>2. CASE pc[p] \in InHands
  <2>1. Holding(p)
    BY <1>2 DEF Holding, Setting, InHands
  <2>2. Out = {call[p].slot} /\ Half = {} /\ Out' = {} /\ Half' = {}
    BY <1>0, <1>2, <2>1, HandsAre DEF InHands
  <2>3. ~ torn => Sound(link', userid', Out', Half')
    BY <2>2, LostSound DEF FindInv
  <2>4. Turned' \subseteq Turned
    BY <2>2 DEF Turned
  <2>5. \A k \in Cells \ Turned : link[k] \in {link'[k], Nil}
    OBVIOUS
  <2>6. ~ Seeks(p)'
    BY DEF Seeks, Searching
  <2> QED
    BY <2>3, <2>4, <2>5, <2>6, OthersFind
<1>3. CASE pc[p] \notin InHands /\ pc[p] # "u_end"
  <2>1. Out' = Out /\ Half' = Half
    BY <1>0, <1>3, HandsKept DEF InHands
  <2> QED
    BY <2>1, RestFind DEF Searching
<1> QED
  BY <1>1, <1>2, <1>3

LEMMA CrashFind ==
    ASSUME NoKill, FindInv, NEW p \in Procs, Crash(p)
    PROVE  FindInv'
<1>1. pc'[p] = "idle"
  BY FindStep, ReturnIdle DEF Crash, Exit
<1>2. UNCHANGED <<userid, link>> /\ (torn' \/ pc[p] # "u_end")
  BY DEF Crash
<1> QED
  BY <1>1, <1>2, LeaveFind

LEMMA SearchFind ==
    ASSUME NoKill, FindInv, NEW p \in Procs, Alive(p), SearchCmp(p) \/ SearchNext(p)
    PROVE  FindInv'
<1>a. /\ call[p] \in Call /\ LocalsOK(pc[p], call[p])
      /\ pc \in [Procs -> Labels] /\ call \in [Procs -> Call] /\ link \in Links
      /\ UNCHANGED <<userid, link>> /\ pc[p] \in Searching
      /\ \A q \in Procs \ {p} : pc'[q] = pc[q] /\ call'[q] = call[q]
  BY FindStep DEF SearchCmp, SearchNext, Searching
<1>b. call[p].ret \in {"r_check", "r_spare", "r_take"}
  BY <1>a DEF LocalsOK, Call
<1>c. pc'[p] \in {"r_check", "r_spare", "r_take", "s_cmp", "s_next"}
  BY <1>a, <1>b DEF SearchCmp, SearchNext, SearchEnds, Goto
<1>d. Out' = Out /\ Half' = Half /\ Turned' = Turned
  <2>1. Out' = Out /\ Half' = Half
    BY <1>a, <1>c, HandsKept DEF InHands, Searching
  <2> QED
    BY <1>a, <2>1 DEF Turned
<1>1. CASE SearchCmp(p)
  <2>0. pc[p] = "s_cmp" /\ call' = call
    BY <1>1 DEF SearchCmp
  <2>1. pc'[p] = "s_cmp" => FALSE
    BY <1>1, <1>a, <1>b DEF SearchCmp, SearchEnds, Goto
  <2>2. pc'[p] = "s_next" => userid[call[p].at] # call[p].key
    BY <1>1, <1>a, <1>b DEF SearchCmp, SearchEnds, Goto
  <2>3. ASSUME ~ torn, Seeks(p)' PROVE OnWay(p)'
    <3>1. pc'[p] = "s_next" /\ Seeks(p)
      BY <2>0, <2>1, <2>3, <1>a DEF Seeks, Searching
    <3>2. PICK V \in SUBSET Slots : \E m \in Slots : Way(link, userid, Turned, call[p], m, V)
      BY <2>3, <3>1 DEF FindInv, OnWay
    <3>3. PICK m \in Slots : Way(link, userid, Turned, call[p], m, V)
      BY <3>2
    <3>4. m # call[p].at
      BY <2>2, <3>1, <3>3 DEF Way
    <3>5. Way(link', userid', Turned', call'[p], m, V)
      BY <1>a, <1>d, <2>0, <3>3
    <3> QED
      BY <2>0, <3>4, <3>5 DEF OnWay
  <2> QED
    BY <1>a, <1>d, <2>3, QuietFind
<1>2. CASE SearchNext(p)
  <2> DEFINE last == call[p].times + 1 = Cardinality(Slots)
  <2>0. pc[p] = "s_next"
    BY <1>2 DEF SearchNext
  <2>1. /\ pc'[p] = IF last THEN call[p].ret ELSE "s_cmp"
        /\ call'[p].there = call[p].there /\ call'[p].key = call[p].key
        /\ call'[p].at = IF last THEN Nil ELSE link[call[p].at]
        /\ call'[p].times = call[p].times + 1
    BY <1>2, <1>a DEF SearchNext, Goto, Call
  <2> HIDE DEF last
  <2>2. ASSUME ~ torn, Seeks(p)' PROVE OnWay(p)'
    <3>1. pc'[p] = "s_cmp" /\ ~ last /\ Seeks(p)
      BY <1>a, <1>b, <2>0, <2>1, <2>2 DEF Seeks, Searching
    <3>2. PICK V \in SUBSET Slots : \E m \in Slots :
            Way(link, userid, Turned, call[p], m, V) /\ m # call[p].at
      BY <2>0, <2>2, <3>1 DEF FindInv, OnWay
    <3>3. PICK m \in Slots : Way(link, userid, Turned, call[p], m, V) /\ m # call[p].at
      BY <3>2
    <3> DEFINE x == call[p].at
    <3>w. /\ x \in Slots /\ m \in Slots \ V /\ m # x /\ link \in Links
          /\ m \in Reach(link, x, Turned \cup V)
      BY <1>a, <3>3 DEF Way
    <3>4. /\ x \in Slots /\ x \notin V /\ link[x] \in Slots
          /\ m \in Slots \ (V \cup {x})
          /\ m \in Reach(link, link[x], Turned \cup (V \cup {x}))
      <4> HIDE DEF x
      <4> QED
        BY <3>w, WayOn
    <3>5. IsFiniteSet(V) /\ Cardinality(V \cup {x}) = call'[p].times
      <4>1. IsFiniteSet(V)
        BY FS_Subset, TableAssumption
      <4>2. Cardinality(V \cup {x}) = Cardinality(V) + 1
        BY <3>4, <4>1, FS_AddElement
      <4> QED
        BY <2>1, <3>3, <4>1, <4>2 DEF Way
    <3>6. Way(link', userid', Turned', call'[p], m, V \cup {x})
      BY <1>a, <1>d, <2>1, <3>1, <3>3, <3>4, <3>5 DEF Way
    <3>7. V \cup {x} \in SUBSET Slots
      BY <3>4
    <3> QED
      BY <3>1, <3>6, <3>7 DEF OnWay
  <2> QED
    BY <1>a, <1>d, <2>2, QuietFind
<1> QED
  BY <1>1, <1>2

\* The beginning of a search.
LEMMA SearchStarts ==
    ASSUME SlotInv, link \in Links, ~ torn, Sound(link, userid, Out, Half),
           NEW id \in New, Hash[id] # Hash[Empty],
           \E n \in Slots : userid[n] = id /\ OnChain(n)
    PROVE  \E m \in Slots : /\ userid[m] = id /\ link[Hash[id]] \in Slots
                            /\ m \in Reach(link, link[Hash[id]], Turned)
<1>1. PICK m \in Slots : userid[m] = id /\ OnChain(m)
  OBVIOUS
<1>2. id \in Ids /\ Hash[id] \in Cells
  BY IdBuckets DEF Ids
<1>3. m \in Reach(link, Hash[id], {})
  BY <1>1, <1>2, WalkReach DEF OnChain
<1>4. /\ link[Hash[id]] \in Slots
      /\ m \in Reach(link, link[Hash[id]], FreeChain(link) \cup Out \cup Half)
  BY ZenonT(60), <1>1, <1>3, SoundMeets
<1> QED
  BY <1>1, <1>4 DEF Turned

LEMMA SetupFind ==
    ASSUME NoKill, FindInv, NEW p \in Procs, Alive(p), SetupNewUser(p)
    PROVE  FindInv'
<1>a. /\ call[p] \in Call /\ LocalsOK(pc[p], call[p])
      /\ pc \in [Procs -> Labels] /\ call \in [Procs -> Call] /\ link \in Links
      /\ SlotInv /\ \A q \in Procs \ {p} : pc'[q] = pc[q] /\ call'[q] = call[q]
  BY ZenonT(60), FindStep
<1>b. UNCHANGED <<userid, link>>
  <2>1. CASE CallRegister(p)
    BY ZenonT(60), <2>1 DEF CallRegister
  <2>2. CASE RegisterCheck(p)
    BY ZenonT(60), <2>2 DEF RegisterCheck
  <2>3. CASE RegisterSpare(p)
    BY ZenonT(60), <2>3 DEF RegisterSpare
  <2>4. CASE RegisterClean(p)
    BY ZenonT(60), <2>4 DEF RegisterClean
  <2>5. CASE RegisterLock(p)
    BY ZenonT(60), <2>5 DEF RegisterLock
  <2>6. CASE RegisterTake(p)
    BY ZenonT(60), <2>6 DEF RegisterTake
  <2>7. CASE RegisterRecord(p)
    BY ZenonT(60), <2>7 DEF RegisterRecord
  <2>8. CASE RegisterUnlock(p)
    BY ZenonT(60), <2>8 DEF RegisterUnlock
  <2> QED
    BY ZenonT(60), <2>1, <2>2, <2>3, <2>4, <2>5, <2>6, <2>7, <2>8 DEF SetupNewUser
<1>c. pc[p] \in {"idle"} \cup Registering
  BY ZenonT(60) DEF SetupNewUser, CallRegister, RegisterCheck, RegisterSpare, RegisterClean,
         RegisterLock, RegisterTake, RegisterRecord, RegisterUnlock, Registering
\* What the steps have in common.
<1>d. ASSUME pc'[p] \notin Searching \cup InHands \cup {"u_end"} PROVE FindInv'
  BY <1>a, <1>b, <1>c, <1>d, HandsKept, RestFind DEF InHands, Registering
<1>e. ASSUME pc'[p] = "s_cmp", ~ torn /\ Seeks(p)' => OnWay(p)' PROVE FindInv'
  BY <1>a, <1>b, <1>c, <1>e, HandsKept, QuietFind DEF InHands, Registering
<1>f. ASSUME NEW ret \in {"r_spare", "r_take"}, Search(p, Empty, ret) PROVE FindInv'
  <2>1. call'[p].key = Empty /\ pc'[p] = "s_cmp"
    BY <1>a, <1>f DEF Search, Goto, Call
  <2> QED
    BY <2>1, <1>e DEF Seeks
<1>g. Return(p) \/ Exit(p) => FindInv'
  BY <1>a, <1>d, ReturnIdle DEF Exit, Searching, InHands
<1>1. CASE CallRegister(p)
  <2>1. PICK id \in New :
          call' = [call EXCEPT ![p].id = id, ![p].key = id,
              ![p].ret = "r_check", ![p].at = link[Hash[id]],
              ![p].there = \E n \in Slots : userid[n] = id /\ OnChain(n)]
    BY <1>1 DEF CallRegister
  <2>2. call[p] = NoCall
    BY <1>1, <1>a DEF CallRegister, LocalsOK
  <2> DEFINE found == \E n \in Slots : userid[n] = id /\ OnChain(n)
  <2> HIDE DEF found
  <2>3. /\ pc'[p] = "s_cmp" /\ call'[p].key = id /\ call'[p].times = 0
        /\ call'[p].at = link[Hash[id]] /\ call'[p].there = found
    BY ZenonT(60), <1>1, <1>a, <2>1, <2>2, NoCallType DEF CallRegister, Goto, Call, found
  <2>4. ASSUME ~ torn, Seeks(p)' PROVE OnWay(p)'
    <3>1. found /\ Hash[id] # Hash[Empty]
      BY <2>3, <2>4 DEF Seeks
    <3>2. Sound(link, userid, Out, Half)
      BY <2>4 DEF FindInv
    <3>3. \E m \in Slots : /\ userid[m] = id /\ link[Hash[id]] \in Slots
                           /\ m \in Reach(link, link[Hash[id]], Turned)
      BY <1>a, <2>4, <3>1, <3>2, SearchStarts DEF found
    <3>4. PICK m \in Slots : /\ userid[m] = id /\ link[Hash[id]] \in Slots
                             /\ m \in Reach(link, link[Hash[id]], Turned)
      BY <3>3
    <3>5. Turned' = Turned /\ Turned \cup {} = Turned
      BY <1>a, <1>b, <1>c, <2>3, HandsKept DEF InHands, Registering, Turned
    <3>6. Cardinality({}) = 0
      BY FS_EmptySet
    <3>7. Way(link', userid', Turned', call'[p], m, {})
      BY <1>b, <2>3, <3>4, <3>5, <3>6 DEF Way
    <3> QED
      BY <2>3, <3>7 DEF OnWay
  <2> QED
    BY <2>3, <2>4, <1>e
<1>2. CASE RegisterCheck(p)
  BY <1>2, <1>f, <1>g DEF RegisterCheck
<1>3. CASE RegisterSpare(p)
  BY <1>3, <1>a, <1>d DEF RegisterSpare, Goto, Searching, InHands
<1>4. CASE RegisterClean(p)
  BY <1>4, <1>a, <1>d DEF RegisterClean, Goto, NoKill, Searching, InHands
<1>5. CASE RegisterLock(p)
  BY <1>5, <1>f DEF RegisterLock
<1>6. CASE RegisterTake(p)
  BY <1>6, <1>a, <1>d, <1>g DEF RegisterTake, SetUserid, Goto, Searching, InHands
<1>7. CASE RegisterRecord(p)
  BY <1>7, <1>a, <1>d DEF RegisterRecord, Goto, Searching, InHands
<1>8. CASE RegisterUnlock(p)
  BY <1>8, <1>g DEF RegisterUnlock
<1> QED
  BY <1>1, <1>2, <1>3, <1>4, <1>5, <1>6, <1>7, <1>8 DEF SetupNewUser

\* What the steps of setuserid start from.
LEMMA SettingFind ==
    ASSUME NoKill, FindInv, NEW p \in Procs, Alive(p), SetUseridSteps(p)
    PROVE  /\ call[p] \in Call /\ pc \in [Procs -> Labels] /\ call \in [Procs -> Call]
           /\ link \in Links /\ link' \in Links
           /\ userid \in [Slots -> Ids] /\ userid' \in [Slots -> Ids]
           /\ OwnSlot(p) /\ Stage(p) /\ SlotInv /\ UNCHANGED torn
           /\ call[p].slot \in Slots /\ call[p].cell \in Cells
           /\ call[p].done = "r_record" /\ call[p].put = call[p].id
           /\ call[p].id \in New /\ call[p].id \in Ids /\ Empty \notin New
           /\ Out = IF pc[p] \in InHands THEN {call[p].slot} ELSE {}
           /\ Half = IF pc[p] = "u_end" THEN {call[p].slot} ELSE {}
           /\ Out' = IF pc'[p] \in InHands THEN {call'[p].slot} ELSE {}
           /\ Half' = IF pc'[p] = "u_end" THEN {call'[p].slot} ELSE {}
           /\ ~ torn => Sound(link, userid, Out, Half)
<1>1. /\ Holding(p) /\ call[p].slot \in Slots /\ call[p].cell \in Cells
      /\ call[p].done = "r_record" /\ call[p].put = call[p].id
      /\ call[p].id \in New /\ call[p].id \in Ids /\ Empty \notin New
  BY SettingStep DEF FindInv
<1>2. /\ call[p] \in Call /\ pc \in [Procs -> Labels] /\ call \in [Procs -> Call]
      /\ link \in Links /\ link' \in Links
      /\ userid \in [Slots -> Ids] /\ userid' \in [Slots -> Ids]
      /\ OwnSlot(p) /\ Stage(p) /\ SlotInv
      /\ \A q \in Procs \ {p} : pc'[q] = pc[q] /\ call'[q] = call[q]
  BY FindStep
<1>3. UNCHANGED torn /\ (~ torn => Sound(link, userid, Out, Half))
  BY DEF Alive, FindInv
<1>4. /\ Out = IF pc[p] \in InHands THEN {call[p].slot} ELSE {}
      /\ Half = IF pc[p] = "u_end" THEN {call[p].slot} ELSE {}
      /\ Out' = IF pc'[p] \in InHands THEN {call'[p].slot} ELSE {}
      /\ Half' = IF pc'[p] = "u_end" THEN {call'[p].slot} ELSE {}
  BY <1>1, <1>2, HandsAre
<1> QED
  BY <1>1, <1>2, <1>3, <1>4

LEMMA RemoveWalkFind ==
    ASSUME NoKill, FindInv, NEW p \in Procs, Alive(p), RemoveWalk(p)
    PROVE  FindInv'
<1>1. /\ pc \in [Procs -> Labels] /\ pc[p] = "u_rmwalk" /\ UNCHANGED <<userid, link>>
      /\ \A q \in Procs \ {p} : pc'[q] = pc[q] /\ call'[q] = call[q]
  BY FindStep DEF RemoveWalk
<1>2. pc'[p] \in {"idle", "u_unlink", "u_rmwalk"}
  BY <1>1, ReturnIdle DEF RemoveWalk, Exit, Goto
<1> QED
  BY <1>1, <1>2, HandsKept, RestFind DEF InHands, Searching

LEMMA RemoveUnlinkFind ==
    ASSUME NoKill, FindInv, NEW p \in Procs, Alive(p), RemoveUnlink(p)
    PROVE  FindInv'
<1> DEFINE n == call[p].slot
           c == call[p].cell
<1>a. /\ pc[p] = "u_unlink" /\ pc'[p] = "u_name" /\ UNCHANGED <<userid, call>>
      /\ n \in Slots /\ c \in Cells /\ link \in Links /\ link' \in Links
      /\ OwnSlot(p) /\ Stage(p) /\ userid \in [Slots -> Ids]
      /\ Out = {} /\ Half = {} /\ Out' = {n} /\ Half' = {}
      /\ ~ torn => Sound(link, userid, {}, {})
  <2>1. pc[p] = "u_unlink" /\ UNCHANGED <<userid, call>> /\ SetUseridSteps(p)
    BY DEF RemoveUnlink, SetUseridSteps
  <2>2. pc'[p] = "u_name"
    BY SettingFind, <2>1 DEF RemoveUnlink, Goto
  <2> QED
    BY SettingFind, <2>1, <2>2 DEF InHands
<1>b. c \in FreeChain(link) /\ link[c] = n /\ c # n
  <2>1. c \in Before(link, userid) /\ link[c] = n
    BY <1>a DEF Stage
  <2>2. c \notin Free(userid) /\ c \in Reach(link, Hash[Empty], Free(userid))
    BY <2>1 DEF Before
  <2>3. n \in Free(userid)
    BY <1>a DEF OwnSlot, Free
  <2>4. Reach(link, Hash[Empty], Free(userid)) \subseteq FreeChain(link)
    BY <1>a, FreeChainIs, ReachFurther DEF FreeChain
  <2> QED
    BY <2>1, <2>2, <2>3, <2>4
<1>c. link'[c] = link[n] /\ \A k \in Cells \ {c} : link'[k] = link[k]
  BY <1>a, <1>b DEF RemoveUnlink, Unlinked, Links
<1>1. ASSUME ~ torn PROVE /\ Sound(link', userid, {n}, {})
                          /\ FreeChain(link') \cup {n} \subseteq FreeChain(link)
  <2>1. Sound(link, userid, {}, {})
    BY <1>1, <1>a
  <2> HIDE DEF n, c
  <2> QED
    BY <2>1, <1>a, <1>b, <1>c, UnlinkSound
<1>2. ASSUME ~ torn PROVE Turned' \subseteq Turned
  BY <1>1, <1>2, <1>a DEF Turned
<1>3. \A k \in Cells \ Turned : link[k] \in {link'[k], Nil}
  BY <1>b, <1>c DEF Turned
<1>4. ~ Seeks(p)'
  BY <1>a DEF Seeks, Searching
<1> QED
  BY <1>1, <1>2, <1>3, <1>4, <1>a, OthersFind

LEMMA AddNameFind ==
    ASSUME NoKill, FindInv, NEW p \in Procs, Alive(p), AddName(p)
    PROVE  FindInv'
<1> DEFINE n == call[p].slot
<1>a. /\ pc[p] = "u_name" /\ pc'[p] = "u_addwalk" /\ UNCHANGED link
      /\ n \in Slots /\ link \in Links /\ OwnSlot(p) /\ userid \in [Slots -> Ids]
      /\ call'[p].slot = n
      /\ Out = {n} /\ Half = {} /\ Out' = {n} /\ Half' = {}
      /\ ~ torn => Sound(link, userid, {n}, {})
  <2>1. pc[p] = "u_name" /\ UNCHANGED link /\ SetUseridSteps(p)
    BY DEF AddName, SetUseridSteps
  <2>2. pc'[p] = "u_addwalk" /\ call'[p].slot = n
    BY ZenonT(60), SettingFind, <2>1 DEF AddName, Goto, Call
  <2> QED
    BY SettingFind, <2>1, <2>2 DEF InHands
<1>b. \A m \in Slots \ {n} : userid'[m] = userid[m]
  BY <1>a DEF AddName
<1>1. ~ torn => Sound(link, userid', {n}, {})
  BY <1>a, <1>b, NameSound
<1>2. Turned' = Turned /\ \A k \in Cells \ Turned : link[k] \in {link'[k], Nil}
  BY <1>a DEF Turned
<1>3. \A m \in Slots : userid[m] # Empty => userid'[m] = userid[m]
  BY <1>a, <1>b DEF OwnSlot
<1>4. ~ Seeks(p)'
  BY <1>a DEF Seeks, Searching
<1> QED
  BY <1>1, <1>2, <1>3, <1>4, <1>a, OthersFind

LEMMA AddWalkFind ==
    ASSUME NoKill, FindInv, NEW p \in Procs, Alive(p), AddWalk(p)
    PROVE  FindInv'
<1>a. pc[p] = "u_addwalk" /\ UNCHANGED <<userid, link>> /\ SetUseridSteps(p)
      /\ pc \in [Procs -> Labels] /\ call \in [Procs -> Call] /\ call[p] \in Call
  BY FindStep DEF AddWalk, SetUseridSteps
<1>1. CASE Exit(p)
  BY <1>1, <1>a, ReturnIdle, LeaveFind DEF Exit
<1>2. CASE ~ Exit(p)
  <2>1. pc'[p] \in {"u_addwalk", "u_link"} /\ call'[p].slot = call[p].slot
    BY <1>2, <1>a DEF AddWalk, Goto, Call
  <2>2. Out' = Out /\ Half' = Half
    BY <2>1, <1>a, SettingFind DEF InHands
  <2> QED
    BY <2>1, <2>2, <1>a, RestFind DEF Searching
<1> QED
  BY <1>1, <1>2

LEMMA AddLinkFind ==
    ASSUME NoKill, FindInv, NEW p \in Procs, Alive(p), AddLink(p)
    PROVE  FindInv'
<1> DEFINE n == call[p].slot
           c == call[p].cell
           id == call[p].id
<1>a. /\ pc[p] = "u_link" /\ pc'[p] = "u_end" /\ UNCHANGED <<userid, call>>
      /\ n \in Slots /\ c \in Cells /\ link \in Links /\ link' \in Links
      /\ id \in New /\ OwnSlot(p) /\ Stage(p)
      /\ Out = {n} /\ Half = {} /\ Out' = {} /\ Half' = {n}
      /\ ~ torn => Sound(link, userid, {n}, {})
  <2>1. pc[p] = "u_link" /\ UNCHANGED <<userid, call>> /\ SetUseridSteps(p)
    BY DEF AddLink, SetUseridSteps
  <2>2. pc'[p] = "u_end"
    BY SettingFind, <2>1 DEF AddLink, Goto
  <2> QED
    BY SettingFind, <2>1, <2>2 DEF InHands
<1>b. userid[n] = id /\ c \in Reach(link, Hash[id], {}) /\ link[c] = Nil
  BY <1>a DEF OwnSlot, Named, Stage
<1>c. link'[c] = n /\ \A k \in Cells \ {c} : link'[k] = link[k]
  BY <1>a DEF AddLink, Links
<1>1. ASSUME ~ torn PROVE /\ Sound(link', userid, {}, {n})
                          /\ FreeChain(link') \subseteq FreeChain(link) \cup {n}
  <2>1. Sound(link, userid, {n}, {})
    BY <1>1, <1>a
  <2> HIDE DEF n, c, id
  <2> QED
    BY <2>1, <1>a, <1>b, <1>c, LinkSound
<1>2. ASSUME ~ torn PROVE Turned' \subseteq Turned
  BY <1>1, <1>2, <1>a DEF Turned
<1>3. \A k \in Cells \ Turned : link[k] \in {link'[k], Nil}
  BY <1>b, <1>c
<1>4. ~ Seeks(p)'
  BY <1>a DEF Seeks, Searching
<1> QED
  BY <1>1, <1>2, <1>3, <1>4, <1>a, OthersFind

LEMMA AddEndFind ==
    ASSUME NoKill, FindInv, NEW p \in Procs, Alive(p), AddEnd(p)
    PROVE  FindInv'
<1> DEFINE n == call[p].slot
<1>a. /\ pc[p] = "u_end" /\ pc'[p] = "r_record" /\ UNCHANGED <<userid, call>>
      /\ n \in Slots /\ n \in Cells /\ link \in Links /\ link' \in Links
      /\ Out = {} /\ Half = {n} /\ Out' = {} /\ Half' = {}
      /\ ~ torn => Sound(link, userid, {}, {n})
  <2>1. pc[p] = "u_end" /\ UNCHANGED <<userid, call>> /\ SetUseridSteps(p)
    BY DEF AddEnd, SetUseridSteps
  <2>2. pc'[p] = "r_record"
    BY SettingFind, <2>1 DEF AddEnd, Goto
  <2> QED
    BY SettingFind, <2>1, <2>2 DEF InHands, Cells
<1>b. link'[n] = Nil /\ \A k \in Cells \ {n} : link'[k] = link[k]
  BY <1>a DEF AddEnd, Links
<1>1. ASSUME ~ torn PROVE /\ Sound(link', userid, {}, {})
                          /\ FreeChain(link') \subseteq FreeChain(link)
  <2>1. Sound(link, userid, {}, {n})
    BY <1>1, <1>a
  <2> HIDE DEF n
  <2> QED
    BY <2>1, <1>a, <1>b, EndSound
<1>2. ASSUME ~ torn PROVE Turned' \subseteq Turned
  BY <1>1, <1>2, <1>a DEF Turned
<1>3. \A k \in Cells \ Turned : link[k] \in {link'[k], Nil}
  BY <1>a, <1>b DEF Turned
<1>4. ~ Seeks(p)'
  BY <1>a DEF Seeks, Searching
<1> QED
  BY <1>1, <1>2, <1>3, <1>4, <1>a, OthersFind

LEMMA NextFind == NoKill /\ FindInv /\ [Next]_vars => FindInv'
<1> SUFFICES ASSUME NoKill, FindInv, [Next]_vars PROVE FindInv'
  OBVIOUS
<1>1. CASE UNCHANGED vars
  <2>1. ChainInv'
    BY NextStage DEF FindInv
  <2>2. Out' = Out /\ Half' = Half
    BY <1>1 DEF vars, Out, Half
  <2>3. Turned' = Turned
    BY <1>1, <2>2 DEF vars, Turned
  <2>4. \A q \in Procs : Seeks(q)' => Seeks(q) /\ (OnWay(q) => OnWay(q)')
    BY <1>1, <2>3 DEF vars, Seeks, OnWay
  <2>5. ~ torn => /\ Sound(link', userid', Out', Half')
                  /\ \A q \in Procs : Seeks(q)' => OnWay(q)'
    BY <1>1, <2>2, <2>4 DEF vars, FindInv
  <2> QED
    BY <1>1, <2>1, <2>5 DEF vars, FindInv
<1>2. ASSUME NEW p \in Procs, Alive(p) PROVE FindInv'
  <2>1. ~ KillUser(p)
    BY FindStep, <1>2 DEF KillUser, CallKill, KillRecord, NoKill, OwnSlot
  <2> QED
    BY <1>2, <2>1, SearchFind, SetupFind, RemoveWalkFind, RemoveUnlinkFind, AddNameFind,
       AddWalkFind, AddLinkFind, AddEndFind DEF Alive, SetUseridSteps
<1>3. ASSUME NEW p \in Procs, Crash(p) PROVE FindInv'
  BY <1>3, CrashFind
<1> QED
  BY <1>1, <1>2, <1>3 DEF Next

LEMMA InitFind == Init => FindInv
<1> SUFFICES ASSUME Init PROVE FindInv
  OBVIOUS
<1>1. link = InitLink /\ userid = InitUser /\ \A p \in Procs : pc[p] = "idle"
  BY DEF Init
<1>2. Out = {} /\ Half = {}
  BY <1>1 DEF Out, Half
<1>3. \A m \in Slots : userid[m] \notin New
  BY <1>1, TableAssumption
<1>4. Sound(link, userid, {}, {})
  BY <1>1, <1>3, TableAssumption DEF Sound, Closed
<1> QED
  BY <1>1, <1>2, <1>4, InitStage DEF FindInv, Seeks, Searching

\* A search of an id that was on its chain does not come back without it.
LEMMA FindEnds ==
    ASSUME NoKill, FindInv, [Next]_vars, NEW p \in Procs,
           ~ torn, pc[p] \in {"s_cmp", "s_next"}, pc'[p] = call[p].ret,
           call[p].there, Hash[call[p].key] # Hash[Empty]
    PROVE  call'[p].at # Nil
<1>a. Seeks(p) /\ Nil \notin Slots /\ SlotInv
  BY TableAssumption DEF Seeks, Searching, FindInv, ChainInv, Cells
<1>b. /\ pc \in [Procs -> Labels] /\ call \in [Procs -> Call] /\ call[p] \in Call
      /\ call[p].ret \in {"r_check", "r_spare", "r_take"}
  BY <1>a, OwnType DEF SlotInv, LocalsOK, Searching, Call
<1>c. PICK V \in SUBSET Slots : \E m \in Slots :
        /\ Way(link, userid, Turned, call[p], m, V)
        /\ pc[p] = "s_next" => m # call[p].at
  BY <1>a DEF FindInv, OnWay
<1>d. PICK m \in Slots : /\ Way(link, userid, Turned, call[p], m, V)
                         /\ pc[p] = "s_next" => m # call[p].at
  BY <1>c
<1>e. call[p].at \in Slots
  BY <1>d DEF Way
<1>1. pc'[p] # pc[p]
  BY <1>b
<1>2. PICK q \in Procs : Alive(q) \/ Crash(q)
  BY <1>1 DEF Next, vars
<1>3. q = p
  BY <1>1, <1>2, FindStep
<1>4. ~ Crash(p)
  <2>1. pc'[p] # "idle"
    BY ZenonT(60), <1>b
  <2>2. Crash(p) => pc'[p] = "idle"
    BY ZenonT(60), <1>b, ReturnIdle DEF Crash, Exit
  <2> QED
    BY <2>1, <2>2
<1>5. SearchCmp(p) \/ SearchNext(p)
  BY <1>2, <1>3, <1>4 DEF Alive, SetUseridSteps, SetupNewUser, KillUser, RemoveWalk,
       RemoveUnlink, AddName, AddWalk, AddLink, AddEnd, CallRegister, RegisterCheck,
       RegisterSpare, RegisterClean, RegisterLock, RegisterTake, RegisterRecord,
       RegisterUnlock, CallKill, KillRecord
<1>6. CASE SearchCmp(p)
  BY <1>6, <1>a, <1>e DEF SearchCmp
<1>7. CASE SearchNext(p)
  <2> DEFINE last == call[p].times + 1 = Cardinality(Slots)
             x == call[p].at
  <2>1. pc'[p] = IF last THEN call[p].ret ELSE "s_cmp"
    BY <1>7, <1>b DEF SearchNext, Goto
  <2>2. last
    BY <1>b, <2>1
\* Of the slots, the search has met those of V and stands at one, and m is to come.
  <2>3. /\ m \in Slots \ V /\ m # x /\ Cardinality(V) = call[p].times
        /\ link \in Links /\ m \in Reach(link, x, Turned \cup V)
    BY <1>7, <1>d DEF SearchNext, Way, FindInv, ChainInv, SlotInv, TypeInv, TypeOK, Links
  <2>4. x \notin V
    <3>1. x \in Slots
      BY <1>e
    <3> HIDE DEF x
    <3> QED
      BY <2>3, <3>1, WayOn
  <2>5. /\ IsFiniteSet(V) /\ IsFiniteSet(V \cup {x})
        /\ Cardinality(V \cup {x}) = Cardinality(V) + 1
        /\ Cardinality((V \cup {x}) \cup {m}) = Cardinality(V \cup {x}) + 1
    <3>1. IsFiniteSet(V)
      BY FS_Subset, TableAssumption
    <3>2. /\ IsFiniteSet(V \cup {x})
          /\ Cardinality(V \cup {x}) = Cardinality(V) + 1
      BY <2>4, <3>1, FS_AddElement
    <3>3. m \notin V \cup {x}
      BY <2>3
    <3> QED
      BY <3>1, <3>2, <3>3, FS_AddElement
  <2>6. Cardinality((V \cup {x}) \cup {m}) <= Cardinality(Slots)
    <3>1. (V \cup {x}) \cup {m} \subseteq Slots
      BY <1>e
    <3> QED
      BY <3>1, FS_Subset, TableAssumption
  <2>7. Cardinality(V) \in Nat /\ Cardinality(Slots) \in Nat
    BY <2>5, SlotsCounted, FS_CardinalityType
  <2> QED
    BY <2>2, <2>3, <2>5, <2>6, <2>7
<1> QED
  BY <1>5, <1>6, <1>7

\* Where nobody kills, a search that began when a slot had its id, on the chain
\* of that id, finds it, for any number of processes, slots and buckets,
\* although others unlink, name and link slots between any two of its accesses
\* and die while they do; chains that a dead process left torn and ids that
\* share the bucket of the free slots excepted (cache.c:162-231).
THEOREM SearchFindsCorrect ==
    ASSUME NoKill
    PROVE  Spec => SearchFinds
<1>1. Spec => []FindInv
  BY InitFind, NextFind, PTL DEF Spec
<1>2. FindInv /\ [Next]_vars =>
        [\A p \in Procs :
            ~ torn /\ p \notin astray /\ pc[p] \in {"s_cmp", "s_next"} /\ pc'[p] = call[p].ret
              /\ call[p].there /\ Hash[call[p].key] # Hash[Empty]
            => call'[p].at # Nil]_vars
  BY FindEnds
<1> QED
  BY <1>1, <1>2, PTL DEF Spec, SearchFinds

=============================================================================
