-------------------------- MODULE ChatServerProofs --------------------------
(***************************************************************************)
(* Proofs about ChatServer, for any connections, accounts and rooms: the   *)
(* counts of the rooms, and that invitations and the rights of operators   *)
(* end with the stay that they were given for.                             *)
(***************************************************************************)
EXTENDS ChatServer, FiniteSetTheorems, TLAPS

-----------------------------------------------------------------------------
(* The inductive invariant, in parts that speak of tables s                *)

RoomI == [listed : BOOLEAN, occupants : Int, locked : BOOLEAN,
          invite : SUBSET Accounts, ban : SUBSET Accounts]
TableType == [users : [Socks -> User], rooms : [Rooms -> RoomI]]

\* A connection in use is somebody's, and only who is in a room has rights.
UserOK(c, u) ==
    /\ u.on => who[c] \in Accounts
    /\ u.named \/ u.room # Nowhere => u.on
    /\ u.op => u.room # Nowhere

Good(s) ==
    /\ s \in TableType
    /\ \A c \in Socks : UserOK(c, s.users[c])
    /\ \A r \in Rooms : ~ s.rooms[r].listed => s.rooms[r].invite = {}

Sits(us, r) == {c \in Socks : us[c].room = r}

\* Each room has the right count.  Those of X are open with nobody in them.
Counted(s, l, X) == \A r \in Rooms :
    /\ s.rooms[r].occupants = Cardinality(Sits(s.users, r)) + l[r]
    /\ IF r \in X THEN s.rooms[r].listed
       ELSE s.rooms[r].listed <=> r = Main \/ s.rooms[r].occupants > 0

\* From s to t, at most c moves, and its invitations stay behind.
Moved(s, t, c) ==
    /\ \A d \in Socks \ {c} : t.users[d] = s.users[d]
    /\ \A r \in Names :
        /\ t.rooms[r].invite \subseteq s.rooms[r].invite
        /\ s.users[c].room = r /\ t.users[c].room # r
               => who[c] \notin t.rooms[r].invite

\* What exit_room, arrive_room, the making of a room and enter_room do to c.
Leaves(s, t, c) ==
    /\ Moved(s, t, c)
    /\ t.users[c].room = Nowhere /\ ~ t.users[c].op /\ t.users[c].on = s.users[c].on
    /\ t.rooms[Main].listed = s.rooms[Main].listed
    /\ \A r \in Rooms \ {s.users[c].room} : t.rooms[r] = s.rooms[r]
Comes(s, t, c, r) ==
    /\ Moved(s, t, c)
    /\ t.users[c].room = r /\ t.users[c].op = s.users[c].op /\ t.users[c].on
Makes(s, t, c, r) ==
    /\ Moved(s, t, c)
    /\ t.users = s.users /\ t.rooms[r] = NewRoom /\ s.users[c].room # r
GetsIn(s, t, c, r) ==
    /\ Moved(s, t, c)
    /\ \/ t.users[c] = s.users[c]
       \/ /\ t.users[c].room = r
          /\ t.users[c].op => ~ s.rooms[r].listed
          /\ s.rooms[r].listed => ~ Barred(s.rooms[r], c)

SetUser(s, c, u) == [s EXCEPT !.users[c] = u]
SetRoomTo(s, r, room) == [s EXCEPT !.rooms[r] = room]
Made(s, r) == [s EXCEPT !.rooms[r] = NewRoom]

Invited == \A r \in Names : rooms[r].invite \subseteq guests[r]

Others ==
    /\ who \in Castings
    /\ up \in BOOLEAN
    /\ lost \in [Rooms -> 0..MaxLost]
    /\ guests \in [Rooms -> SUBSET Accounts]

IInv == Others /\ Good(Tables) /\ Counted(Tables, lost, {}) /\ Invited

-----------------------------------------------------------------------------
(* Functions of the server                                                 *)

LEMMA SitsFinite ==
    ASSUME NEW us, NEW r
    PROVE  /\ IsFiniteSet(Sits(us, r)) /\ Cardinality(Sits(us, r)) \in Nat
           /\ Cardinality(Sits(us, r)) <= Cardinality(Socks)
           /\ Cardinality(Sits(us, r)) = 0 <=> Sits(us, r) = {}
<1>1. Sits(us, r) \in SUBSET Socks
  BY DEF Sits
<1>2. IsFiniteSet(Socks)
  BY ChatAssumption
<1> QED
  BY <1>1, <1>2, FS_Subset, FS_CardinalityType, FS_EmptySet

\* One connection changes: what becomes of the number of people in a room.
LEMMA SitsMove ==
    ASSUME NEW us \in [Socks -> User], NEW c \in Socks, NEW u \in User, NEW r
    PROVE  Cardinality(Sits([us EXCEPT ![c] = u], r)) =
               IF u.room = r
               THEN IF us[c].room = r THEN Cardinality(Sits(us, r))
                    ELSE Cardinality(Sits(us, r)) + 1
               ELSE IF us[c].room = r THEN Cardinality(Sits(us, r)) - 1
                    ELSE Cardinality(Sits(us, r))
<1> DEFINE vs == [us EXCEPT ![c] = u]
<1>1. IsFiniteSet(Sits(us, r))
  BY SitsFinite
<1>2. CASE u.room = r
  <2>1. Sits(vs, r) = Sits(us, r) \cup {c}
    BY <1>2 DEF Sits
  <2>2. c \in Sits(us, r) <=> us[c].room = r
    BY DEF Sits
  <2> QED
    BY ZenonT(60), <1>1, <1>2, <2>1, <2>2, FS_AddElement
<1>3. CASE u.room # r
  <2>1. Sits(vs, r) = Sits(us, r) \ {c}
    BY <1>3 DEF Sits
  <2>2. c \in Sits(us, r) <=> us[c].room = r
    BY DEF Sits
  <2> QED
    BY <1>1, <1>3, <2>1, <2>2, FS_RemoveElement
<1> QED
  BY <1>2, <1>3

\* A user that changes where it is.
LEMMA SetUserGood ==
    ASSUME NEW s, NEW l \in [Rooms -> Nat], NEW X, NEW c \in Socks, NEW u \in User,
           Good(s), Counted(s, l, X), UserOK(c, u), u.room = s.users[c].room
    PROVE  /\ SetUser(s, c, u).users = [s.users EXCEPT ![c] = u]
           /\ SetUser(s, c, u).rooms = s.rooms
           /\ Good(SetUser(s, c, u)) /\ Counted(SetUser(s, c, u), l, X)
           /\ Moved(s, SetUser(s, c, u), c)
<1> DEFINE t == SetUser(s, c, u)
<1>1. s \in TableType
  BY DEF Good
<1>2. t.users = [s.users EXCEPT ![c] = u] /\ t.rooms = s.rooms /\ t \in TableType
  BY <1>1 DEF TableType, SetUser
<1> HIDE DEF t
<1>3. Good(t)
  BY <1>1, <1>2 DEF Good, TableType
<1>4. ASSUME NEW r PROVE Cardinality(Sits(t.users, r)) = Cardinality(Sits(s.users, r))
  BY <1>1, <1>2, SitsMove DEF TableType
<1>5. Counted(t, l, X)
  BY <1>2, <1>4 DEF Counted
<1>6. Moved(s, t, c)
  BY <1>1, <1>2 DEF Moved, TableType
<1> QED
  BY <1>2, <1>3, <1>5, <1>6 DEF t

\* A room that changes with the same people in it.
LEMMA SetRoomGood ==
    ASSUME NEW s, NEW l \in [Rooms -> Nat], NEW X, NEW r \in Rooms, NEW room \in RoomI,
           Good(s), Counted(s, l, X), s.rooms[r].listed,
           room.listed, room.occupants = s.rooms[r].occupants
    PROVE  /\ SetRoomTo(s, r, room).users = s.users
           /\ SetRoomTo(s, r, room).rooms = [s.rooms EXCEPT ![r] = room]
           /\ Good(SetRoomTo(s, r, room)) /\ Counted(SetRoomTo(s, r, room), l, X)
<1> DEFINE t == SetRoomTo(s, r, room)
<1>1. s \in TableType
  BY DEF Good
<1>2. t.rooms = [s.rooms EXCEPT ![r] = room] /\ t.users = s.users /\ t \in TableType
  BY <1>1 DEF TableType, SetRoomTo
<1> HIDE DEF t
<1>3. Good(t)
  BY <1>1, <1>2 DEF Good, TableType
<1>4. Counted(t, l, X)
  BY <1>1, <1>2 DEF Counted, TableType
<1> QED
  BY <1>2, <1>3, <1>4 DEF t

\* The room r, as it was, that the person at c leaves: closed by the last one,
\* unless it is the main room.
Without(old, r, c) ==
    IF old.occupants - 1 > 0
    THEN [old EXCEPT !.occupants = @ - 1, !.invite = @ \ {who[c]}]
    ELSE IF r = Main THEN [old EXCEPT !.occupants = @ - 1] ELSE NoRoom

LEMMA RoomLeft ==
    ASSUME NEW old \in RoomI, NEW r, NEW c, old.occupants \in Nat \ {0}, old.listed
    PROVE  /\ Without(old, r, c) \in RoomI
           /\ Without(old, r, c).occupants = old.occupants - 1
           /\ Without(old, r, c).invite \subseteq old.invite
           /\ Without(old, r, c).listed <=> r = Main \/ old.occupants - 1 > 0
           /\ ~ Without(old, r, c).listed => Without(old, r, c).invite = {}
           /\ r # Main => who[c] \notin Without(old, r, c).invite
<1> DEFINE room == Without(old, r, c)
           n == old.occupants - 1
           rest == old.invite \ {who[c]}
           kept == [old EXCEPT !.occupants = n]
           thinned == [kept EXCEPT !.invite = rest]
<1>1. n \in Nat /\ rest \in SUBSET Accounts /\ rest \subseteq old.invite /\ who[c] \notin rest
  BY DEF RoomI
<1> HIDE DEF rest
<1>2. /\ kept \in RoomI /\ kept.occupants = n /\ kept.listed = old.listed
      /\ kept.invite = old.invite
  <2> HIDE DEF n
  <2>1. kept \in RoomI
    BY <1>1 DEF RoomI
  <2>2. kept.occupants = n /\ kept.listed = old.listed /\ kept.invite = old.invite
    BY DEF RoomI
  <2> QED
    BY <2>1, <2>2
<1>3. /\ thinned \in RoomI /\ thinned.occupants = n /\ thinned.listed = old.listed
      /\ thinned.invite = rest
  <2> HIDE DEF kept, n
  <2>1. thinned \in RoomI
    BY <1>1, <1>2 DEF RoomI
  <2>2. thinned.occupants = n /\ thinned.listed = old.listed /\ thinned.invite = rest
    BY <1>2 DEF RoomI
  <2> QED
    BY <2>1, <2>2
<1>4. NoRoom \in RoomI /\ NoRoom.occupants = 0 /\ ~ NoRoom.listed /\ NoRoom.invite = {}
  BY DEF RoomI, NoRoom
<1>5. room = IF n > 0 THEN thinned ELSE IF r = Main THEN kept ELSE NoRoom
  <2>1. thinned = [old EXCEPT !.occupants = n, !.invite = rest]
    BY DEF RoomI
  <2> QED
    BY <2>1 DEF Without, rest
<1> HIDE DEF thinned, kept, room, n
<1> SUFFICES /\ room \in RoomI /\ room.occupants = n
             /\ room.invite \subseteq old.invite
             /\ room.listed <=> r = Main \/ n > 0
             /\ ~ room.listed => room.invite = {}
             /\ r # Main => who[c] \notin room.invite
  BY DEF room, n
<1>6. CASE n > 0
  BY <1>1, <1>3, <1>5, <1>6
<1>7. CASE ~ n > 0 /\ r = Main
  BY <1>2, <1>5, <1>7
<1>8. CASE ~ n > 0 /\ r # Main
  <2>1. room = NoRoom /\ n = 0
    BY <1>1, <1>5, <1>8
  <2> QED
    BY <1>4, <1>8, <2>1
<1> QED
  BY <1>1, <1>6, <1>7, <1>8

\* exit_room
LEMMA ExitGood ==
    ASSUME NEW s, NEW l \in [Rooms -> Nat], NEW X, NEW c \in Socks,
           Good(s), Counted(s, l, X), s.users[c].room \notin X
    PROVE  /\ Good(ExitRoom(s, c)) /\ Counted(ExitRoom(s, c), l, X)
           /\ Leaves(s, ExitRoom(s, c), c)
<1> DEFINE r == s.users[c].room  n == s.rooms[r].occupants - 1  t == ExitRoom(s, c)
           u == [s.users[c] EXCEPT !.room = Nowhere, !.op = FALSE]
           room == Without(s.rooms[r], r, c)
<1>1. /\ s \in TableType /\ s.users \in [Socks -> User] /\ s.rooms \in [Rooms -> RoomI]
      /\ s.users[c] \in User /\ UserOK(c, s.users[c])
  BY DEF Good, TableType
<1>2. CASE r = Nowhere
  <2>1. t = s
    BY <1>2 DEF ExitRoom
  <2>2. ~ s.users[c].op
    BY <1>1, <1>2 DEF UserOK
  <2>4. Moved(s, s, c)
    BY <1>1 DEF Moved
  <2> QED
    BY <1>2, <2>1, <2>2, <2>4 DEF Leaves
<1>3. CASE r # Nowhere
  <2>1. r \in Rooms /\ s.rooms[r] \in RoomI
    BY <1>1, <1>3 DEF User
  <2>2. /\ u \in User /\ u.room = Nowhere /\ ~ u.op /\ UserOK(c, u)
        /\ u.on = s.users[c].on
    BY <1>1 DEF User, UserOK
  <2>3. t = [users |-> [s.users EXCEPT ![c] = u], rooms |-> [s.rooms EXCEPT ![r] = room]]
    BY <1>1, <1>3, <2>1 DEF ExitRoom, Without
  <2> HIDE DEF t, u, room
  <2>4. t.users = [s.users EXCEPT ![c] = u] /\ t.rooms = [s.rooms EXCEPT ![r] = room]
    BY <2>3
  <2>5. Cardinality(Sits(s.users, r)) \in Nat \ {0}
    <3>1. c \in Sits(s.users, r)
      BY DEF Sits
    <3> QED
      BY <3>1, SitsFinite
  <2>6. /\ s.rooms[r].occupants = Cardinality(Sits(s.users, r)) + l[r]
        /\ s.rooms[r].listed <=> r = Main \/ s.rooms[r].occupants > 0
    BY <2>1 DEF Counted
  <2>7. n \in Nat /\ s.rooms[r].occupants = n + 1 /\ s.rooms[r].listed
    <3>1. l[r] \in Nat
      BY <2>1
    <3> QED
      BY <2>5, <2>6, <3>1
  <2> HIDE DEF n
  <2>8. /\ room \in RoomI /\ room.occupants = n
        /\ room.invite \subseteq s.rooms[r].invite
        /\ room.listed <=> r = Main \/ n > 0
        /\ ~ room.listed => room.invite = {}
        /\ r # Main => who[c] \notin room.invite
    <3> DEFINE old == s.rooms[r]
    <3>1. old \in RoomI /\ old.occupants \in Nat \ {0} /\ old.occupants - 1 = n /\ old.listed
      BY <2>1, <2>7
    <3>2. room = Without(old, r, c)
      BY DEF room
    <3> HIDE DEF old, r
    <3>3. /\ room \in RoomI /\ room.occupants = old.occupants - 1
          /\ room.invite \subseteq old.invite
          /\ room.listed <=> r = Main \/ old.occupants - 1 > 0
          /\ ~ room.listed => room.invite = {}
          /\ r # Main => who[c] \notin room.invite
      BY <3>1, <3>2, RoomLeft
    <3> QED
      BY <3>1, <3>3 DEF old
  <2>9. t.rooms[r] = room /\ \A q \in Rooms \ {r} : t.rooms[q] = s.rooms[q]
    BY <1>1, <2>1, <2>4
  <2>10. t.users[c] = u /\ \A d \in Socks \ {c} : t.users[d] = s.users[d]
    BY <1>1, <2>4
  <2>11. t \in TableType
    BY <1>1, <2>2, <2>3, <2>8 DEF TableType
  <2>12. Good(t)
    <3>1. ASSUME NEW d \in Socks PROVE UserOK(d, t.users[d])
      <4>1. CASE d = c
        BY <2>2, <2>10, <4>1
      <4>2. CASE d # c
        BY <2>10, <4>2 DEF Good
      <4> QED
        BY <4>1, <4>2
    <3>2. ASSUME NEW q \in Rooms PROVE ~ t.rooms[q].listed => t.rooms[q].invite = {}
      <4>1. CASE q = r
        BY <2>8, <2>9, <4>1
      <4>2. CASE q # r
        BY <2>9, <4>2 DEF Good
      <4> QED
        BY <4>1, <4>2
    <3> QED
      BY <2>11, <3>1, <3>2 DEF Good
  <2>13. Counted(t, l, X)
    <3> SUFFICES ASSUME NEW q \in Rooms
                 PROVE  /\ t.rooms[q].occupants = Cardinality(Sits(t.users, q)) + l[q]
                        /\ IF q \in X THEN t.rooms[q].listed
                           ELSE t.rooms[q].listed <=> q = Main \/ t.rooms[q].occupants > 0
      BY DEF Counted
    <3>1. CASE q = r
      <4>1. Cardinality(Sits(t.users, r)) = Cardinality(Sits(s.users, r)) - 1
        BY <1>1, <1>3, <2>2, <2>4, SitsMove
      <4>2. l[r] \in Nat
        BY <2>1
      <4>3. t.rooms[r].occupants = Cardinality(Sits(t.users, r)) + l[r]
        <5> DEFINE k == Cardinality(Sits(s.users, r))  m == l[r]  o == s.rooms[r].occupants
        <5>1. o = k + m /\ o = n + 1
          BY <2>6, <2>7
        <5>2. k \in Nat /\ m \in Nat /\ n \in Nat
          BY <2>5, <2>7, <4>2
        <5> HIDE DEF k, m, o
        <5>3. n = (k - 1) + m
          BY <5>1, <5>2
        <5>4. t.rooms[r].occupants = n
          BY <2>8, <2>9
        <5> QED
          BY <4>1, <5>3, <5>4 DEF k, m
      <4>4. t.rooms[r].listed <=> r = Main \/ t.rooms[r].occupants > 0
        BY <2>8, <2>9
      <4> QED
        BY <3>1, <4>3, <4>4
    <3>2. CASE q # r
      <4>1. t.rooms[q] = s.rooms[q]
        BY <2>9, <3>2
      <4>2. Cardinality(Sits(t.users, q)) = Cardinality(Sits(s.users, q))
        <5>1. q # Nowhere
          BY ChatAssumption
        <5> QED
          BY <1>1, <2>2, <2>4, <3>2, <5>1, SitsMove
      <4> QED
        BY <4>1, <4>2 DEF Counted
    <3> QED
      BY <3>1, <3>2
  <2>14. Moved(s, t, c)
    <3>1. ASSUME NEW q \in Names
          PROVE  /\ t.rooms[q].invite \subseteq s.rooms[q].invite
                 /\ r = q /\ t.users[c].room # q => who[c] \notin t.rooms[q].invite
      <4>1. q \in Rooms /\ q # Main
        BY ChatAssumption DEF Rooms
      <4>2. CASE q # r
        BY <2>9, <4>1, <4>2
      <4>3. CASE q = r
        BY <2>8, <2>9, <4>1, <4>3
      <4> QED
        BY <4>2, <4>3
    <3> QED
      BY <2>10, <3>1 DEF Moved
  <2>15. t.rooms[Main].listed = s.rooms[Main].listed
    <3>1. Main \in Rooms
      BY DEF Rooms
    <3>2. CASE r = Main
      BY <2>7, <2>8, <2>9, <3>2
    <3>3. CASE r # Main
      BY <2>9, <3>1, <3>3
    <3> QED
      BY <3>2, <3>3
  <2>16. t.users[c].room = Nowhere /\ ~ t.users[c].op /\ t.users[c].on = s.users[c].on
    BY <2>2, <2>10
  <2>17. Leaves(s, t, c)
    BY <2>9, <2>14, <2>15, <2>16 DEF Leaves
  <2> QED
    BY <2>12, <2>13, <2>17 DEF t
<1> QED
  BY <1>2, <1>3

\* arrive_room
LEMMA ArriveGood ==
    ASSUME NEW s, NEW l \in [Rooms -> Nat], NEW X, NEW c \in Socks, NEW r \in Rooms,
           Good(s), Counted(s, l, X), s.users[c].room = Nowhere, s.rooms[r].listed,
           s.users[c].on
    PROVE  /\ Good(Arrive(s, c, r)) /\ Counted(Arrive(s, c, r), l, X \ {r})
           /\ Comes(s, Arrive(s, c, r), c, r)
<1> DEFINE t == Arrive(s, c, r)
           u == [s.users[c] EXCEPT !.room = r]
           room == [s.rooms[r] EXCEPT !.occupants = s.rooms[r].occupants + 1]
<1>1. /\ s \in TableType /\ s.users \in [Socks -> User] /\ s.rooms \in [Rooms -> RoomI]
      /\ s.users[c] \in User /\ UserOK(c, s.users[c]) /\ s.rooms[r] \in RoomI
  BY DEF Good, TableType
<1>2. r # Nowhere
  BY ChatAssumption
<1>3. u \in User /\ u.room = r /\ u.op = s.users[c].op /\ u.on /\ UserOK(c, u)
  BY <1>1, <1>2 DEF User, UserOK
<1>4. t = [users |-> [s.users EXCEPT ![c] = u], rooms |-> [s.rooms EXCEPT ![r] = room]]
  BY <1>1 DEF Arrive
<1>5. /\ room \in RoomI /\ room.listed
      /\ room.invite = s.rooms[r].invite /\ room.occupants = s.rooms[r].occupants + 1
  BY <1>1 DEF RoomI
<1> HIDE DEF t, u, room
<1>6. t.users = [s.users EXCEPT ![c] = u] /\ t.rooms = [s.rooms EXCEPT ![r] = room]
  BY <1>4
<1>7. t \in TableType
  BY <1>1, <1>3, <1>4, <1>5 DEF TableType
<1>8. Good(t)
  BY <1>1, <1>3, <1>5, <1>6, <1>7 DEF Good
<1>9. Counted(t, l, X \ {r})
  <2> SUFFICES ASSUME NEW q \in Rooms
               PROVE  /\ t.rooms[q].occupants = Cardinality(Sits(t.users, q)) + l[q]
                      /\ IF q \in X \ {r} THEN t.rooms[q].listed
                         ELSE t.rooms[q].listed <=> q = Main \/ t.rooms[q].occupants > 0
    BY DEF Counted
  <2>1. q # Nowhere
    BY ChatAssumption
  <2>2. CASE q = r
    <3>1. s.rooms[r].occupants = Cardinality(Sits(s.users, r)) + l[r]
      BY DEF Counted
    <3>2. Cardinality(Sits(t.users, r)) = Cardinality(Sits(s.users, r)) + 1
      BY <1>1, <1>2, <1>3, <1>6, SitsMove
    <3>3. Cardinality(Sits(s.users, r)) \in Nat /\ l[r] \in Nat
      BY SitsFinite
    <3>4. t.rooms[q] = room
      BY <1>1, <1>6, <2>2
    <3> QED
      BY <1>5, <2>2, <3>1, <3>2, <3>3, <3>4
  <2>3. CASE q # r
    <3>1. t.rooms[q] = s.rooms[q]
      BY <1>1, <1>6, <2>3
    <3>2. Cardinality(Sits(t.users, q)) = Cardinality(Sits(s.users, q))
      BY <1>1, <1>3, <1>6, <2>1, <2>3, SitsMove
    <3> QED
      BY <2>3, <3>1, <3>2 DEF Counted
  <2> QED
    BY <2>2, <2>3
<1>10. Moved(s, t, c)
  <2>1. \A d \in Socks \ {c} : t.users[d] = s.users[d]
    BY <1>1, <1>6
  <2>2. ASSUME NEW q \in Names
        PROVE  t.rooms[q].invite \subseteq s.rooms[q].invite /\ s.users[c].room # q
    <3>1. q \in Rooms /\ q # Nowhere
      BY ChatAssumption DEF Rooms
    <3> QED
      BY <1>1, <1>5, <1>6, <3>1
  <2> QED
    BY <2>1, <2>2 DEF Moved
<1>11. t.users[c] = u
  BY <1>1, <1>6
<1> QED
  BY <1>3, <1>8, <1>9, <1>10, <1>11 DEF t, Comes

LEMMA MovedTrans ==
    ASSUME NEW s, NEW t, NEW v, NEW c \in Socks, Moved(s, t, c), Moved(t, v, c)
    PROVE  Moved(s, v, c)
<1>1. \A d \in Socks \ {c} : v.users[d] = s.users[d]
  BY DEF Moved
<1>2. ASSUME NEW r \in Names
      PROVE  /\ v.rooms[r].invite \subseteq s.rooms[r].invite
             /\ s.users[c].room = r /\ v.users[c].room # r
                    => who[c] \notin v.rooms[r].invite
  <2>1. /\ t.rooms[r].invite \subseteq s.rooms[r].invite
        /\ v.rooms[r].invite \subseteq t.rooms[r].invite
    BY DEF Moved
  <2>2. CASE t.users[c].room = r
    BY <2>1, <2>2 DEF Moved
  <2>3. CASE t.users[c].room # r
    BY <2>1, <2>3 DEF Moved
  <2> QED
    BY <2>2, <2>3
<1> QED
  BY <1>1, <1>2 DEF Moved

LEMMA NewRoomIs ==
    NewRoom = [listed |-> TRUE, occupants |-> 0, locked |-> FALSE, invite |-> {}, ban |-> {}]
<1>1. NoRoom \in RoomI /\ ~ NoRoom.listed /\ NoRoom.occupants = 0 /\ ~ NoRoom.locked
      /\ NoRoom.invite = {} /\ NoRoom.ban = {}
  BY DEF NoRoom, RoomI
<1>2. NewRoom = [NoRoom EXCEPT !.listed = TRUE]
  BY DEF NewRoom
<1> QED
  BY <1>1, <1>2 DEF RoomI

\* enter_room for a name that no room has: memory for a new one.
LEMMA MadeGood ==
    ASSUME NEW s, NEW l \in [Rooms -> Nat], NEW c \in Socks, NEW r \in Rooms,
           Good(s), Counted(s, l, {}), ~ s.rooms[r].listed
    PROVE  /\ Good(Made(s, r)) /\ Counted(Made(s, r), l, {r})
           /\ Makes(s, Made(s, r), c, r)
<1> DEFINE t == Made(s, r)
<1>1. /\ s \in TableType /\ s.users \in [Socks -> User] /\ s.rooms \in [Rooms -> RoomI]
      /\ s.rooms[r] \in RoomI
  BY DEF Good, TableType
<1>2. t = [users |-> s.users, rooms |-> [s.rooms EXCEPT ![r] = NewRoom]]
  BY <1>1 DEF TableType, Made
<1>3. NewRoom \in RoomI /\ NewRoom.occupants = 0 /\ NewRoom.listed /\ NewRoom.invite = {}
  BY NewRoomIs DEF RoomI
<1> HIDE DEF t
<1>4. t.users = s.users /\ t.rooms = [s.rooms EXCEPT ![r] = NewRoom] /\ t \in TableType
  BY <1>1, <1>2, <1>3 DEF TableType
<1>5. Good(t)
  BY <1>1, <1>3, <1>4 DEF Good
<1>6. Cardinality(Sits(s.users, r)) = 0 /\ l[r] = 0
  <2>1. /\ s.rooms[r].occupants = Cardinality(Sits(s.users, r)) + l[r]
        /\ ~ s.rooms[r].occupants > 0
    BY DEF Counted
  <2>2. Cardinality(Sits(s.users, r)) \in Nat /\ l[r] \in Nat
    BY SitsFinite
  <2> QED
    BY <2>1, <2>2
<1>7. s.users[c].room # r
  <2>1. c \notin Sits(s.users, r)
    BY <1>6, SitsFinite
  <2> QED
    BY <2>1 DEF Sits
<1>8. Counted(t, l, {r})
  <2> SUFFICES ASSUME NEW q \in Rooms
               PROVE  /\ t.rooms[q].occupants = Cardinality(Sits(t.users, q)) + l[q]
                      /\ IF q \in {r} THEN t.rooms[q].listed
                         ELSE t.rooms[q].listed <=> q = Main \/ t.rooms[q].occupants > 0
    BY DEF Counted
  <2>1. CASE q = r
    BY <1>1, <1>3, <1>4, <1>6, <2>1
  <2>2. CASE q # r
    BY <1>1, <1>4, <2>2 DEF Counted
  <2> QED
    BY <2>1, <2>2
<1>9. Moved(s, t, c)
  <2>1. ASSUME NEW q \in Names PROVE t.rooms[q].invite \subseteq s.rooms[q].invite
    BY <1>1, <1>3, <1>4 DEF Rooms
  <2> QED
    BY <1>4, <2>1 DEF Moved
<1>10. t.rooms[r] = NewRoom
  BY <1>1, <1>4
<1> QED
  BY <1>4, <1>5, <1>7, <1>8, <1>9, <1>10 DEF t, Makes

\* enter_room: c goes where it is let in, and has rights only in a new room.
LEMMA EnterGood ==
    ASSUME NEW s, NEW l \in [Rooms -> Nat], NEW c \in Socks, NEW r \in Rooms,
           Good(s), Counted(s, l, {}), s.users[c].on
    PROVE  /\ Good(EnterRoom(s, c, r)) /\ Counted(EnterRoom(s, c, r), l, {})
           /\ GetsIn(s, EnterRoom(s, c, r), c, r)
<1> DEFINE t == EnterRoom(s, c, r)
<1>1. CASE ~ s.rooms[r].listed
  <2> DEFINE made == Made(s, r)
             left == ExitRoom(made, c)
             came == Arrive(left, c, r)
             u == [came.users[c] EXCEPT !.op = TRUE]
  <2>1. t = SetUser(came, c, u)
    BY <1>1 DEF EnterRoom, SetUser, Made
  <2>2. Good(made) /\ Counted(made, l, {r}) /\ Makes(s, made, c, r)
    BY <1>1, MadeGood
  <2> HIDE DEF made
  <2>3. Good(left) /\ Counted(left, l, {r}) /\ Leaves(made, left, c)
    <3>1. made.users[c].room \notin {r}
      BY <2>2 DEF Makes
    <3> QED
      BY <2>2, <3>1, ExitGood
  <2>4. left.rooms[r].listed /\ left.users[c].room = Nowhere /\ left.users[c].on
    <3>1. left.rooms[r] = NewRoom
      BY <2>2, <2>3 DEF Makes, Leaves
    <3>2. NewRoom.listed
      BY NewRoomIs
    <3> QED
      BY <2>2, <2>3, <3>1, <3>2 DEF Makes, Leaves
  <2> HIDE DEF left
  <2>5. Good(came) /\ Counted(came, l, {r} \ {r}) /\ Comes(left, came, c, r)
    BY <2>3, <2>4, ArriveGood
  <2> HIDE DEF came
  <2>6. Counted(came, l, {})
    <3>1. {r} \ {r} = {}
      OBVIOUS
    <3> QED
      BY <2>5, <3>1
  <2>7. came.users \in [Socks -> User] /\ came.users[c] \in User /\ UserOK(c, came.users[c])
    BY <2>5 DEF Good, TableType
  <2>8. u \in User /\ u.room = r /\ came.users[c].room = r /\ UserOK(c, u)
    <3>1. r # Nowhere
      BY ChatAssumption
    <3>2. came.users[c].room = r /\ came.users[c].on
      BY <2>5 DEF Comes
    <3> QED
      BY <2>7, <3>1, <3>2 DEF User, UserOK
  <2> HIDE DEF u
  <2>9. /\ SetUser(came, c, u).users = [came.users EXCEPT ![c] = u]
        /\ Good(SetUser(came, c, u)) /\ Counted(SetUser(came, c, u), l, {})
        /\ Moved(came, SetUser(came, c, u), c)
    BY <2>5, <2>6, <2>8, SetUserGood
  <2>10. t.users[c].room = r
    BY <2>1, <2>7, <2>8, <2>9
  <2>11. Moved(s, t, c)
    <3>1. Moved(s, made, c) /\ Moved(made, left, c) /\ Moved(left, came, c)
      BY <2>2, <2>3, <2>5 DEF Makes, Leaves, Comes
    <3>2. Moved(s, came, c)
      BY <3>1, MovedTrans
    <3> QED
      BY <2>1, <2>9, <3>2, MovedTrans
  <2> QED
    BY <1>1, <2>1, <2>9, <2>10, <2>11 DEF GetsIn
<1>2. CASE s.rooms[r].listed /\ (s.users[c].room = r \/ Barred(s.rooms[r], c))
  <2>1. t = s
    BY <1>2 DEF EnterRoom
  <2>2. Moved(s, s, c)
    BY DEF Moved
  <2> QED
    BY <2>1, <2>2 DEF GetsIn
<1>3. CASE /\ s.rooms[r].listed /\ s.users[c].room # r /\ ~ Barred(s.rooms[r], c)
  <2> DEFINE out == ExitRoom(s, c)
  <2>1. t = Arrive(out, c, r)
    BY <1>3 DEF EnterRoom
  <2>2. Good(out) /\ Counted(out, l, {}) /\ Leaves(s, out, c)
    BY ExitGood
  <2> HIDE DEF t, out
  <2>3. out.rooms[r].listed /\ out.users[c].room = Nowhere /\ out.users[c].on
    <3>1. out.rooms[r] = s.rooms[r]
      BY <1>3, <2>2 DEF Leaves
    <3> QED
      BY <1>3, <2>2, <3>1 DEF Leaves
  <2>4. Good(t) /\ Counted(t, l, {} \ {r}) /\ Comes(out, t, c, r)
    BY <2>1, <2>2, <2>3, ArriveGood
  <2>5. Counted(t, l, {})
    <3>1. {} \ {r} = {}
      OBVIOUS
    <3> QED
      BY <2>4, <3>1
  <2>6. Moved(s, t, c)
    BY <2>2, <2>4, MovedTrans DEF Leaves, Comes
  <2>7. t.users[c].room = r /\ ~ t.users[c].op
    BY <2>2, <2>4 DEF Leaves, Comes
  <2> QED
    BY <1>3, <2>4, <2>5, <2>6, <2>7 DEF t, GetsIn
<1> QED
  BY <1>1, <1>2, <1>3

-----------------------------------------------------------------------------
(* The steps                                                               *)

LEMMA TablesAre == Tables.users = users /\ Tables.rooms = rooms
BY DEF Tables

LEMMA TablesBecome ==
    ASSUME NEW s, Good(s), Counted(s, lost', {}),
           users' = s.users, rooms' = s.rooms, who' = who
    PROVE  Good(Tables)' /\ Counted(Tables, lost, {})'
<1>1. s = [users |-> users', rooms |-> rooms']
  BY DEF Good, TableType
<1>2. Tables' = s
  BY <1>1 DEF Tables
<1>3. Good(Tables)'
  BY <1>2 DEF Good, UserOK
<1>4. Counted(Tables, lost, {})'
  BY <1>2 DEF Counted, Sits
<1> QED
  BY <1>3, <1>4

\* At most c moves: what the step does is in the tables.
LEMMA BecomeGood ==
    ASSUME IInv, NEW s, NEW c \in Socks, Good(s), Counted(s, lost, {}),
           Moved(Tables, s, c), Become(s, {}), lost' = lost, up' \in BOOLEAN
    PROVE  IInv'
<1>1. Good(Tables)' /\ Counted(Tables, lost, {})'
  BY TablesBecome DEF Become
<1>2. \A r \in Rooms : guests'[r] =
          IF ~ s.rooms[r].listed THEN {}
          ELSE guests[r] \ {who[x] : x \in {d \in In(r) : s.users[d].room # r}}
  BY DEF Become
<1>3. guests' \in [Rooms -> SUBSET Accounts]
  <2>1. \A r \in Rooms : guests'[r] \subseteq guests[r]
    BY <1>2
  <2>2. guests \in [Rooms -> SUBSET Accounts]
    BY DEF IInv, Others
  <2>3. guests' = [r \in Rooms |-> guests'[r]]
    BY DEF Become
  <2> QED
    BY <2>1, <2>2, <2>3
<1>4. Invited'
  <2> SUFFICES ASSUME NEW r \in Names, NEW a \in rooms'[r].invite
               PROVE  a \in guests'[r]
    BY DEF Invited
  <2>1. r \in Rooms /\ a \in s.rooms[r].invite /\ s.rooms[r].listed
    BY DEF Rooms, Become, Good
  <2>2. a \in guests[r]
    BY <2>1, TablesAre DEF Moved, IInv, Invited
  <2>3. ASSUME NEW x \in In(r), s.users[x].room # r
        PROVE  a # who[x]
    <3>1. x \in Socks /\ users[x].room = r
      BY DEF In
    <3>2. x = c
      BY <2>3, <3>1, TablesAre DEF Moved
    <3>3. who[c] \notin s.rooms[r].invite
      BY <2>3, <3>1, <3>2, TablesAre DEF Moved
    <3> QED
      BY <2>1, <3>2, <3>3
  <2>4. a \notin {who[x] : x \in {d \in In(r) : s.users[d].room # r}}
    BY <2>3
  <2>5. guests'[r] = guests[r] \ {who[x] : x \in {d \in In(r) : s.users[d].room # r}}
    BY <1>2, <2>1
  <2> QED
    BY <2>2, <2>4, <2>5
<1>5. Others'
  BY <1>3 DEF IInv, Others, Become
<1> QED
  BY <1>1, <1>4, <1>5 DEF IInv

LEMMA TypesI ==
    ASSUME IInv, NEW c \in Socks
    PROVE  /\ Good(Tables) /\ Counted(Tables, lost, {})
           /\ users \in [Socks -> User] /\ users[c] \in User /\ UserOK(c, users[c])
           /\ rooms \in [Rooms -> RoomI] /\ lost \in [Rooms -> Nat]
           /\ who[c] \in Accounts \cup {Nobody} /\ up \in BOOLEAN
<1>1. Good(Tables) /\ Counted(Tables, lost, {}) /\ Others
  BY DEF IInv
<1>2. users \in [Socks -> User] /\ rooms \in [Rooms -> RoomI]
  BY <1>1, TablesAre DEF Good, TableType
<1>3. UserOK(c, users[c])
  BY <1>1, TablesAre DEF Good
<1>4. lost \in [Rooms -> Nat]
  BY <1>1, ChatAssumption DEF Others
<1>5. who[c] \in Accounts \cup {Nobody} /\ up \in BOOLEAN
  BY <1>1, ChatAssumption DEF Others
<1> QED
  BY <1>1, <1>2, <1>3, <1>4, <1>5

\* A step that changes a user where it is.
LEMMA UserStep ==
    ASSUME IInv, NEW c \in Socks, NEW u \in User, UserOK(c, u), u.room = users[c].room,
           Step(SetUser(Tables, c, u), {})
    PROVE  IInv'
<1>1. /\ Good(SetUser(Tables, c, u)) /\ Counted(SetUser(Tables, c, u), lost, {})
      /\ Moved(Tables, SetUser(Tables, c, u), c)
  BY TypesI, TablesAre, SetUserGood
<1>2. Become(SetUser(Tables, c, u), {}) /\ lost' = lost /\ up' \in BOOLEAN
  BY TypesI DEF Step
<1> QED
  BY <1>1, <1>2, BecomeGood

LEMMA NoUserIs ==
    /\ NoUser \in User /\ NoUser.room = Nowhere
    /\ ~ NoUser.on /\ ~ NoUser.named /\ ~ NoUser.op
    /\ Accepted \in User /\ Accepted.room = Nowhere
    /\ Accepted.on /\ ~ Accepted.named /\ ~ Accepted.op
<1>1. /\ NoUser \in User /\ NoUser.room = Nowhere
      /\ ~ NoUser.on /\ ~ NoUser.named /\ ~ NoUser.op
  BY DEF NoUser, User
<1>2. Accepted = [NoUser EXCEPT !.on = TRUE]
  BY DEF Accepted
<1> QED
  BY <1>1, <1>2 DEF User

LEMMA StepAccept ==
    ASSUME IInv, NEW c \in Socks, Accept(c)
    PROVE  IInv'
<1>1. users[c].room = Nowhere /\ who[c] \in Accounts
  BY TypesI DEF Accept, UserOK
<1>2. Accepted \in User /\ UserOK(c, Accepted) /\ Accepted.room = users[c].room
  BY <1>1, NoUserIs DEF UserOK
<1>3. Step(SetUser(Tables, c, Accepted), {})
  BY DEF Accept, SetUser
<1> QED
  BY <1>2, <1>3, UserStep

LEMMA StepLogin ==
    ASSUME IInv, NEW c \in Socks, Login(c)
    PROVE  IInv'
<1> DEFINE u == [Accepted EXCEPT !.named = TRUE]
           s == SetUser(Tables, c, u)
           t == Arrive(s, c, Main)
<1>1. users[c].on /\ users[c].room = Nowhere /\ who[c] \in Accounts
  BY TypesI DEF Login, UserOK
<1>2. u \in User /\ UserOK(c, u) /\ u.room = users[c].room /\ u.on /\ u.room = Nowhere
  BY <1>1, NoUserIs DEF User, UserOK
<1>3. Step(t, {})
  BY DEF Login, SetUser
<1> HIDE DEF u
<1>4. /\ Good(s) /\ Counted(s, lost, {}) /\ Moved(Tables, s, c)
      /\ s.users = [users EXCEPT ![c] = u] /\ s.rooms = rooms
  <2>1. /\ Good(Tables) /\ Counted(Tables, lost, {}) /\ lost \in [Rooms -> Nat]
        /\ u.room = Tables.users[c].room
    BY <1>2, TypesI, TablesAre
  <2>2. /\ Good(s) /\ Counted(s, lost, {}) /\ Moved(Tables, s, c)
        /\ s.users = [Tables.users EXCEPT ![c] = u] /\ s.rooms = Tables.rooms
    BY <1>2, <2>1, SetUserGood
  <2> QED
    BY <2>2, TablesAre
<1>5. s.users[c].on /\ s.users[c].room = Nowhere /\ s.rooms[Main].listed /\ Main \in Rooms
  <2>1. s.users[c] = u
    BY <1>4, TypesI
  <2>2. Main \in Rooms /\ rooms[Main].listed
    BY TypesI, TablesAre DEF Counted, Rooms
  <2> QED
    BY <1>2, <1>4, <2>1, <2>2
<1> HIDE DEF s
<1>6. Good(t) /\ Counted(t, lost, {} \ {Main}) /\ Comes(s, t, c, Main)
  BY <1>4, <1>5, TypesI, ArriveGood
<1>7. Counted(t, lost, {})
  <2>1. {} \ {Main} = {}
    OBVIOUS
  <2> QED
    BY <1>6, <2>1
<1>8. Moved(Tables, t, c)
  BY <1>4, <1>6, MovedTrans DEF Comes
<1> QED
  BY <1>3, <1>6, <1>7, <1>8, TypesI, BecomeGood DEF Step

LEMMA StepRefuse ==
    ASSUME IInv, NEW c \in Socks, Refuse(c)
    PROVE  IInv'
<1>1. NoUser \in User /\ UserOK(c, NoUser) /\ NoUser.room = users[c].room
  BY NoUserIs DEF Refuse, UserOK
<1>2. Step(SetUser(Tables, c, NoUser), {})
  BY DEF Refuse, LogoutUser, SetUser
<1> QED
  BY <1>1, <1>2, UserStep

LEMMA LogoutGood ==
    ASSUME NEW s, NEW l \in [Rooms -> Nat], NEW c \in Socks, Good(s), Counted(s, l, {})
    PROVE  /\ Good(LogoutUser(ExitRoom(s, c), c)) /\ Counted(LogoutUser(ExitRoom(s, c), c), l, {})
           /\ Moved(s, LogoutUser(ExitRoom(s, c), c), c)
           /\ LogoutUser(ExitRoom(s, c), c).users = [ExitRoom(s, c).users EXCEPT ![c] = NoUser]
           /\ ExitRoom(s, c).users \in [Socks -> User]
<1> DEFINE out == ExitRoom(s, c)
<1>1. Good(out) /\ Counted(out, l, {}) /\ Leaves(s, out, c)
  BY ExitGood
<1> HIDE DEF out
<1>2. NoUser \in User /\ UserOK(c, NoUser) /\ NoUser.room = out.users[c].room
  BY <1>1, NoUserIs DEF UserOK, Leaves
<1>3. LogoutUser(out, c) = SetUser(out, c, NoUser)
  BY DEF LogoutUser, SetUser
<1>4. /\ Good(LogoutUser(out, c)) /\ Counted(LogoutUser(out, c), l, {})
      /\ Moved(out, LogoutUser(out, c), c)
      /\ LogoutUser(out, c).users = [out.users EXCEPT ![c] = NoUser]
  BY <1>1, <1>2, <1>3, SetUserGood
<1>5. Moved(s, LogoutUser(out, c), c)
  BY <1>1, <1>4, MovedTrans DEF Leaves
<1>6. out.users \in [Socks -> User]
  BY <1>1 DEF Good, TableType
<1> QED
  BY <1>4, <1>5, <1>6 DEF out

LEMMA StepHangUp ==
    ASSUME IInv, NEW c \in Socks, HangUp(c)
    PROVE  IInv'
<1> DEFINE t == LogoutUser(ExitRoom(Tables, c), c)
<1>1. Good(t) /\ Counted(t, lost, {}) /\ Moved(Tables, t, c)
  BY TypesI, LogoutGood
<1>2. Step(t, {})
  BY DEF HangUp
<1> QED
  BY <1>1, <1>2, TypesI, BecomeGood DEF Step

\* Here the count of the room, and not the people in it, stays as it was.
LEMMA StepException ==
    ASSUME IInv, NEW c \in Socks, Exception(c)
    PROVE  IInv'
<1> DEFINE r == users[c].room
           t == LogoutUser(Tables, c)
<1>1. up' \in BOOLEAN /\ users[c].on
  BY TypesI DEF Exception
<1>2. t = SetUser(Tables, c, NoUser)
  BY DEF LogoutUser, SetUser
<1>3. UserOK(c, NoUser)
  BY NoUserIs DEF UserOK
<1>4. CASE r = Nowhere
  <2>1. Step(SetUser(Tables, c, NoUser), {})
    BY <1>2, <1>4 DEF Exception, Step
  <2> QED
    BY <1>3, <1>4, <2>1, NoUserIs, UserStep
<1>5. CASE r # Nowhere
  <2>1. /\ lost[r] < MaxLost /\ users' = t.users /\ rooms' = t.rooms
        /\ lost' = [lost EXCEPT ![r] = lost[r] + 1]
        /\ who' = who /\ guests' = guests /\ up' = up
    BY <1>5 DEF Exception
  <2>2. r \in Rooms
    BY <1>5, TypesI DEF User
  <2>3. t = [users |-> [users EXCEPT ![c] = NoUser], rooms |-> rooms]
    BY DEF LogoutUser, Tables
  <2> HIDE DEF t
  <2>4. t.users = [users EXCEPT ![c] = NoUser] /\ t.rooms = rooms /\ t \in TableType
    BY <2>3, NoUserIs, TypesI DEF TableType
  <2>5. Good(t)
    <3>1. \A d \in Socks : UserOK(d, t.users[d])
      BY <1>3, <2>4, TypesI
    <3>2. \A q \in Rooms : ~ t.rooms[q].listed => t.rooms[q].invite = {}
      BY <2>4, TypesI, TablesAre DEF Good
    <3> QED
      BY <2>4, <3>1, <3>2 DEF Good
  <2>6. lost' \in [Rooms -> 0..MaxLost]
    BY <2>1, <2>2, TypesI, ChatAssumption DEF IInv, Others
  <2>7. Counted(t, lost', {})
    <3> SUFFICES ASSUME NEW q \in Rooms
                 PROVE  /\ t.rooms[q].occupants = Cardinality(Sits(t.users, q)) + lost'[q]
                        /\ t.rooms[q].listed <=> q = Main \/ t.rooms[q].occupants > 0
      BY DEF Counted
    <3>1. /\ rooms[q].occupants = Cardinality(Sits(users, q)) + lost[q]
          /\ rooms[q].listed <=> q = Main \/ rooms[q].occupants > 0
          /\ lost[q] \in Nat
      BY TypesI, TablesAre DEF Counted
    <3>2. q # Nowhere
      BY ChatAssumption
    <3>3. Cardinality(Sits(users, q)) \in Nat
      BY SitsFinite
    <3>4. CASE q = r
      <4>1. Cardinality(Sits(t.users, q)) = Cardinality(Sits(users, q)) - 1
        BY <2>4, <3>2, <3>4, NoUserIs, TypesI, SitsMove
      <4>2. lost'[q] = lost[q] + 1
        BY <2>1, <2>2, <3>4, TypesI
      <4> QED
        BY <2>4, <3>1, <3>3, <4>1, <4>2
    <3>5. CASE q # r
      <4>1. Cardinality(Sits(t.users, q)) = Cardinality(Sits(users, q))
        BY <2>4, <3>2, <3>5, NoUserIs, TypesI, SitsMove
      <4>2. lost'[q] = lost[q]
        BY <2>1, <2>2, <3>5, TypesI
      <4> QED
        BY <2>4, <3>1, <3>3, <4>1, <4>2
    <3> QED
      BY <3>4, <3>5
  <2>8. Good(Tables)' /\ Counted(Tables, lost, {})'
    BY <2>1, <2>5, <2>7, TablesBecome
  <2>9. Invited'
    BY <2>1, <2>4 DEF IInv, Invited
  <2>10. Others'
    BY <2>1, <2>6 DEF IInv, Others
  <2> QED
    BY <2>8, <2>9, <2>10 DEF IInv
<1> QED
  BY <1>4, <1>5

LEMMA StepJoin ==
    ASSUME IInv, NEW c \in Socks, NEW r \in Rooms, Join(c, r)
    PROVE  IInv'
<1> DEFINE t == EnterRoom(Tables, c, r)
<1>1. users[c].on
  BY TypesI DEF Join, UserOK
<1>2. Good(t) /\ Counted(t, lost, {}) /\ GetsIn(Tables, t, c, r)
  BY <1>1, TypesI, TablesAre, EnterGood
<1>3. Step(t, {})
  BY DEF Join
<1> QED
  BY <1>2, <1>3, TypesI, BecomeGood DEF Step, GetsIn

LEMMA StepBye ==
    ASSUME IInv, NEW c \in Socks, Bye(c)
    PROVE  IInv'
<1> DEFINE t == ExitRoom(Tables, c)
<1>1. Good(t) /\ Counted(t, lost, {}) /\ Leaves(Tables, t, c)
  BY TypesI, ExitGood
<1>2. Step(t, {})
  BY DEF Bye
<1> QED
  BY <1>1, <1>2, TypesI, BecomeGood DEF Step, Leaves

LEMMA StepCloak ==
    ASSUME IInv, NEW c \in Socks, Cloak(c)
    PROVE  IInv'
<1> DEFINE u == [users[c] EXCEPT !.cloak = ~ users[c].cloak]
<1>1. u \in User /\ UserOK(c, u) /\ u.room = users[c].room
  BY TypesI DEF User, UserOK
<1>2. Step(SetUser(Tables, c, u), {})
  BY TablesAre DEF Cloak, SetUser
<1> HIDE DEF u
<1> QED
  BY <1>1, <1>2, UserStep

LEMMA StepMakeOp ==
    ASSUME IInv, NEW c \in Socks, NEW d \in Socks, MakeOp(c, d)
    PROVE  IInv'
<1> DEFINE u == [users[d] EXCEPT !.op = ~ users[d].op]
<1>1. users[d].room # Nowhere
  BY DEF MakeOp, MayManage, Here
<1>2. u \in User /\ UserOK(d, u) /\ u.room = users[d].room
  BY <1>1, TypesI DEF User, UserOK
<1>3. Step(SetUser(Tables, d, u), {})
  BY TablesAre DEF MakeOp, SetUser
<1> HIDE DEF u
<1> QED
  BY <1>2, <1>3, UserStep

LEMMA StepKick ==
    ASSUME IInv, NEW c \in Socks, NEW d \in Socks, Kick(c, d)
    PROVE  IInv'
<1> DEFINE out == ExitRoom(Tables, d)
<1>1. lost' = lost /\ up' \in BOOLEAN
  BY DEF Kick
<1>2. Good(out) /\ Counted(out, lost, {}) /\ Leaves(Tables, out, d)
  BY TypesI, ExitGood
<1>3. CASE users[c].room = Main
  <2>1. Become(LogoutUser(out, d), {})
    BY <1>3 DEF Kick
  <2>2. /\ Good(LogoutUser(out, d)) /\ Counted(LogoutUser(out, d), lost, {})
        /\ Moved(Tables, LogoutUser(out, d), d)
    BY TypesI, LogoutGood
  <2> QED
    BY <1>1, <2>1, <2>2, BecomeGood
<1>4. CASE users[c].room # Main
  <2> DEFINE t == EnterRoom(out, d, Main)
  <2>1. Become(t, {})
    BY <1>4 DEF Kick
  <2> HIDE DEF out
  <2>2. out.users[d].on /\ Main \in Rooms
    <3>1. users[d].room # Nowhere
      BY DEF Kick, MayManage, Here
    <3>2. users[d].on
      BY <3>1, TypesI DEF UserOK
    <3> QED
      BY <1>2, <3>2, TablesAre DEF Leaves, Rooms
  <2>3. Good(t) /\ Counted(t, lost, {}) /\ GetsIn(out, t, d, Main)
    BY <1>2, <2>2, TypesI, EnterGood
  <2>4. Moved(Tables, t, d)
    BY <1>2, <2>3, MovedTrans DEF Leaves, GetsIn
  <2> QED
    BY <1>1, <2>1, <2>3, <2>4, BecomeGood
<1> QED
  BY <1>3, <1>4

\* A step of whoever manages a room that changes the room; new is empty or one
\* invitation.
LEMMA RoomStep ==
    ASSUME IInv, NEW c \in Socks, MayManage(c), NEW room \in RoomI, NEW new,
           LET r == users[c].room IN
           /\ room.listed = rooms[r].listed /\ room.occupants = rooms[r].occupants
           /\ \A i \in new : i[2] \in Accounts
           /\ \A a \in room.invite : a \in rooms[r].invite \/ <<r, a>> \in new,
           Step(SetRoomTo(Tables, users[c].room, room), new)
    PROVE  IInv'
<1> DEFINE r == users[c].room
           t == SetRoomTo(Tables, r, room)
<1>1. r \in Rooms /\ rooms[r].listed
  <2>1. r \in Rooms
    BY TypesI DEF MayManage, User
  <2>2. Cardinality(Sits(users, r)) \in Nat \ {0}
    <3>1. c \in Sits(users, r)
      BY DEF Sits
    <3> QED
      BY <3>1, SitsFinite
  <2>3. /\ rooms[r].occupants = Cardinality(Sits(users, r)) + lost[r]
        /\ rooms[r].listed <=> r = Main \/ rooms[r].occupants > 0
        /\ lost[r] \in Nat
    BY <2>1, TypesI, TablesAre DEF Counted
  <2> QED
    BY <2>1, <2>2, <2>3
<1>2. /\ t.users = users /\ t.rooms = [rooms EXCEPT ![r] = room]
      /\ Good(t) /\ Counted(t, lost, {})
  <2>1. /\ Good(Tables) /\ Counted(Tables, lost, {}) /\ lost \in [Rooms -> Nat]
        /\ Tables.rooms[r].listed /\ room.listed
        /\ room.occupants = Tables.rooms[r].occupants
    BY <1>1, TypesI, TablesAre
  <2>2. /\ t.users = Tables.users /\ t.rooms = [Tables.rooms EXCEPT ![r] = room]
        /\ Good(t) /\ Counted(t, lost, {})
    BY <1>1, <2>1, SetRoomGood
  <2> QED
    BY <2>2, TablesAre
<1>3. /\ users' = t.users /\ rooms' = t.rooms /\ who' = who /\ up' = up /\ lost' = lost
      /\ guests' = [q \in Rooms |-> IF ~ t.rooms[q].listed THEN {}
            ELSE (guests[q] \ {who[x] : x \in {d \in In(q) : t.users[d].room # q}})
                 \cup {i[2] : i \in {j \in new : j[1] = q}}]
  BY DEF Step, Become
<1> HIDE DEF t
<1>4. Good(Tables)' /\ Counted(Tables, lost, {})'
  BY <1>2, <1>3, TablesBecome
<1>5. ASSUME NEW q \in Rooms
      PROVE  guests'[q] = IF ~ t.rooms[q].listed THEN {}
                          ELSE guests[q] \cup {i[2] : i \in {j \in new : j[1] = q}}
  <2>1. {who[x] : x \in {d \in In(q) : t.users[d].room # q}} = {}
    BY <1>2 DEF In
  <2>2. guests'[q] = IF ~ t.rooms[q].listed THEN {}
            ELSE (guests[q] \ {who[x] : x \in {d \in In(q) : t.users[d].room # q}})
                 \cup {i[2] : i \in {j \in new : j[1] = q}}
    BY <1>3
  <2> QED
    BY <2>1, <2>2
<1>6. guests' \in [Rooms -> SUBSET Accounts]
  <2>1. \A q \in Rooms : guests'[q] \subseteq Accounts
    <3> SUFFICES ASSUME NEW q \in Rooms, NEW a \in guests'[q] PROVE a \in Accounts
      OBVIOUS
    <3>1. a \in guests[q] \/ \E i \in new : a = i[2]
      <4>1. CASE ~ t.rooms[q].listed
        BY <1>5, <4>1
      <4>2. CASE t.rooms[q].listed
        <5>1. a \in guests[q] \cup {i[2] : i \in {j \in new : j[1] = q}}
          BY <1>5, <4>2
        <5> QED
          BY <5>1
      <4> QED
        BY <4>1, <4>2
    <3>2. guests[q] \subseteq Accounts
      BY DEF IInv, Others
    <3> QED
      BY <3>1, <3>2
  <2>2. guests' = [q \in Rooms |-> guests'[q]]
    BY <1>3
  <2> QED
    BY <2>1, <2>2
<1>7. Invited'
  <2> SUFFICES ASSUME NEW q \in Names, NEW a \in rooms'[q].invite
               PROVE  a \in guests'[q]
    BY DEF Invited
  <2>1. q \in Rooms /\ a \in t.rooms[q].invite /\ t.rooms[q].listed
    BY <1>2, <1>3 DEF Rooms, Good
  <2>2. a \in rooms[q].invite \/ (q = r /\ <<q, a>> \in new)
    BY <1>2, <2>1, TypesI
  <2>3. a \in guests[q] \/ a \in {i[2] : i \in {j \in new : j[1] = q}}
    <3>1. CASE a \in rooms[q].invite
      BY <3>1 DEF IInv, Invited
    <3>2. CASE <<q, a>> \in new
      BY <3>2
    <3> QED
      BY <2>2, <3>1, <3>2
  <2> QED
    BY <1>5, <2>1, <2>3
<1>8. Others'
  BY <1>3, <1>6 DEF IInv, Others
<1> QED
  BY <1>4, <1>7, <1>8 DEF IInv

LEMMA ManagedRoom ==
    ASSUME IInv, NEW c \in Socks, MayManage(c)
    PROVE  users[c].room \in Rooms /\ rooms[users[c].room] \in RoomI
BY TypesI DEF MayManage, User

LEMMA StepInvite ==
    ASSUME IInv, NEW c \in Socks, NEW d \in Socks, Invite(c, d)
    PROVE  IInv'
<1> DEFINE r == users[c].room
           room == [rooms[r] EXCEPT !.invite = rooms[r].invite \cup {who[d]}]
<1>1. MayManage(c) /\ rooms[r] \in RoomI /\ who[d] \in Accounts
  BY TypesI, ManagedRoom DEF Invite, UserOK
<1>2. /\ room \in RoomI /\ room.listed = rooms[r].listed
      /\ room.occupants = rooms[r].occupants /\ room.invite = rooms[r].invite \cup {who[d]}
  BY <1>1 DEF RoomI
<1>3. Step(SetRoomTo(Tables, r, room), {<<r, who[d]>>})
  BY TablesAre DEF Invite, SetRoomTo
<1> HIDE DEF room
<1> QED
  BY <1>1, <1>2, <1>3, RoomStep

LEMMA StepBan ==
    ASSUME IInv, NEW c \in Socks, NEW a, Ban(c, a)
    PROVE  IInv'
<1> DEFINE r == users[c].room
           room == [rooms[r] EXCEPT !.ban = rooms[r].ban \cup {a}]
<1>1. MayManage(c) /\ rooms[r] \in RoomI /\ a \in Accounts
  BY ManagedRoom DEF Ban
<1>2. /\ room \in RoomI /\ room.listed = rooms[r].listed
      /\ room.occupants = rooms[r].occupants /\ room.invite = rooms[r].invite
  BY <1>1 DEF RoomI
<1>3. Step(SetRoomTo(Tables, r, room), {})
  BY TablesAre DEF Ban, SetRoomTo
<1> HIDE DEF room
<1> QED
  BY <1>1, <1>2, <1>3, RoomStep

LEMMA StepUnban ==
    ASSUME IInv, NEW c \in Socks, NEW a, Unban(c, a)
    PROVE  IInv'
<1> DEFINE r == users[c].room
           room == [rooms[r] EXCEPT !.ban = rooms[r].ban \ {a}]
<1>1. MayManage(c) /\ rooms[r] \in RoomI
  BY ManagedRoom DEF Unban
<1>2. /\ room \in RoomI /\ room.listed = rooms[r].listed
      /\ room.occupants = rooms[r].occupants /\ room.invite = rooms[r].invite
  BY <1>1 DEF RoomI
<1>3. Step(SetRoomTo(Tables, r, room), {})
  BY TablesAre DEF Unban, SetRoomTo
<1> HIDE DEF room
<1> QED
  BY <1>1, <1>2, <1>3, RoomStep

LEMMA StepSetRoom ==
    ASSUME IInv, NEW c \in Socks, NEW lock \in BOOLEAN, SetRoom(c, lock)
    PROVE  IInv'
<1> DEFINE r == users[c].room
           room == [rooms[r] EXCEPT !.locked = lock]
<1>1. MayManage(c) /\ rooms[r] \in RoomI
  BY ManagedRoom DEF SetRoom
<1>2. /\ room \in RoomI /\ room.listed = rooms[r].listed
      /\ room.occupants = rooms[r].occupants /\ room.invite = rooms[r].invite
  BY <1>1 DEF RoomI
<1>3. Step(SetRoomTo(Tables, r, room), {})
  BY TablesAre DEF SetRoom, SetRoomTo
<1> HIDE DEF room
<1> QED
  BY <1>1, <1>2, <1>3, RoomStep

LEMMA IInvInit == ASSUME Init PROVE IInv
<1>1. Others
  <2>1. lost \in [Rooms -> 0..MaxLost]
    BY ChatAssumption DEF Init
  <2> QED
    BY <2>1 DEF Init, Others
<1>2. users = [c \in Socks |-> NoUser] /\ rooms \in [Rooms -> RoomI]
  <2>1. NoRoom \in RoomI
    BY DEF NoRoom, RoomI
  <2>2. NewRoom \in RoomI
    BY NewRoomIs DEF RoomI
  <2> QED
    BY <2>1, <2>2 DEF Init
<1>3. ASSUME NEW r \in Rooms
      PROVE  /\ rooms[r].occupants = 0 /\ rooms[r].invite = {}
             /\ rooms[r].listed <=> r = Main
  <2>1. CASE r = Main
    BY <2>1, NewRoomIs DEF Init
  <2>2. CASE r # Main
    BY <2>2 DEF Init, NoRoom
  <2> QED
    BY <2>1, <2>2
<1>4. Good(Tables)
  <2>1. Tables \in TableType
    BY <1>2, NoUserIs DEF Tables, TableType
  <2>2. \A c \in Socks : UserOK(c, users[c])
    BY <1>2, NoUserIs DEF UserOK
  <2> QED
    BY <1>3, <2>1, <2>2, TablesAre DEF Good
<1>5. Counted(Tables, lost, {})
  <2> SUFFICES ASSUME NEW r \in Rooms
               PROVE  /\ rooms[r].occupants = Cardinality(Sits(users, r)) + lost[r]
                      /\ rooms[r].listed <=> r = Main \/ rooms[r].occupants > 0
    BY TablesAre DEF Counted
  <2>1. Sits(users, r) = {}
    BY <1>2, NoUserIs, ChatAssumption DEF Sits
  <2>2. Cardinality(Sits(users, r)) = 0 /\ lost[r] = 0
    BY <2>1, FS_EmptySet DEF Init
  <2> QED
    BY <1>3, <2>2
<1>6. Invited
  BY <1>3 DEF Invited, Rooms
<1> QED
  BY <1>1, <1>4, <1>5, <1>6 DEF IInv

LEMMA IInvNext == ASSUME IInv, Next PROVE IInv'
<1> PICK c \in Socks : Events(c) \/ Commands(c)
  BY DEF Next
<1>1. CASE Events(c)
  BY <1>1, StepAccept, StepLogin, StepRefuse, StepHangUp, StepException DEF Events
<1>2. CASE \E r \in Rooms : Join(c, r)
  BY <1>2, StepJoin
<1>3. CASE Bye(c) \/ Cloak(c)
  BY <1>3, StepBye, StepCloak
<1>4. CASE \E d \in Socks : \/ Kick(c, d) \/ MakeOp(c, d) \/ Invite(c, d)
                            \/ Ban(c, who[d]) \/ Unban(c, who[d])
  BY <1>4, StepKick, StepMakeOp, StepInvite, StepBan, StepUnban
<1>5. CASE \E lock \in BOOLEAN : SetRoom(c, lock)
  BY <1>5, StepSetRoom
<1> QED
  BY <1>1, <1>2, <1>3, <1>4, <1>5 DEF Commands

LEMMA IInvStutter == ASSUME IInv, UNCHANGED vars PROVE IInv'
<1>1. Tables' = Tables /\ who' = who
  BY DEF vars, Tables
<1>2. Good(Tables)'
  BY <1>1 DEF IInv, Good, UserOK
<1>3. Counted(Tables, lost, {})'
  BY <1>1 DEF IInv, Counted, Sits, vars
<1>4. Others' /\ Invited'
  BY DEF IInv, Others, Invited, vars
<1> QED
  BY <1>2, <1>3, <1>4 DEF IInv

\* The inductive invariant.
THEOREM Inductive == Spec => []IInv
<1>1. Init => IInv
  BY IInvInit
<1>2. IInv /\ [Next]_vars => IInv'
  BY IInvNext, IInvStutter
<1> QED
  BY <1>1, <1>2, PTL DEF Spec

-----------------------------------------------------------------------------
(* What follows                                                            *)

LEMMA IInvTypeOK == ASSUME IInv PROVE TypeOK
<1>1. users \in [Socks -> User] /\ rooms \in [Rooms -> RoomI] /\ lost \in [Rooms -> 0..MaxLost]
  BY TablesAre DEF IInv, Good, TableType, Others
<1>2. ASSUME NEW r \in Rooms
      PROVE  rooms[r] \in Room
  <2>1. rooms[r].occupants = Cardinality(Sits(users, r)) + lost[r]
    BY TablesAre DEF IInv, Counted
  <2>2. /\ Cardinality(Sits(users, r)) \in Nat
        /\ Cardinality(Sits(users, r)) <= Cardinality(Socks) /\ Cardinality(Socks) \in Nat
    BY SitsFinite, ChatAssumption, FS_CardinalityType
  <2>3. lost[r] \in 0..MaxLost /\ MaxLost \in Nat
    BY <1>1, ChatAssumption
  <2>4. rooms[r].occupants \in 0..Cardinality(Socks) + MaxLost
    BY <2>1, <2>2, <2>3
  <2> QED
    BY <1>1, <2>4 DEF RoomI, Room
<1>3. rooms \in [Rooms -> Room]
  BY <1>1, <1>2
<1> QED
  BY <1>1, <1>3 DEF IInv, Others, TypeOK

\* TypeOK: the variables keep to their types, however many connections there are.
THEOREM TypeCorrect == Spec => []TypeOK
BY Inductive, IInvTypeOK, PTL

\* RoomsCounted: what a room shows is who is in it, and those that broke; so no
\* list, no field of a person and no count outlives the room it belongs to.
THEOREM RoomsCountedCorrect == Spec => []RoomsCounted
<1>1. IInv => RoomsCounted
  <2> SUFFICES ASSUME IInv, NEW r \in Rooms
               PROVE  /\ rooms[r].occupants = Cardinality(In(r)) + lost[r]
                      /\ rooms[r].listed <=> r = Main \/ rooms[r].occupants > 0
    BY DEF RoomsCounted
  <2>1. In(r) = Sits(users, r)
    BY DEF In, Sits
  <2> QED
    BY <2>1, TablesAre DEF IInv, Counted
<1> QED
  BY <1>1, Inductive, PTL

\* What a step does to the place and to the rights of a connection: only by a
\* join does one get into a room other than the main one, ...
Placed(x) == users'[x].room \in {users[x].room, Nowhere, Main}

\* ... and rights come with a new room, or from before, or from an operator.
Righted(x) ==
    users'[x].op =>
        LET r == users'[x].room IN
        \/ r # Nowhere /\ ~ rooms[r].listed
        \/ /\ users[x].room = r /\ r # Nowhere
           /\ \/ users[x].op
              \/ \E d \in In(r) \ {x} : RoomOp(d)

OnlyMoves(c) == \A d \in Socks \ {c} : users'[d] = users[d]

LEMMA KeptFine ==
    ASSUME IInv, NEW x \in Socks,
           users'[x].room = users[x].room, users'[x].op = users[x].op
    PROVE  Placed(x) /\ Righted(x)
BY TypesI DEF Placed, Righted, UserOK

LEMMA NoRightsFine ==
    ASSUME NEW x \in Socks, users'[x].room \in {users[x].room, Nowhere, Main}, ~ users'[x].op
    PROVE  Placed(x) /\ Righted(x)
BY DEF Placed, Righted

\* Every step but a join.
LEMMA OthersFine ==
    ASSUME IInv, NEW c \in Socks, Events(c) \/ Commands(c),
           ~ \E r \in Rooms : Join(c, r), NEW x \in Socks
    PROVE  Placed(x) /\ Righted(x)
<1>1. ASSUME NEW m \in Socks, OnlyMoves(m),
             \/ users'[m].room = users[m].room /\ users'[m].op = users[m].op
             \/ users'[m].room \in {users[m].room, Nowhere, Main} /\ ~ users'[m].op
      PROVE  Placed(x) /\ Righted(x)
  <2>1. CASE x = m
    BY <1>1, <2>1, KeptFine, NoRightsFine
  <2>2. CASE x # m
    BY <1>1, <2>2, KeptFine DEF OnlyMoves
  <2> QED
    BY <2>1, <2>2
<1>2. ASSUME NEW m \in Socks, NEW u, users' = [users EXCEPT ![m] = u]
      PROVE  OnlyMoves(m) /\ users'[m] = u
  BY <1>2, TypesI DEF OnlyMoves
<1>3. ASSUME NEW m \in Socks, NEW t, users' = t.users, Leaves(Tables, t, m)
      PROVE  OnlyMoves(m) /\ users'[m].room = Nowhere /\ ~ users'[m].op
  BY <1>3, TablesAre DEF OnlyMoves, Leaves, Moved
<1>4. ASSUME NEW m \in Socks, users' = LogoutUser(ExitRoom(Tables, m), m).users
      PROVE  Placed(x) /\ Righted(x)
  <2> DEFINE t == LogoutUser(ExitRoom(Tables, m), m)
  <2>1. /\ Moved(Tables, t, m) /\ t.users = [ExitRoom(Tables, m).users EXCEPT ![m] = NoUser]
        /\ ExitRoom(Tables, m).users \in [Socks -> User]
    BY TypesI, LogoutGood
  <2>2. OnlyMoves(m)
    BY <1>4, <2>1, TablesAre DEF OnlyMoves, Moved
  <2>3. users'[m] = NoUser
    BY <1>4, <2>1
  <2> QED
    BY <1>1, <2>2, <2>3, NoUserIs
<1>5. CASE Accept(c)
  <2>1. users' = [users EXCEPT ![c] = Accepted]
    BY <1>5 DEF Accept, Step, Become, Tables
  <2>2. OnlyMoves(c) /\ users'[c] = Accepted
    BY <1>2, <2>1
  <2> QED
    BY <1>1, <2>2, NoUserIs
<1>6. CASE Login(c)
  <2> DEFINE u == [Accepted EXCEPT !.named = TRUE]
             v == [u EXCEPT !.room = Main]
  <2>1. v.room = Main /\ ~ v.op
    BY NoUserIs DEF User
  <2>2. users' = [[users EXCEPT ![c] = u] EXCEPT ![c].room = Main]
    BY <1>6 DEF Login, Step, Become, Arrive, Tables
  <2>3. users' = [users EXCEPT ![c] = v]
    <3> HIDE DEF u
    <3> QED
      BY <2>2, TypesI
  <2> HIDE DEF v
  <2> QED
    BY <1>1, <1>2, <2>1, <2>3
<1>7. CASE Refuse(c)
  <2>1. users' = [users EXCEPT ![c] = NoUser]
    BY <1>7 DEF Refuse, Step, Become, Tables, LogoutUser
  <2>2. OnlyMoves(c) /\ users'[c] = NoUser
    BY <1>2, <2>1
  <2> QED
    BY <1>1, <2>2, NoUserIs
<1>8. CASE HangUp(c)
  <2>1. users' = LogoutUser(ExitRoom(Tables, c), c).users
    BY <1>8 DEF HangUp, Step, Become
  <2> QED
    BY <1>4, <2>1
<1>9. CASE Exception(c)
  <2>1. users' = [users EXCEPT ![c] = NoUser]
    BY <1>9 DEF Exception, Become, Tables, LogoutUser
  <2>2. OnlyMoves(c) /\ users'[c] = NoUser
    BY <1>2, <2>1
  <2> QED
    BY <1>1, <2>2, NoUserIs
<1>10. CASE Bye(c)
  <2>1. Leaves(Tables, ExitRoom(Tables, c), c)
    BY TypesI, ExitGood
  <2>2. users' = ExitRoom(Tables, c).users
    BY <1>10 DEF Bye, Step, Become
  <2> QED
    BY <1>1, <1>3, <2>1, <2>2
<1>11. CASE Cloak(c)
  <2> DEFINE u == [users[c] EXCEPT !.cloak = ~ users[c].cloak]
  <2>1. users' = [users EXCEPT ![c] = u]
    BY <1>11 DEF Cloak, Step, Become, Tables
  <2>2. u.op = users[c].op /\ u.room = users[c].room
    BY TypesI DEF User
  <2> HIDE DEF u
  <2> QED
    BY ZenonT(60), <1>1, <1>2, <2>1, <2>2
<1>12. ASSUME NEW d \in Socks, Kick(c, d)
       PROVE  Placed(x) /\ Righted(x)
  <2> DEFINE out == ExitRoom(Tables, d)
  <2>1. Good(out) /\ Counted(out, lost, {}) /\ Leaves(Tables, out, d)
    BY TypesI, ExitGood
  <2>2. CASE users[c].room = Main
    <3>1. users' = LogoutUser(out, d).users
      BY <1>12, <2>2 DEF Kick, Become
    <3> QED
      BY <1>4, <3>1
  <2>3. CASE users[c].room # Main
    <3> DEFINE t == EnterRoom(out, d, Main)
    <3>1. users' = t.users
      BY <1>12, <2>3 DEF Kick, Become
    <3> HIDE DEF out
    <3>2. out.users[d].on /\ Main \in Rooms /\ out.rooms[Main].listed
      <4>1. users[d].room # Nowhere
        BY <1>12 DEF Kick, MayManage, Here
      <4>2. users[d].on
        BY <4>1, TypesI DEF UserOK
      <4>3. Main \in Rooms
        BY DEF Rooms
      <4>4. rooms[Main].listed
        BY <4>3, TypesI, TablesAre DEF Counted
      <4> QED
        BY <2>1, <4>2, <4>3, <4>4, TablesAre DEF Leaves
    <3>3. GetsIn(out, t, d, Main)
      BY <2>1, <3>2, TypesI, EnterGood
    <3> HIDE DEF t
    <3>4. OnlyMoves(d)
      BY <2>1, <3>1, <3>3, TablesAre DEF OnlyMoves, Leaves, GetsIn, Moved
    <3>5. users'[d].room \in {Nowhere, Main} /\ ~ users'[d].op
      BY <2>1, <3>1, <3>2, <3>3 DEF Leaves, GetsIn
    <3> QED
      BY <1>1, <3>4, <3>5
  <2> QED
    BY <2>2, <2>3
<1>13. ASSUME NEW d \in Socks, MakeOp(c, d)
       PROVE  Placed(x) /\ Righted(x)
  <2> DEFINE u == [users[d] EXCEPT !.op = ~ users[d].op]
  <2>1. users' = [users EXCEPT ![d] = u]
    BY <1>13 DEF MakeOp, Step, Become, Tables
  <2>2. u.room = users[d].room
    BY TypesI DEF User
  <2> HIDE DEF u
  <2>3. OnlyMoves(d) /\ users'[d] = u
    BY <1>2, <2>1
  <2>4. CASE x # d
    BY <2>3, <2>4, KeptFine DEF OnlyMoves
  <2>5. CASE x = d
    <3>1. /\ users[c].room # Nowhere /\ users[d].room = users[c].room
          /\ RoomOp(c) /\ c \in In(users[d].room) \ {d}
      BY <1>13 DEF MakeOp, MayManage, Here, In
    <3> QED
      BY <2>2, <2>3, <2>5, <3>1 DEF Placed, Righted
  <2> QED
    BY <2>4, <2>5
<1>14. ASSUME users' = users
       PROVE  Placed(x) /\ Righted(x)
  BY <1>14, KeptFine
<1>15. ASSUME NEW d \in Socks, Invite(c, d) \/ Ban(c, who[d]) \/ Unban(c, who[d])
       PROVE  Placed(x) /\ Righted(x)
  <2>1. users' = users
    BY <1>15, TablesAre DEF Invite, Ban, Unban, Step, Become, Tables
  <2> QED
    BY <1>14, <2>1
<1>16. ASSUME NEW lock \in BOOLEAN, SetRoom(c, lock)
       PROVE  Placed(x) /\ Righted(x)
  <2>1. users' = users
    BY <1>16 DEF SetRoom, Step, Become, Tables
  <2> QED
    BY <1>14, <2>1
<1> QED
  BY <1>5, <1>6, <1>7, <1>8, <1>9, <1>10, <1>11, <1>12, <1>13, <1>15, <1>16
     DEF Events, Commands

\* A join.
LEMMA JoinFine ==
    ASSUME IInv, NEW c \in Socks, NEW r \in Rooms, Join(c, r)
    PROVE  /\ OnlyMoves(c) /\ Righted(c)
           /\ \/ users'[c] = users[c]
              \/ users'[c].room = r /\ (rooms[r].listed => ~ Barred(rooms[r], c))
<1> DEFINE t == EnterRoom(Tables, c, r)
<1>1. users[c].on
  BY TypesI DEF Join, UserOK
<1>2. GetsIn(Tables, t, c, r)
  BY <1>1, TypesI, TablesAre, EnterGood
<1>3. users' = t.users
  BY DEF Join, Step, Become
<1> HIDE DEF t
<1>4. OnlyMoves(c)
  BY <1>2, <1>3, TablesAre DEF OnlyMoves, GetsIn, Moved
<1>5. CASE users'[c] = users[c]
  BY <1>4, <1>5, KeptFine
<1>6. CASE users'[c] # users[c]
  <2>1. /\ users'[c].room = r /\ r # Nowhere
        /\ users'[c].op => ~ rooms[r].listed
        /\ rooms[r].listed => ~ Barred(rooms[r], c)
    BY <1>2, <1>3, <1>6, TablesAre, ChatAssumption DEF GetsIn
  <2> QED
    BY <1>4, <2>1 DEF Righted
<1> QED
  BY <1>5, <1>6

\* LockedKeepsOut: an invitation that admits to a locked room was made to this
\* room, for a stay that has not ended.
THEOREM LockedKeepsOutCorrect == Spec => LockedKeepsOut
<1> DEFINE P(c, r) ==
        Enters(c, r) /\ rooms[r].listed /\ rooms[r].locked /\ ~ Sysop(c)
            => who[c] \in guests[r]
<1>1. ASSUME IInv, Next, NEW c \in Socks, NEW r \in Names
      PROVE  P(c, r)
  <2>1. PICK d \in Socks : Events(d) \/ Commands(d)
    BY <1>1 DEF Next
  <2>2. r # Main /\ r # Nowhere /\ r \in Rooms
    BY ChatAssumption DEF Rooms
  <2>3. CASE ~ \E q \in Rooms : Join(d, q)
    BY <1>1, <2>1, <2>2, <2>3, OthersFine DEF Placed, Enters
  <2>4. ASSUME NEW q \in Rooms, Join(d, q)
        PROVE  P(c, r)
    <3>1. /\ OnlyMoves(d)
          /\ \/ users'[d] = users[d]
             \/ users'[d].room = q /\ (rooms[q].listed => ~ Barred(rooms[q], d))
      BY <1>1, <2>4, JoinFine
    <3> SUFFICES ASSUME Enters(c, r), rooms[r].listed, rooms[r].locked, ~ Sysop(c)
                 PROVE  who[c] \in guests[r]
      OBVIOUS
    <3>2. c = d /\ q = r
      BY <3>1 DEF OnlyMoves, Enters
    <3>3. ~ Barred(rooms[r], c)
      BY <3>1, <3>2 DEF Enters
    <3>4. who[c] \in rooms[r].invite
      BY <3>3 DEF Barred
    <3> QED
      BY <1>1, <3>4 DEF IInv, Invited
  <2> QED
    BY <2>3, <2>4
<1>2. IInv /\ [Next]_vars => [\A c \in Socks, r \in Names : P(c, r)]_vars
  BY <1>1
<1> QED
  BY <1>2, Inductive, PTL DEF Spec, LockedKeepsOut

\* RightsStayBehind: the rights of an operator end with the stay.
THEOREM RightsStayBehindCorrect == Spec => RightsStayBehind
<1>1. ASSUME IInv, Next, NEW x \in Socks
      PROVE  Righted(x)
  <2>1. PICK d \in Socks : Events(d) \/ Commands(d)
    BY <1>1 DEF Next
  <2>2. CASE ~ \E q \in Rooms : Join(d, q)
    BY <1>1, <2>1, <2>2, OthersFine
  <2>3. ASSUME NEW q \in Rooms, Join(d, q)
        PROVE  Righted(x)
    <3>1. OnlyMoves(d) /\ Righted(d)
      BY <1>1, <2>3, JoinFine
    <3> QED
      BY <1>1, <3>1, KeptFine DEF OnlyMoves
  <2> QED
    BY <2>2, <2>3
<1>2. IInv /\ [Next]_vars => [\A c \in Socks : Righted(c)]_vars
  BY <1>1
<1> QED
  BY <1>2, Inductive, PTL DEF Spec, RightsStayBehind, Righted
=============================================================================
