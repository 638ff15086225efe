----------------------------- MODULE ChatServer -----------------------------
(***************************************************************************)
(* The chat server (util/xchatd.c): connections, rooms and who may be in   *)
(* which.  One process serves all connections, one line of input after     *)
(* another, in the order select() finds them; a step is one line, or one   *)
(* event of a connection, with everything the server does about it.        *)
(* Messages, topics, chat ids and the lists of ignored people are left     *)
(* out: a command names its target by the connection it means.             *)
(***************************************************************************)
EXTENDS Integers, FiniteSets

CONSTANTS
    Socks,    \* connections
    Accounts, Sysops, Guests,
    Nobody,   \* holder of a connection that is not used
    Castings, \* who the others belong to, one of these functions
    Main,     \* the room "main"
    Names,    \* other names for rooms
    Nowhere,  \* NULL
    MaxLost   \* how many connections may break with an exception (bound)

Rooms == Names \cup {Main}

ASSUME ChatAssumption ==
    /\ Sysops \subseteq Accounts /\ Guests \subseteq Accounts \ Sysops
    /\ Castings \subseteq [Socks -> Accounts \cup {Nobody}] /\ Nobody \notin Accounts
    /\ Main \notin Names /\ Nowhere \notin Rooms
    /\ IsFiniteSet(Socks)
    /\ MaxLost \in Nat

VARIABLES
    who,    \* the account of the person at each connection
    users,  \* mainuser, by connection
    rooms,  \* mainroom and the list behind it, by name
    up,     \* the server has not used memory that it freed
    lost,   \* history: connections freed while they were in each room
    guests  \* history: who was invited to each room and has not left it since

vars == <<who, users, rooms, up, lost, guests>>

-----------------------------------------------------------------------------
\* named: has a chat id; op: PERM_ROOMOP; cloak: PERM_CLOAK.
NoUser == [on |-> FALSE, named |-> FALSE, room |-> Nowhere, op |-> FALSE, cloak |-> FALSE]
Accepted == [NoUser EXCEPT !.on = TRUE]
User == [on : BOOLEAN, named : BOOLEAN, room : Rooms \cup {Nowhere},
         op : BOOLEAN, cloak : BOOLEAN]

NoRoom == [listed |-> FALSE, occupants |-> 0, locked |-> FALSE, invite |-> {}, ban |-> {}]
NewRoom == [NoRoom EXCEPT !.listed = TRUE]
Room == [listed : BOOLEAN, occupants : 0..Cardinality(Socks) + MaxLost, locked : BOOLEAN,
         invite : SUBSET Accounts, ban : SUBSET Accounts]

Sysop(c) == who[c] \in Sysops                             \* CHATSYSOP
RoomOp(c) == users[c].op \/ Sysop(c)                      \* ROOMOP
Restricted(c) == who[c] \in Guests /\ ~ users[c].op       \* uflag == 0

In(r) == {c \in Socks : users[c].room = r}

Init ==
    /\ who \in Castings
    /\ users = [c \in Socks |-> NoUser]
    /\ rooms = [r \in Rooms |-> IF r = Main THEN NewRoom ELSE NoRoom]
    /\ up = TRUE
    /\ lost = [r \in Rooms |-> 0]
    /\ guests = [r \in Rooms |-> {}]

-----------------------------------------------------------------------------
(* Functions of the server, from its tables s to those they leave          *)

Tables == [users |-> users, rooms |-> rooms]

\* Variant: only a logout takes the rights of an operator away.
ExitRoomAsOp(s, c) ==
    LET r == s.users[c].room  room == s.rooms[r]  n == room.occupants - 1 IN
    IF r = Nowhere THEN s
    ELSE [users |-> [s.users EXCEPT ![c].room = Nowhere],
          rooms |-> [s.rooms EXCEPT
              ![r] = IF n > 0 THEN [room EXCEPT !.occupants = n,
                                                !.invite = room.invite \ {who[c]}]
                     ELSE IF r = Main THEN [room EXCEPT !.occupants = n]
                     ELSE NoRoom]]

\* Variant: an invitation is good for ever.
ExitRoomInvited(s, c) ==
    LET r == s.users[c].room  room == s.rooms[r]  n == room.occupants - 1 IN
    IF r = Nowhere THEN s
    ELSE [users |-> [s.users EXCEPT ![c].room = Nowhere, ![c].op = FALSE],
          rooms |-> [s.rooms EXCEPT
              ![r] = IF n > 0 \/ r = Main THEN [room EXCEPT !.occupants = n] ELSE NoRoom]]

\* exit_room: whoever leaves last closes the room, unless it is the main one.
ExitRoom(s, c) ==
    LET r == s.users[c].room  room == s.rooms[r]  n == room.occupants - 1 IN
    IF r = Nowhere THEN s
    ELSE [users |-> [s.users EXCEPT ![c].room = Nowhere, ![c].op = FALSE],
          rooms |-> [s.rooms EXCEPT
              ![r] = IF n > 0 THEN [room EXCEPT !.occupants = n,
                                                !.invite = room.invite \ {who[c]}]
                     ELSE IF r = Main THEN [room EXCEPT !.occupants = n]
                     ELSE NoRoom]]

\* arrive_room
Arrive(s, c, r) ==
    [users |-> [s.users EXCEPT ![c].room = r],
     rooms |-> [s.rooms EXCEPT ![r].occupants = @ + 1]]

Barred(room, c) ==
    /\ ~ Sysop(c)
    /\ who[c] \in room.ban \/ (room.locked /\ who[c] \notin room.invite)

\* Variant: arrive_room before exit_room.
EnterBeforeExit(s, c, r) ==
    LET make == ~ s.rooms[r].listed
        made == [s EXCEPT !.rooms[r] = NewRoom]
    IN  IF make THEN [ExitRoom(Arrive(made, c, r), c) EXCEPT !.users[c].op = TRUE]
        ELSE IF s.users[c].room = r \/ Barred(s.rooms[r], c) THEN s
        ELSE ExitRoom(Arrive(s, c, r), c)

\* enter_room: who makes a room is its operator.
EnterRoom(s, c, r) ==
    LET make == ~ s.rooms[r].listed
        made == [s EXCEPT !.rooms[r] = NewRoom]
    IN  IF make THEN [Arrive(ExitRoom(made, c), c, r) EXCEPT !.users[c].op = TRUE]
        ELSE IF s.users[c].room = r \/ Barred(s.rooms[r], c) THEN s
        ELSE Arrive(ExitRoom(s, c), c, r)

\* logout_user
LogoutUser(s, c) == [s EXCEPT !.users[c] = NoUser]

-----------------------------------------------------------------------------
(* Events of connections                                                   *)

\* The tables become s; the invitations of new are made.
Become(s, new) ==
    /\ users' = s.users /\ rooms' = s.rooms
    /\ guests' = [r \in Rooms |-> IF ~ s.rooms[r].listed THEN {}
            ELSE (guests[r] \ {who[c] : c \in {d \in In(r) : s.users[d].room # r}})
                 \cup {i[2] : i \in {j \in new : j[1] = r}}]
    /\ UNCHANGED who

Step(s, new) == Become(s, new) /\ UNCHANGED <<up, lost>>

Accept(c) ==
    /\ ~ users[c].on /\ who[c] # Nobody
    /\ Step([Tables EXCEPT !.users[c] = Accepted], {})

\* login_user, for who is in no room: a new connection, one that said /bye, or
\* one that was put out.
Login(c) ==
    /\ users[c].on /\ users[c].room = Nowhere
    /\ Step(Arrive([Tables EXCEPT !.users[c] = [Accepted EXCEPT !.named = TRUE]], c, Main),
            {})

\* Any other line from who is in no room, and a login with a wrong password.
Refuse(c) ==
    /\ users[c].on /\ users[c].room = Nowhere
    /\ Step(LogoutUser(Tables, c), {})

\* recv() <= 0
HangUp(c) ==
    /\ users[c].on
    /\ Step(LogoutUser(ExitRoom(Tables, c), c), {})

\* The connection is in xset: logout_user without exit_room.
Exception(c) ==
    LET r == users[c].room  s == LogoutUser(Tables, c) IN
    /\ users[c].on
    /\ IF r = Nowhere THEN Become(s, {}) /\ UNCHANGED lost
       ELSE /\ lost[r] < MaxLost
            /\ users' = s.users /\ rooms' = s.rooms
            /\ lost' = [lost EXCEPT ![r] = @ + 1]
            /\ UNCHANGED <<who, guests>>
    /\ UNCHANGED up

-----------------------------------------------------------------------------
(* Commands                                                                *)

Join(c, r) ==
    /\ users[c].room # Nowhere /\ ~ Restricted(c)
    /\ Step(EnterRoom(Tables, c, r), {})

\* The connection stays.
Bye(c) ==
    /\ users[c].room # Nowhere
    /\ Step(ExitRoom(Tables, c), {})

Cloak(c) ==
    /\ users[c].room # Nowhere /\ Sysop(c)
    /\ Step([Tables EXCEPT !.users[c].cloak = ~ @], {})

\* d is in the room of c, and c may see it.
Here(c, d) == users[d].room = users[c].room /\ ~ users[d].cloak
MayManage(c) == users[c].room # Nowhere /\ RoomOp(c)

\* chat_kick; the main loop has taken the next connection of its list before
\* the command, and cuser_serve writes to the one that gave it.
Kick(c, d) ==
    LET out == ExitRoom(Tables, d) IN
    /\ MayManage(c) /\ Here(c, d) /\ ~ Sysop(d)
    /\ IF users[c].room = Main THEN Become(LogoutUser(out, d), {})
       ELSE Become(EnterRoom(out, d, Main), {})
    /\ up' \in IF users[c].room # Main THEN {TRUE}
               ELSE IF d = c THEN {FALSE} ELSE BOOLEAN
    /\ UNCHANGED lost

\* chat_makeop, for a chat sysop too, who does not notice
MakeOp(c, d) ==
    /\ MayManage(c) /\ Here(c, d) /\ c # d
    /\ Step([Tables EXCEPT !.users[d].op = ~ @], {})

Invite(c, d) ==
    LET r == users[c].room IN
    /\ MayManage(c) /\ users[d].named
    /\ Step([Tables EXCEPT !.rooms[r].invite = @ \cup {who[d]}], {<<r, who[d]>>})

\* chat_ban, by chat id or user id; nobody is put out.  To ban one who never
\* connects changes nothing.
Ban(c, a) ==
    /\ MayManage(c) /\ a \in Accounts
    /\ Step([Tables EXCEPT !.rooms[users[c].room].ban = @ \cup {a}], {})

Unban(c, a) ==
    /\ MayManage(c)
    /\ Step([Tables EXCEPT !.rooms[users[c].room].ban = @ \ {a}], {})

\* chat_setroom, +l and -l
SetRoom(c, lock) ==
    /\ MayManage(c)
    /\ Step([Tables EXCEPT !.rooms[users[c].room].locked = lock], {})

Events(c) == Accept(c) \/ Login(c) \/ Refuse(c) \/ HangUp(c) \/ Exception(c)
Commands(c) ==
    \/ \E r \in Rooms : Join(c, r)
    \/ Bye(c) \/ Cloak(c)
    \/ \E d \in Socks : \/ Kick(c, d) \/ MakeOp(c, d) \/ Invite(c, d)
                      \/ Ban(c, who[d]) \/ Unban(c, who[d])
    \/ \E lock \in BOOLEAN : SetRoom(c, lock)

Next == up /\ \E c \in Socks : Events(c) \/ Commands(c)

Spec == Init /\ [][Next]_vars

-----------------------------------------------------------------------------
(* Properties                                                              *)

\* Every variable keeps to its type.
TypeOK ==
    /\ who \in Castings
    /\ users \in [Socks -> User]
    /\ rooms \in [Rooms -> Room]
    /\ up \in BOOLEAN
    /\ lost \in [Rooms -> 0..MaxLost]
    /\ guests \in [Rooms -> SUBSET Accounts]

\* The number of people that a room shows, and that decides when its memory is
\* freed, is that of the connections that point to it and of those that broke
\* with an exception; so nobody points to a room that was freed, and no room
\* but "main" stays when the last has left, through moves, kicks out of one
\* room into another and kicks that "main" refuses (xchatd.c:686-755,
\* 1252-1348, 1746-1789).
RoomsCounted == \A r \in Rooms :
    /\ rooms[r].occupants = Cardinality(In(r)) + lost[r]
    /\ rooms[r].listed <=> r = Main \/ rooms[r].occupants > 0

Enters(c, r) == users[c].room # r /\ users'[c].room = r

\* Nobody but a chat sysop gets into a locked room by an invitation that was
\* used for an earlier stay, or was made to an earlier room of that name
\* (xchatd.c:729-731, 741-754, 1332-1338).
LockedKeepsOut ==
    [][\A c \in Socks, r \in Names :
        Enters(c, r) /\ rooms[r].listed /\ rooms[r].locked /\ ~ Sysop(c)
            => who[c] \in guests[r]]_vars

\* The rights of an operator stay behind in the room where they were given,
\* however its operator leaves it: whoever has them has just made the room,
\* had them in the same room before, or has them from an operator who was
\* there (xchatd.c:694-695, 1344-1345, 1551, 1832-1834).
RightsStayBehind ==
    [][\A c \in Socks : users'[c].op =>
        LET r == users'[c].room IN
        \/ r # Nowhere /\ ~ rooms[r].listed
        \/ /\ users[c].room = r /\ r # Nowhere
           /\ \/ users[c].op
              \/ \E d \in In(r) \ {c} : RoomOp(d)]_vars
=============================================================================
