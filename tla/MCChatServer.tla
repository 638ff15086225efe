---------------------------- MODULE MCChatServer ----------------------------
(* Small instances of ChatServer for TLC.                                  *)
EXTENDS ChatServer, TLC

CONSTANTS k1, k2, k3, ann, bob, op, guest, Other

\* Two connections of one user and one of another; a chat sysop with a user,
\* and with a guest.
Visitors == {(k1 :> ann) @@ (k2 :> ann) @@ (k3 :> bob),
             (k1 :> op) @@ (k2 :> ann) @@ (k3 :> Nobody),
             (k1 :> op) @@ (k2 :> guest) @@ (k3 :> Nobody)}

\* Connections break in one of the rooms.
LostInOne == \A r, q \in Rooms : lost[r] > 0 /\ lost[q] > 0 => r = q
VisitSpec == Init /\ [][Next /\ LostInOne']_vars
=============================================================================
