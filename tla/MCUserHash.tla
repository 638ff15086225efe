----------------------------- MODULE MCUserHash -----------------------------
(* Small instances of UserHash for TLC.                                    *)
EXTENDS UserHash, TLC

CONSTANTS p1, p2, s1, s2, s3, h0, h1, x, y, o, old, older

\* All accounts share a bucket; the free slots have another.
HashApart == (Empty :> h0) @@ [id \in New \cup Old |-> h1]
\* y and o share the bucket of the free slots.
HashShared == [id \in {Empty, y, o} |-> h0] @@ [id \in {x, old, older} |-> h1]

\* s2 is o's, on the chain of the free slots s1 and s3.
OneUser == (s1 :> Empty) @@ (s2 :> o) @@ (s3 :> Empty)
OneUserLink == (h0 :> s1) @@ (h1 :> Nil) @@ (s1 :> s2) @@ (s2 :> s3) @@ (s3 :> Nil)

\* s1 and s2 are expired accounts on one chain, s3 is free.
TwoUsers == (s1 :> old) @@ (s2 :> older) @@ (s3 :> Empty)
TwoUsersLink == (h0 :> s3) @@ (h1 :> s1) @@ (s1 :> s2) @@ (s2 :> Nil) @@ (s3 :> Nil)
Second == INSTANCE UserHash WITH InitUser <- TwoUsers, InitLink <- TwoUsersLink

\* s1 is an expired account, s2 is free.
Full == (s1 :> o) @@ (s2 :> Empty)
FullLink == (h0 :> s2) @@ (h1 :> s1) @@ (s1 :> Nil) @@ (s2 :> Nil)

\* p is inside kill_user.
Kills(p) == call[p].done = "k_record" /\ call[p].slot # Nil

\* kill_user runs while nobody else is at the table (uhash_kill has the rest)
\* and no chain is torn.
KillAlone == \A p \in Procs :
    Kills(p) => ~ torn /\ \A q \in Procs \ {p} : pc[q] = "idle"

\* kill_user runs while others search, but nobody else relinks or writes a record.
KillAmongSearches == \A p \in Procs :
    Kills(p) => ~ torn /\ \A q \in Procs \ {p} :
                    pc[q] \in {"idle", "s_cmp", "s_next", "r_check", "r_spare",
                               "r_clean", "r_lock", "r_take"}

\* It does not die.
KillEnds == \A p \in Procs : Kills(p) => ~ Crash(p)

\* Of a chain that a dead process left torn, one at a time makes use.
TornAlone == torn => \E p \in Procs : pc[p] = "idle"

VARIABLE start   \* the table that was there at the beginning

AnyTable == (start = "one" /\ Init) \/ (start = "two" /\ Second!Init)

NextFrom ==
    /\ Next /\ TornAlone' /\ UNCHANGED start
    /\ \/ start = "one" /\ KillAlone'
       \/ start = "two" /\ KillAmongSearches' /\ KillEnds

Unbound == start = "one" /\ Init /\ [][Next /\ UNCHANGED start]_<<vars, start>>
AnyStart == AnyTable /\ [][NextFrom]_<<vars, start>>

Registrants == Permutations(Procs)
=============================================================================
