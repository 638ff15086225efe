------------------------------ MODULE UserHash ------------------------------
(***************************************************************************)
(* The user table: the userid array and its hash chains in shared memory   *)
(* (add_to_uhash, remove_from_uhash, dosearchuser, setuserid of            *)
(* common/bbs/cache.c), the .PASSWDS records behind it, and the two calls  *)
(* that give a slot to an account and take it back: setupnewuser of        *)
(* mbbsd/register.c, under the passwd semaphore, and kill_user of          *)
(* mbbsd/user.c, under no lock.  A free slot is one whose userid is "";    *)
(* those that registrations can take hang on the chain of that string.     *)
(*                                                                         *)
(* Chains are walked link by link: one step reads or writes one word of    *)
(* the shared memory, or is one system call.  Only the last statement of   *)
(* remove_from_uhash is one step (RemoveUnlink), although it tests a word, *)
(* reads a second and writes the first.                                    *)
(***************************************************************************)
EXTENDS Integers, FiniteSets

CONSTANTS
    Procs,    \* processes at the registration screen or cleaning up
    Slots,    \* user numbers
    Buckets,  \* 1 << HASH_BITS
    Nil,      \* -1
    New,      \* ids people register
    Old,      \* ids of expired accounts
    Empty,    \* the id ""
    Hash,     \* StringHash() % (1 << HASH_BITS) of every id
    InitUser, \* userid of every slot at start
    InitLink, \* hash_head and next_in_hash at start, as uhash_loader builds
              \* them: a slot on a chain is linked to once
    Nobody,   \* holder of a semaphore that is free
    Ops       \* what processes do in this instance

Ids == New \cup Old \cup {Empty}
Cells == Buckets \cup Slots

ASSUME TableAssumption ==
    /\ Buckets \cap Slots = {} /\ Nil \notin Cells
    /\ New \cap Old = {} /\ Empty \notin New \cup Old
    /\ Hash \in [Ids -> Buckets]
    /\ InitUser \in [Slots -> Old \cup {Empty}]
    /\ InitLink \in [Cells -> Slots \cup {Nil}]
    /\ \E S \in SUBSET Cells :
          /\ Buckets \subseteq S /\ \A c \in S : InitLink[c] \in S \cup {Nil}
          /\ \A c, d \in S : InitLink[c] = InitLink[d] /\ c # d => InitLink[c] = Nil
    /\ \A n \in Slots : InitLink[n] # n
    /\ IsFiniteSet(Slots)
    /\ Nobody \notin Procs
    /\ Ops \subseteq {"register", "kill", "crash"}

VARIABLES
    userid,  \* SHM->userid
    link,    \* SHM->hash_head[h] and SHM->next_in_hash[n], by cell
    passwd,  \* the id in each record of .PASSWDS
    sem,     \* who holds passwd_lock()
    pc,      \* what each process is about to do
    call,    \* its locals
    granted, \* history: slots for which setupnewuser returned, with the id
    torn,    \* history: a process has died between the two words that AddLink
             \* and AddEnd write, so that a chain runs on into another one
    astray   \* history: processes whose search stood on the slot of an account
             \* as kill_user moved it to the chain of the free slots

vars == <<userid, link, passwd, sem, pc, call, granted, torn, astray>>

-----------------------------------------------------------------------------
\* id: of the registration; slot: uid; cell: p of the walk that links or
\* unlinks; at: p of dosearchuser; key: what it looks for; times: of its
\* loop; ret: where it returns to; put: the id setuserid is to set; done:
\* where setuserid returns to; there: (history) a slot that had the key,
\* on its chain, when the search began.
Call == [id : Ids, slot : Slots \cup {Nil}, cell : Cells \cup {Nil},
         at : Slots \cup {Nil}, key : Ids, times : 0..Cardinality(Slots),
         ret : {"", "r_check", "r_spare", "r_take"}, put : Ids,
         done : {"", "r_record", "k_record"}, there : BOOLEAN]
NoCall == [id |-> Empty, slot |-> Nil, cell |-> Nil, at |-> Nil,
           key |-> Empty, times |-> 0, ret |-> "", put |-> Empty, done |-> "",
           there |-> FALSE]

Labels == {"idle", "s_cmp", "s_next", "r_check", "r_spare", "r_clean",
           "r_lock", "r_take", "r_record", "r_unlock", "u_rmwalk",
           "u_unlink", "u_name", "u_addwalk", "u_link", "u_end", "k_record"}

Goto(p, l) == pc' = [pc EXCEPT ![p] = l]
Return(p) == Goto(p, "idle") /\ call' = [call EXCEPT ![p] = NoCall]

\* exit(): the kernel undoes the semaphore (SEM_UNDO).
Exit(p) == Return(p) /\ sem' = IF sem = p THEN Nobody ELSE sem

\* The slots on the chain that starts at cell c.
Walk(c) ==
    LET w[k \in 0..Cardinality(Slots)] ==
            IF k = 0 THEN link[c]
            ELSE IF w[k - 1] = Nil THEN Nil ELSE link[w[k - 1]]
    IN {w[k] : k \in 0..Cardinality(Slots)} \ {Nil}

OnChain(n) == n \in Walk(Hash[userid[n]])

Init ==
    /\ userid = InitUser
    /\ link = InitLink
    /\ passwd = InitUser
    /\ sem = Nobody
    /\ pc = [p \in Procs |-> "idle"]
    /\ call = [p \in Procs |-> NoCall]
    /\ granted = {}
    /\ torn = FALSE
    /\ astray = {}

-----------------------------------------------------------------------------
(* dosearchuser(key): the slot in .at when it returns to .ret, Nil for 0.  *)

\* Variant: the loop counter of the last search is not reset.
SearchAgain(p, key, ret) ==
    /\ call' = [call EXCEPT ![p].key = key, ![p].ret = ret,
            ![p].at = link[Hash[key]],
            ![p].there = \E n \in Slots : userid[n] = key /\ OnChain(n)]
    /\ Goto(p, "s_cmp")

Search(p, key, ret) ==
    /\ call' = [call EXCEPT ![p].key = key, ![p].ret = ret, ![p].times = 0,
            ![p].at = link[Hash[key]],
            ![p].there = \E n \in Slots : userid[n] = key /\ OnChain(n)]
    /\ Goto(p, "s_cmp")

SearchEnds(p) == Goto(p, call[p].ret)

SearchCmp(p) ==
    /\ pc[p] = "s_cmp"
    /\ IF call[p].at = Nil \/ userid[call[p].at] = call[p].key
       THEN SearchEnds(p)
       ELSE Goto(p, "s_next")
    /\ UNCHANGED <<userid, link, passwd, sem, call, granted>>

\* The loop gives up after MAX_USERS links: a walk may not be a chain.
SearchNext(p) ==
    LET last == call[p].times + 1 = Cardinality(Slots) IN
    /\ pc[p] = "s_next"
    /\ call' = [call EXCEPT ![p].at = IF last THEN Nil ELSE link[@],
                            ![p].times = @ + 1]
    /\ Goto(p, IF last THEN call[p].ret ELSE "s_cmp")
    /\ UNCHANGED <<userid, link, passwd, sem, granted>>

-----------------------------------------------------------------------------
(* setuserid(slot, put): remove_from_uhash, add_to_uhash                   *)

SetUserid(p, n, id, done) ==
    /\ call' = [call EXCEPT ![p].slot = n, ![p].put = id, ![p].done = done,
            ![p].cell = Hash[userid[n]], ![p].at = Nil, ![p].times = 0]
    /\ Goto(p, "u_rmwalk")

\* for (; *p != -1 && *p != n; p = &next_in_hash[*p])
RemoveWalk(p) ==
    LET v == link[call[p].cell]  last == call[p].times = Cardinality(Slots) IN
    /\ pc[p] = "u_rmwalk"
    /\ \/ last /\ Exit(p)
       \/ ~ last /\ v \in {Nil, call[p].slot} /\ Goto(p, "u_unlink")
          /\ call' = [call EXCEPT ![p].times = 0] /\ UNCHANGED sem
       \/ ~ last /\ v \notin {Nil, call[p].slot}
          /\ call' = [call EXCEPT ![p].cell = v, ![p].times = @ + 1]
          /\ UNCHANGED <<pc, sem>>
    /\ UNCHANGED <<userid, link, passwd, granted>>

\* Variant: what is behind n is forgotten.
UnlinkedLast(n, c) == IF link[c] = n THEN [link EXCEPT ![c] = Nil] ELSE link

Unlinked(n, c) == IF link[c] = n THEN [link EXCEPT ![c] = link[n]] ELSE link

RemoveUnlink(p) ==
    /\ pc[p] = "u_unlink"
    /\ link' = Unlinked(call[p].slot, call[p].cell)
    /\ Goto(p, "u_name")
    /\ UNCHANGED <<userid, passwd, sem, call, granted>>

\* add_to_uhash: the name is copied before the walk.
AddName(p) ==
    /\ pc[p] = "u_name"
    /\ userid' = [userid EXCEPT ![call[p].slot] = call[p].put]
    /\ call' = [call EXCEPT ![p].cell = Hash[call[p].put]]
    /\ Goto(p, "u_addwalk")
    /\ UNCHANGED <<link, passwd, sem, granted>>

\* for (; *p != -1; p = &next_in_hash[*p])
AddWalk(p) ==
    LET v == link[call[p].cell]  last == call[p].times = Cardinality(Slots) IN
    /\ pc[p] = "u_addwalk"
    /\ \/ last /\ Exit(p)
       \/ ~ last /\ v = Nil /\ Goto(p, "u_link") /\ UNCHANGED <<call, sem>>
       \/ ~ last /\ v # Nil
          /\ call' = [call EXCEPT ![p].cell = v, ![p].times = @ + 1]
          /\ UNCHANGED <<pc, sem>>
    /\ UNCHANGED <<userid, link, passwd, granted>>

\* SHM->next_in_hash[*p = n] = -1 writes two words, *p first.
AddLink(p) ==
    /\ pc[p] = "u_link"
    /\ link' = [link EXCEPT ![call[p].cell] = call[p].slot]
    /\ Goto(p, "u_end")
    /\ UNCHANGED <<userid, passwd, sem, call, granted>>

AddEnd(p) ==
    /\ pc[p] = "u_end"
    /\ link' = [link EXCEPT ![call[p].slot] = Nil]
    /\ Goto(p, call[p].done)
    /\ UNCHANGED <<userid, passwd, sem, call, granted>>

-----------------------------------------------------------------------------
(* setupnewuser                                                            *)

CallRegister(p) ==
    /\ "register" \in Ops
    /\ pc[p] = "idle"
    /\ \E id \in New :
        /\ call' = [call EXCEPT ![p].id = id, ![p].key = id,
                ![p].ret = "r_check", ![p].at = link[Hash[id]],
                ![p].there = \E n \in Slots : userid[n] = id /\ OnChain(n)]
        /\ Goto(p, "s_cmp")
    /\ UNCHANGED <<userid, link, passwd, sem, granted>>

\* Somebody has the id: exit.  Otherwise look for a free slot, outside the
\* lock.
RegisterCheck(p) ==
    /\ pc[p] = "r_check"
    /\ IF call[p].at # Nil THEN Return(p) ELSE Search(p, Empty, "r_spare")
    /\ UNCHANGED <<userid, link, passwd, sem, granted>>

RegisterSpare(p) ==
    /\ pc[p] = "r_spare"
    /\ Goto(p, IF call[p].at # Nil THEN "r_lock" ELSE "r_clean")
    /\ UNCHANGED <<userid, link, passwd, sem, call, granted>>

\* check_and_expire_account on the records of .PASSWDS: kill_user on those
\* that have expired.  The loop ends, or was not due (.fresh).
RegisterClean(p) ==
    /\ pc[p] = "r_clean"
    /\ \/ /\ Goto(p, "r_lock")
          /\ UNCHANGED call
       \/ /\ "kill" \in Ops
          /\ \E n \in Slots : passwd[n] \in Old /\ SetUserid(p, n, Empty, "k_record")
    /\ UNCHANGED <<userid, link, passwd, sem, granted>>

\* semop(-1)
PasswdLock(p) == sem = Nobody /\ sem' = p

\* Variant: the free slot found before the lock is taken.
RegisterLockStale(p) ==
    /\ pc[p] = "r_lock"
    /\ PasswdLock(p)
    /\ Goto(p, "r_take")
    /\ UNCHANGED <<userid, link, passwd, call, granted>>

RegisterLock(p) ==
    /\ pc[p] = "r_lock"
    /\ PasswdLock(p)
    /\ Search(p, Empty, "r_take")
    /\ UNCHANGED <<userid, link, passwd, granted>>

\* No free slot: unlock, exit.
RegisterTake(p) ==
    /\ pc[p] = "r_take"
    /\ IF call[p].at = Nil
       THEN Exit(p)
       ELSE SetUserid(p, call[p].at, call[p].id, "r_record") /\ UNCHANGED sem
    /\ UNCHANGED <<userid, link, passwd, granted>>

\* passwd_sync_update
RegisterRecord(p) ==
    /\ pc[p] = "r_record"
    /\ passwd' = [passwd EXCEPT ![call[p].slot] = call[p].id]
    /\ Goto(p, "r_unlock")
    /\ UNCHANGED <<userid, link, sem, call, granted>>

RegisterUnlock(p) ==
    /\ pc[p] = "r_unlock"
    /\ sem' = IF sem = p THEN Nobody ELSE sem
    /\ granted' = granted \cup {<<call[p].slot, call[p].id>>}
    /\ Return(p)
    /\ UNCHANGED <<userid, link, passwd>>

-----------------------------------------------------------------------------
(* kill_user on an expired account, from the cleaning loop above or from   *)
(* an administrator's account listing                                      *)

CallKill(p) ==
    /\ "kill" \in Ops
    /\ pc[p] = "idle"
    /\ \E n \in Slots : passwd[n] \in Old /\ SetUserid(p, n, Empty, "k_record")
    /\ UNCHANGED <<userid, link, passwd, sem, granted>>

\* passwd_sync_update with a record of zeros; the cleaning loop goes on
KillRecord(p) ==
    /\ pc[p] = "k_record"
    /\ passwd' = [passwd EXCEPT ![call[p].slot] = Empty]
    /\ IF call[p].id = Empty THEN Return(p)
       ELSE Goto(p, "r_clean") /\ call' = [call EXCEPT ![p].slot = Nil]
    /\ UNCHANGED <<userid, link, sem, granted>>

\* The searches under way after a step of p whose slot moved under them, now or
\* before: from there they follow another chain.
Astray(p) ==
    {q \in Procs :
        /\ pc'[q] \in {"s_cmp", "s_next"}
        /\ \/ q \in astray
           \/ /\ pc[p] = "u_end" /\ call[p].done = "k_record"
              /\ pc[q] \in {"s_cmp", "s_next"} /\ call[q].at = call[p].slot}

\* The process dies between two accesses.
Crash(p) ==
    /\ "crash" \in Ops
    /\ pc[p] # "idle"
    /\ Exit(p)
    /\ torn' = (torn \/ pc[p] = "u_end")
    /\ astray' = Astray(p)
    /\ UNCHANGED <<userid, link, passwd, granted>>

SetUseridSteps(p) == RemoveWalk(p) \/ RemoveUnlink(p) \/ AddName(p)
                       \/ AddWalk(p) \/ AddLink(p) \/ AddEnd(p)
SetupNewUser(p) == CallRegister(p) \/ RegisterCheck(p) \/ RegisterSpare(p)
                     \/ RegisterClean(p) \/ RegisterLock(p) \/ RegisterTake(p)
                     \/ RegisterRecord(p) \/ RegisterUnlock(p)
KillUser(p) == CallKill(p) \/ KillRecord(p)

Alive(p) ==
    /\ \/ SearchCmp(p) \/ SearchNext(p) \/ SetUseridSteps(p)
       \/ SetupNewUser(p) \/ KillUser(p)
    /\ UNCHANGED torn /\ astray' = Astray(p)

Next == \E p \in Procs : Alive(p) \/ Crash(p)

Spec == Init /\ [][Next]_vars

-----------------------------------------------------------------------------
(* Properties                                                              *)

\* Every variable keeps to its type.
TypeOK ==
    /\ userid \in [Slots -> Ids]
    /\ link \in [Cells -> Slots \cup {Nil}]
    /\ passwd \in [Slots -> Ids]
    /\ sem \in Procs \cup {Nobody}
    /\ pc \in [Procs -> Labels]
    /\ call \in [Procs -> Call]
    /\ granted \subseteq Slots \X New
    /\ torn \in BOOLEAN
    /\ astray \subseteq Procs

\* An account that setupnewuser reported stays: its slot, its record and its
\* place on the chain of its id, where every login looks for it, whatever
\* other registrations do and wherever they die (register.c:335-407,
\* cache.c:162-260).  It is not so if an account is killed while a search or a
\* registration runs, or after a process died that left a chain torn.
GrantedStays ==
    \A g \in granted :
        /\ userid[g[1]] = g[2] /\ passwd[g[1]] = g[2]
        /\ OnChain(g[1])

\* The slot that setupnewuser takes as "already cleaned" is nobody else's:
\* the record of the new account is not wiped (register.c:350, user.c:53).
GrantedKeepsRecord == \A g \in granted : passwd[g[1]] = g[2]

\* A search started when its key was on a chain finds it, although it walks the
\* chains unlocked while others add slots to them and kill_user takes slots out
\* of them.  The exceptions: a search that stands on the very slot that
\* kill_user moves, at the moment it does, which goes on along the chain of the
\* free slots; keys that share that chain; and chains that a dead process left
\* torn, which run through the free slots too (cache.c:214-231).
SearchFinds ==
    [][\A p \in Procs :
        ~ torn /\ p \notin astray /\ pc[p] \in {"s_cmp", "s_next"} /\ pc'[p] = call[p].ret
          /\ call[p].there /\ Hash[call[p].key] # Hash[Empty]
        => call'[p].at # Nil]_vars

=============================================================================
