----------------------------- MODULE Favourites -----------------------------
(***************************************************************************)
(* The favourites of a user (mbbsd/fav.c): folders of boards, lines and    *)
(* other folders, which a session loads from a file when it first lists    *)
(* boards and writes back as a whole.  An entry that is removed only loses *)
(* its flag; the array is put in order later.  One step is one command of  *)
(* the board list (choose_board in mbbsd/board.c), with everything it      *)
(* calls.  Titles, the marks for unread boards and the tags that           *)
(* administrators put on boards outside their favourites are left out.     *)
(***************************************************************************)
EXTENDS Integers, Sequences, FiniteSets, SequencesExt, FiniteSetsExt

CONSTANTS
    FavBoards,
    Dirs, Root,   \* memory of folders; the outermost one
    NoDir,        \* an entry that is no folder
    Gone,         \* an entry whose fp is NULL
    FAV_MAXDEPTH, MAX_FAV, MAX_LINE, MAX_FOLDER,
    CHAR_MAX,     \* the largest signed char
    MaxEntries,   \* entries of all folders, those without a flag too (bound)
    MaxMissed     \* folders entered beyond FAV_MAXDEPTH (bound)

ASSUME FavAssumption ==
    /\ IsFiniteSet(Dirs) /\ Root \in Dirs /\ NoDir \notin Dirs
    /\ Gone \notin FavBoards /\ Gone \notin Int /\ FavBoards \cap Int = {}
    /\ {FAV_MAXDEPTH, MAX_FAV, MAX_LINE, MAX_FOLDER, CHAR_MAX, MaxEntries} \subseteq Nat \ {0}
    /\ MAX_LINE <= CHAR_MAX /\ MAX_FOLDER <= CHAR_MAX
    /\ MaxEntries < 32768   \* DataTail and nBoards are short
    /\ MaxMissed \in Nat

VARIABLES
    fav_t,      \* each folder in memory
    fav_number, fav_stack, dirty,
    nbrd,       \* the list on the screen, as it was last loaded
    missed,     \* folders on the screen that are not on the stack
    fav_file, user_fav_bak,  \* .fav and .fav.bak
    leaked,     \* history: the part of fav_number that lies in removed folders
    saving      \* history: the last command saves

tables == <<fav_t, fav_number, dirty, leaked>>
screen == <<fav_stack, nbrd, missed>>
favVars == <<tables, screen, fav_file, user_fav_bak, saving>>

-----------------------------------------------------------------------------
(* Entries and folders                                                     *)

Types == {"board", "line", "folder"}

\* fav: FAVH_FAV; tag: FAVH_TAG; id: bid, lid or fid; sub: this_folder.
Entry == [type : Types, fav : BOOLEAN, tag : BOOLEAN,
          id : FavBoards \cup Int \cup {Gone}, sub : Dirs \cup {NoDir}]
NewEntry(t, id, sub) == [type |-> t, fav |-> TRUE, tag |-> FALSE, id |-> id, sub |-> sub]

\* n: nBoards, nLines, nFolders; last: lineID and folderID.
Folder == [items : Seq(Entry), n : [Types -> Int], last : [{"line", "folder"} -> Int]]
NewFolder == [items |-> <<>>, n |-> [t \in Types |-> 0],
              last |-> [t \in {"line", "folder"} |-> 0]]

Tables == [dirs |-> fav_t, number |-> fav_number, dirty |-> dirty, leaked |-> leaked]
NoTables == [dirs |-> [d \in Dirs |-> NewFolder], number |-> 0, dirty |-> FALSE,
             leaked |-> 0]

get_data_number(f) == f.n["board"] + f.n["line"] + f.n["folder"]
Total(dirs, D) == MapThenSumSet(LAMBDA d : get_data_number(dirs[d]), D)
Current == Last(fav_stack)

\* The valid entries, in the order of the array.
ValidAt(items) == {i \in DOMAIN items : items[i].fav}
Positions(items) ==
    LET at == ValidAt(items) IN
    [k \in 1..Cardinality(at) |-> CHOOSE i \in at : Cardinality({j \in at : j <= i}) = k]
Valid(items) == LET at == Positions(items) IN [k \in DOMAIN at |-> items[at[k]]]

\* The position of the valid entry k, counted from 0 as the user sees them,
\* or 0.
Place(items, k) == IF k + 1 \in DOMAIN Positions(items) THEN Positions(items)[k + 1] ELSE 0

\* The folders that one comes to from d, if x leads to subs[x]: all that are in
\* no set, without d, that no folder outside of it leads into.
Reached(subs, d) ==
    {x \in Dirs : \A S \in SUBSET (Dirs \ {d}) :
                     x \in S => \E y \in Dirs \ S : subs[y] \cap S # {}}

\* The folders that the valid entries of d lead to, and d.
Below(dirs, d) ==
    Reached([x \in Dirs |->
        {dirs[x].items[i].sub : i \in ValidAt(dirs[x].items)}], d)

\* get_fav_item: the first valid entry, or 0.
get_fav_item(items, type, id) ==
    SelectInSeq(items, LAMBDA e : e.fav /\ e.type = type /\ e.id = id)

-----------------------------------------------------------------------------
(* What happens to one folder                                              *)

OfType(es, t, k) == Cardinality({j \in 1..k : es[j].type = t})

\* What a signed char holds after i increments from 0.
Char(i) == ((i + CHAR_MAX + 1) % (2 * (CHAR_MAX + 1))) - (CHAR_MAX + 1)

\* nLines and nFolders are char, nBoards is short.
Stored(t, i) == IF t = "board" THEN i ELSE Char(i)

\* fav_increase for each of the entries es: lines and folders get a new number
\* unless they keep their own.
Extended(f, es, keep) ==
    [items |-> f.items \o [k \in DOMAIN es |->
         IF es[k].type \in keep THEN es[k]
         ELSE [es[k] EXCEPT !.id = Char(f.last[es[k].type] + OfType(es, es[k].type, k))]],
     n |-> [t \in Types |-> Stored(t, f.n[t] + OfType(es, t, Len(es)))],
     last |-> [t \in {"line", "folder"} |-> Char(f.last[t] + OfType(es, t, Len(es)))]]

\* Variant: entries that were removed are still counted.
ArrangedAll(items) ==
    [Extended(NewFolder, Valid(items), {"board"}) EXCEPT
        !.n = Extended(NewFolder, items, {"board"}).n]

\* rebuild_fav: a folder of the valid ones of items alone, with its counts.
Arranged(items) == Extended(NewFolder, Valid(items), {"board"})

\* fav_remove of the entries at P; what fp was is lost with a folder that moved.
\* Each entry of P is counted, so that no count wraps.
Removed(f, P, moved) ==
    [items |-> [i \in DOMAIN f.items |->
         IF i \notin P THEN f.items[i]
         ELSE [f.items[i] EXCEPT !.fav = FALSE, !.tag = FALSE,
                   !.id = IF moved /\ f.items[i].type = "folder" THEN Gone ELSE f.items[i].id]],
     n |-> [t \in Types |-> f.n[t] - Cardinality({i \in P : f.items[i].type = t})],
     last |-> f.last]

\* set_attr(ft, FAVH_TAG, ...)
TagSet(f, P, bit) ==
    [f EXCEPT !.items = [i \in DOMAIN f.items |->
         IF i \in P THEN [f.items[i] EXCEPT !.tag = bit] ELSE f.items[i]]]

\* The loops of move_in_folder: entry a goes to b, those between move up.
Shifted(f, a, b) ==
    [f EXCEPT !.items = [i \in DOMAIN f.items |->
         IF i = b THEN f.items[a]
         ELSE IF a <= i /\ i < b THEN f.items[i + 1]
         ELSE IF b < i /\ i <= a THEN f.items[i - 1]
         ELSE f.items[i]]]

-----------------------------------------------------------------------------
(* Functions of fav.c, from tables to tables                               *)

With(s, d, f) == [s EXCEPT !.dirs = [s.dirs EXCEPT ![d] = f], !.dirty = TRUE]

\* fav_preappend, after it found room
Preappend(s, d, e) ==
    [With(s, d, Extended(s.dirs[d], <<e>>, {"board"})) EXCEPT !.number = s.number + 1]

\* fav_remove of entry i
FavRemove(s, d, i) ==
    [With(s, d, Removed(s.dirs[d], {i}, FALSE)) EXCEPT !.number = s.number - 1]

\* An entry without fp is below d, also behind one that has lost its flag.
Torn(dirs, d) ==
    \E x \in Reached([y \in Dirs |-> {e.sub : e \in Range(dirs[y].items)}], d) :
        \E e \in Range(dirs[x].items) : e.id = Gone

\* Memory that no valid entry leads to any more is not counted off fav_number.
\* What stays of an entry is only whether fav_free will fail at it.
Forget(s) ==
    LET live == Below(s.dirs, Root)
        Lost(e) == e.id = Gone \/ (e.sub \in Dirs /\ Torn(s.dirs, e.sub))
        Left(e) == IF e.fav THEN e
                   ELSE [type |-> "line", fav |-> FALSE, tag |-> FALSE,
                         id |-> IF Lost(e) THEN Gone ELSE 0, sub |-> NoDir]
    IN [s EXCEPT
           !.dirs = [d \in Dirs |->
               IF d \notin live THEN NewFolder
               ELSE [s.dirs[d] EXCEPT !.items =
                        [i \in DOMAIN s.dirs[d].items |-> Left(s.dirs[d].items[i])]]],
           !.leaked = s.leaked + Total(s.dirs, Dirs \ live)]

\* rebuild_fav
Rebuild(s, d) ==
    LET below == Below(s.dirs, d)
        new == [x \in Dirs |-> IF x \in below THEN Arranged(s.dirs[x].items) ELSE s.dirs[x]]
    IN [s EXCEPT !.dirs = new,
                 !.number = s.number - Total(s.dirs, below) + Total(new, below),
                 !.dirty = s.dirty \/ Total(new, below) > 0]

\* fav_cleanup
Cleanup(s) ==
    IF \E d \in Below(s.dirs, Root) : ValidAt(s.dirs[d].items) # DOMAIN s.dirs[d].items
    THEN Rebuild(s, Root) ELSE s

\* move_in_folder: entry src goes to place dst, as the user counts them.
MoveIn(s, d, src, dst) ==
    LET a == Place(s.dirs[d].items, src)  b == Place(s.dirs[d].items, dst) IN
    IF src = dst THEN s
    ELSE IF a = 0 \/ b = 0 THEN [s EXCEPT !.dirty = TRUE]
    ELSE With(s, d, Shifted(s.dirs[d], a, b))

is_maxsize(s) == s.number >= MAX_FAV

\* Variant: one more fits on the stack than it has cells.
FullTooLate == Len(fav_stack) > FAV_MAXDEPTH

fav_stack_full == Len(fav_stack) >= FAV_MAXDEPTH

-----------------------------------------------------------------------------
(* The file                                                                *)

NoFile == <<>>

\* The numbers of lines and folders are not written.
Bare(e) == [e EXCEPT !.id = IF e.type = "board" THEN e.id ELSE 0]

\* write_favrec: as many entries of each folder as its counts say.
Written(dirs) ==
    [d \in Below(dirs, Root) |->
        LET f == dirs[d]
        IN [i \in DOMAIN f.items \cap 1..get_data_number(f) |-> Bare(f.items[i])]]

\* Variant: .fav is written only when there is none.
SavedOnce(s) ==
    LET t == Cleanup(s) IN
    [tables |-> t,
     file |-> IF t.dirty /\ fav_file = NoFile THEN Written(t.dirs) ELSE fav_file]

\* fav_save
FavSaved(s) ==
    LET t == Cleanup(s) IN
    [tables |-> t, file |-> IF t.dirty THEN Written(t.dirs) ELSE fav_file]

\* fav_load
Read(file) ==
    LET dirs == [d \in Dirs |-> IF d \in DOMAIN file THEN Arranged(file[d]) ELSE NewFolder]
    IN [NoTables EXCEPT !.dirs = dirs, !.number = Total(dirs, DOMAIN file)]

-----------------------------------------------------------------------------
(* The list on the screen                                                  *)

\* load_boards puts on the list what has a number.
NumberedAt(items) == {i \in ValidAt(items) : items[i].type = "board" \/ items[i].id >= 1}

\* Variant: the assertion is not compiled in (NDEBUG).
ListableAnyway(f) == TRUE

\* There is a place for each of them, or the counts say that there are none:
\* otherwise addnewbrdstat fails at an assertion.
Listable(f) ==
    LET n == get_data_number(f) IN n = 0 \/ Cardinality(NumberedAt(f.items)) <= n

\* Bound: folders are left out where load_boards goes on although a number has
\* wrapped, or the counts have wrapped to nothing.
Unwrapped(f) ==
    /\ NumberedAt(f.items) = ValidAt(f.items)
    /\ get_data_number(f) = 0 => ValidAt(f.items) = {}

Listed(f) ==
    LET v == Valid(f.items) IN [i \in DOMAIN v |-> [type |-> v[i].type, id |-> v[i].id]]

-----------------------------------------------------------------------------
(* Commands on tagged entries                                              *)

OnStack(e) == e.type = "folder" /\ \E k \in DOMAIN fav_stack : fav_stack[k] = e.sub

TaggedAt(f) == {i \in DOMAIN f.items : f.items[i].fav /\ f.items[i].tag}

\* Variant: also a folder that the user is in.
TakenAny(dirs, D) == UNION {{d} \X TaggedAt(dirs[d]) : d \in D}

\* The tagged entries of the folders D, but for folders that the user is in,
\* which only lose their tag.
Taken(dirs, D) ==
    {x \in UNION {{d} \X TaggedAt(dirs[d]) : d \in D} : ~ OnStack(dirs[x[1]].items[x[2]])}
Swept(dirs, d, taken, moved) ==
    Removed(TagSet(dirs[d], TaggedAt(dirs[d]), FALSE),
            {i \in DOMAIN dirs[d].items : <<d, i>> \in taken}, moved)
Tagged(dirs) == \E d \in Dirs : TaggedAt(dirs[d]) # {}

\* The order in which fav_do_recursively meets them: in a folder as they are,
\* after those in the folders that it leads to, one folder after the other.
Sooner(dirs, x, y) ==
    \/ x[1] = y[1] /\ x[2] < y[2]
    \/ x[1] # y[1] /\ x[1] \in Below(dirs, y[1])
    \/ \E d \in Dirs : \E i, j \in ValidAt(dirs[d].items) :
          LET sub(k) == dirs[d].items[k].sub
          IN /\ i < j /\ {sub(i), sub(j)} \subseteq Dirs
             /\ x[1] \in Below(dirs, sub(i)) /\ y[1] \in Below(dirs, sub(j))
Orders(dirs, taken) ==
    {o \in [1..Cardinality(taken) -> taken] :
        Range(o) = taken /\ \A k, l \in DOMAIN o : Sooner(dirs, o[k], o[l]) => k < l}

Entries(dirs) == MapThenSumSet(LAMBDA d : Len(dirs[d].items), Dirs)

-----------------------------------------------------------------------------
(* Commands of the board list                                              *)

FavInit ==
    /\ fav_t = NoTables.dirs /\ fav_number = 0 /\ dirty = FALSE /\ leaked = 0
    /\ fav_stack = <<>> /\ nbrd = <<>> /\ missed = 0
    /\ fav_file = NoFile /\ user_fav_bak = NoFile /\ saving = FALSE

SetTables(s) ==
    /\ fav_t' = s.dirs /\ fav_number' = s.number /\ dirty' = s.dirty
    /\ leaked' = s.leaked

\* The process ends.
End == SetTables(NoTables) /\ fav_stack' = <<>> /\ nbrd' = <<>> /\ missed' = 0

\* The list is loaded again, from the folder on top of the stack; m is missed.
Show(s, stack, m) ==
    LET f == s.dirs[Last(stack)] IN
    IF Listable(f)
    THEN /\ Unwrapped(f)
         /\ SetTables(s) /\ fav_stack' = stack /\ nbrd' = Listed(f) /\ missed' = m
    ELSE End

\* A command changes the tables, and the list is loaded again.
Change(s) == Show(s, fav_stack, missed) /\ UNCHANGED <<fav_file, user_fav_bak>>

\* abort_bbs_debug, after a use of NULL or an assertion: nothing is saved.
Die == End /\ UNCHANGED <<fav_file, user_fav_bak>>

Listing == fav_stack # <<>>
Here == fav_t[Current].items
Room == Listing /\ ~ is_maxsize(Tables) /\ Entries(fav_t) < MaxEntries

\* Where the cursor is.
Cursor == DOMAIN nbrd

Open ==
    /\ ~ Listing
    /\ Show(Read(fav_file), <<Root>>, 0)
    /\ UNCHANGED <<fav_file, user_fav_bak>>

\* A command that loads the list again, and the main menu.
Refresh == Listing /\ Change(Tables)

Enter(k) ==
    LET i == get_fav_item(Here, "folder", nbrd[k].id) IN
    /\ nbrd[k].type = "folder"
    /\ IF i = 0 THEN Die
       ELSE /\ IF fav_stack_full
               THEN missed < MaxMissed /\ Show(Tables, fav_stack, missed + 1)
               ELSE Show(Tables, Append(fav_stack, Here[i].sub), missed)
            /\ UNCHANGED <<fav_file, user_fav_bak>>

\* fav_folder_out, whether or not fav_folder_in did push.
Leave ==
    /\ Len(fav_stack) + missed > 1
    /\ IF Len(fav_stack) = 1 THEN Die
       ELSE Show(Tables, Front(fav_stack), missed) /\ UNCHANGED <<fav_file, user_fav_bak>>

\* m or z in a list of boards
ToggleBoard(b) ==
    LET i == get_fav_item(Here, "board", b) IN
    /\ Listing
    /\ IF i # 0 THEN Change(Forget(FavRemove(Tables, Current, i)))
       ELSE Room /\ Change(Preappend(Tables, Current, NewEntry("board", b, NoDir)))

\* An entry is made at the end and goes to where the cursor is.
Insert_(s, k) == IF nbrd = <<>> THEN s ELSE MoveIn(s, Current, Len(nbrd), k - 1)

InsertBoard(b, k) ==
    /\ Room /\ get_fav_item(Here, "board", b) = 0
    /\ Change(Insert_(Preappend(Tables, Current, NewEntry("board", b, NoDir)), k))

AddLine(k) ==
    /\ Room /\ fav_t[Current].n["line"] < MAX_LINE
    /\ Change(Insert_(Preappend(Tables, Current, NewEntry("line", 0, NoDir)), k))

AddFolder(k) ==
    LET free == Dirs \ Below(fav_t, Root) IN
    /\ Room /\ ~ fav_stack_full /\ fav_t[Current].n["folder"] < MAX_FOLDER
    /\ free # {}
    /\ Change(Insert_(Preappend(Tables, Current,
                                NewEntry("folder", 0, CHOOSE d \in free : TRUE)), k))

Delete(k) ==
    LET i == get_fav_item(Here, nbrd[k].type, nbrd[k].id) IN
    Change(IF i = 0 THEN Tables ELSE Forget(FavRemove(Tables, Current, i)))

MoveEntry(k, l) == Change(MoveIn(Tables, Current, k - 1, l - 1))

\* fav_tag; the list is not loaded again.
Tag(k) ==
    LET i == get_fav_item(Here, nbrd[k].type, nbrd[k].id) IN
    /\ i # 0
    /\ SetTables(With(Tables, Current, TagSet(fav_t[Current], {i}, ~ Here[i].tag)))
    /\ UNCHANGED <<screen, fav_file, user_fav_bak>>

\* fav_remove_all_tag
UntagAll ==
    /\ Listing
    /\ Change([Tables EXCEPT
           !.dirs = [d \in Dirs |-> TagSet(fav_t[d], TaggedAt(fav_t[d]), FALSE)],
           !.dirty = dirty \/ Tagged(fav_t)])

\* fav_remove_all_tagged_item
DeleteTagged ==
    LET taken == Taken(fav_t, Dirs) IN
    /\ Listing
    /\ Change(Forget([Tables EXCEPT
           !.dirs = [d \in Dirs |-> Swept(fav_t, d, taken, FALSE)],
           !.number = fav_number - Cardinality(taken),
           !.dirty = dirty \/ Tagged(fav_t)]))

\* fav_add_all_tagged_item: what is tagged elsewhere goes to the current folder,
\* also more than MAX_LINE lines or MAX_FOLDER folders.  A line keeps its number.
\* Where there is no room, tmp is NULL.
AddTagged ==
    LET taken == Taken(fav_t, Dirs \ {Current}) IN
    /\ Listing
    /\ IF taken # {} /\ is_maxsize(Tables) THEN Die
       ELSE \E o \in Orders(fav_t, taken) :
                LET came == [k \in DOMAIN o |->
                                [fav_t[o[k][1]].items[o[k][2]] EXCEPT !.tag = FALSE]]
                    dirs == [d \in Dirs |->
                                IF d = Current THEN Extended(fav_t[d], came, {"board", "line"})
                                ELSE Swept(fav_t, d, taken, TRUE)]
                IN /\ Entries(dirs) <= MaxEntries
                   /\ Change(Forget([Tables EXCEPT !.dirs = dirs,
                          !.dirty = dirty \/ \E d \in Dirs \ {Current} : TaggedAt(fav_t[d]) # {}]))

\* The order is that of names or of classes, which are left out.
Sort ==
    LET s == Rebuild(Tables, Current)
        f == s.dirs[Current]
        n == Len(f.items)
    IN /\ Listing
       /\ \E p \in Bijection(1..n, 1..n) :
            Change(With(s, Current, [f EXCEPT !.items = [i \in 1..n |-> f.items[p[i]]]]))

-----------------------------------------------------------------------------
(* Commands on the files                                                   *)

\* w; the list is not loaded again.
Save ==
    LET w == FavSaved(Tables) IN
    /\ Listing
    /\ UNCHANGED <<screen, user_fav_bak>>
    /\ SetTables(w.tables) /\ fav_file' = w.file

\* u_exit, also after a lost connection
Exit ==
    /\ Listing
    /\ End /\ fav_file' = FavSaved(Tables).file /\ UNCHANGED user_fav_bak

Backup ==
    LET w == FavSaved(Tables) IN
    /\ Listing /\ Current = Root
    /\ Show(w.tables, fav_stack, missed)
    /\ fav_file' = w.file
    /\ user_fav_bak' = IF w.file = NoFile THEN user_fav_bak ELSE w.file

\* fav_free fails at an entry whose folder was moved away.
Restore ==
    /\ Listing /\ Current = Root /\ user_fav_bak # NoFile
    /\ fav_file' = user_fav_bak /\ UNCHANGED user_fav_bak
    /\ IF Torn(fav_t, Root) THEN End
       ELSE Show(Read(user_fav_bak), <<Root>>, missed)

EditList ==
    \/ \E b \in FavBoards : ToggleBoard(b) \/ \E k \in Cursor : InsertBoard(b, k)
    \/ \E k \in Cursor \cup {1} : AddLine(k) \/ AddFolder(k)
    \/ \E k \in Cursor : Delete(k) \/ Tag(k) \/ \E l \in Cursor : MoveEntry(k, l)
    \/ UntagAll \/ DeleteTagged \/ AddTagged \/ Sort

FavNext ==
    \/ /\ \/ Open \/ Refresh \/ Leave \/ \E k \in Cursor : Enter(k)
          \/ EditList \/ Restore \/ (Listing /\ Die)
       /\ saving' = FALSE
    \/ (Save \/ Exit \/ Backup) /\ saving' = TRUE

FavSpec == FavInit /\ [][FavNext]_favVars

-----------------------------------------------------------------------------
(* Properties                                                              *)

\* Every variable keeps to its type.
FavTypeOK ==
    /\ fav_t \in [Dirs -> Folder]
    /\ fav_number \in Nat /\ leaked \in Nat /\ dirty \in BOOLEAN
    /\ fav_stack \in Seq(Dirs) /\ Len(fav_stack) <= FAV_MAXDEPTH
    /\ nbrd \in Seq([type : Types, id : FavBoards \cup (Nat \ {0})])
    /\ missed \in 0..MaxMissed /\ saving \in BOOLEAN

\* The counts of each folder are those of the entries that the list shows, so
\* that fav_save writes all of them and no others; and fav_number is the number
\* of all entries and of those in folders that were removed, after any mix of
\* moves, removals and sorts (fav.c:117-157, 291-323, 1004-1032).  Where ^A puts
\* more lines or folders into one than a char counts, this rests on the assertion
\* of load_boards (board.c:1131), which ends the session before it can save.
CountersFit == Listing =>
    LET live == Below(fav_t, Root) IN
    /\ \A d \in live, t \in Types :
          fav_t[d].n[t] = OfType(Valid(fav_t[d].items), t, Len(Valid(fav_t[d].items)))
    /\ fav_number = leaked + Total(fav_t, live)

\* The entries that the user can see, in all folders: folder and position.
Shown(dirs) == UNION {{d} \X ValidAt(dirs[d].items) : d \in Below(dirs, Root)}

\* However folders are moved into others, one leads to each, the folders that
\* the user is in lead from the outermost one to the current one, and no two
\* folders of one list have the same number (fav.c:981-1022, 138-157).  Two
\* lines may: add_and_remove_tag copies the number over the new one.
FoldersFormTree == Listing =>
    LET live == Below(fav_t, Root)
        LeadsTo(d) == {l \in Shown(fav_t) : fav_t[l[1]].items[l[2]].sub = d}
    IN /\ \A d \in live : Cardinality(LeadsTo(d)) = IF d = Root THEN 0 ELSE 1
       /\ \A k \in DOMAIN fav_stack :
             IF k = 1 THEN fav_stack[k] = Root
             ELSE \E l \in LeadsTo(fav_stack[k]) : l[1] = fav_stack[k - 1]
       /\ \A d \in live : LET items == fav_t[d].items IN
             \A i, j \in ValidAt(items) :
                 i # j /\ items[i].type = "folder" /\ items[j].type = "folder"
                     => items[i].id # items[j].id

\* What a file holds, and what the user sees in all folders: the same form.
Kept(file) == IF file = NoFile THEN [d \in {Root} |-> <<>>] ELSE file
Seen(dirs) ==
    [d \in Below(dirs, Root) |->
        LET v == Valid(dirs[d].items) IN [i \in DOMAIN v |-> Bare(v[i])]]

\* A session that saves leaves in the file what its user saw last, whatever
\* was removed, moved and put in order before and whether or not dirty was set
\* on each way; and the next one shows that again (fav.c:438-494, 562-627).
SavedAsSeen ==
    [][/\ saving' => Kept(fav_file') = Seen(fav_t)
       /\ fav_stack = <<>> /\ fav_stack' # <<>> => Seen(fav_t') = Kept(fav_file)]_favVars

TagsElsewhere(dirs) == \E d \in Dirs \ {Current} :
    (\E e \in Range(dirs[d].items) : e.tag) /\ d \in Below(dirs, Root)

\* ^A leaves no tag outside the current folder and loses nothing: as many
\* entries of each kind as before, the same boards, and all folders with them,
\* also when it empties a folder and then moves it (fav.c:1004-1076).
MovesLoseNothing ==
    [][fav_stack # <<>> /\ fav_stack' # <<>> /\ TagsElsewhere(fav_t) /\ AddTagged =>
        LET Count(dirs, Test(_)) ==
                Cardinality({l \in Shown(dirs) : Test(dirs[l[1]].items[l[2]])})
        IN /\ Below(fav_t', Root) = Below(fav_t, Root)
           /\ \A b \in FavBoards : Count(fav_t', LAMBDA e : e.id = b)
                                     = Count(fav_t, LAMBDA e : e.id = b)
           /\ \A t \in Types : Count(fav_t', LAMBDA e : e.type = t)
                                 = Count(fav_t, LAMBDA e : e.type = t)
           /\ ~ TagsElsewhere(fav_t')]_favVars
=============================================================================
