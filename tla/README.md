# Verification of BRsBBS

TLA+ models of the parts of BRsBBS that several processes work on at once, the
TLC runs that check them on small instances, and TLAPS proofs of what holds for
every instance. Paths below are relative to `src/`.

## 1. The system

BRsBBS is a PttBBS bulletin board. Every user is served by a process of their
own (`mbbsd`). Processes share two things: flat files under `BBSHOME` (listings
of fixed-size records such as `.DIR`, article texts, `.PASSWDS`) and one SysV
shared-memory segment, `SHM` (user table, online users, board table). Daemons
take logins and answer queries; utilities run from cron. There is no
transaction layer: consistency rests on `flock()`, `fcntl()` ranges, one
semaphore, the order of system calls, and luck where the comments say
"race here".

### Inventory

| component | state | operations | made correct by |
|---|---|---|---|
| record files (`common/sys/record.c`, `lock.c`, `common/bbs/filehdr.c`) | a file of records; `flock` and `fcntl` locks on it | `append_record`, `substitute_record(2)`, `delete_record2`, `delete_records` | the number an append returned stays that of its entry; compare and write are one step; a deletion removes what it names and nothing else, also if it dies |
| article text and header (`mbbsd/bbs.c`) | the text inode, the path, the `.DIR` entry | comment (`do_add_recommend`), edit (`edit_post`, `append_merge_replace`), `modify_dir_lite`, delete | an edit replaces the body and keeps every comment; locks are held by whoever writes; the score counts no vote twice |
| user table (`common/bbs/cache.c`, `mbbsd/register.c`, `mbbsd/user.c`) | `SHM->userid`, hash chains, `.PASSWDS`, passwd semaphore | `setupnewuser`, `setuserid`, `dosearchuser`, `kill_user` | an account that was granted keeps its slot, record and place on its chain |
| login (`daemon/logind/logind.c`, `tunnel_login` of `mbbsd/mbbsd.c`) | connections, ack queue, tunnel; the loop of mbbsd | accept, authenticate, hand over, acknowledge, time out, retry | a socket is never paired with another login's data; what was handed over is served; no connection stays for ever |
| accounts and money (`mbbsd/passwd.c`, `common/bbs/passwd.c`) | `userec_t` per user, `SHM->money` | `PWCU_START`..`PWCU_END`, `deumoney` | no update lost, no money spent twice |
| online users and messages (`mbbsd/mbbsd.c`, `talk.c`, `cache.c`) | `SHM->uinfo`, friend lists, water balls | log in and out, `my_write`, `write_request`, kick | one user per slot, each message shown once |
| board and film caches (`common/bbs/cache.c`) | sorted tables, totals, busy flags | `reload_bcache`, `sort_bcache`, `setbtotal` | a reader sees a complete table |
| record users (`mbbsd/record.c`, `mail.c`, `announce.c`) | numbered listings | `delete_range`, safe delete | numbers read earlier still mean the same entry |
| read marks (`mbbsd/brc.c`, `daemon/brcstored`) | `brc_buf`, list of the current board, `.brc3` | mark, search, switch board, save | what was read stays read |
| favourites (`mbbsd/fav.c`, `choose_board` of `mbbsd/board.c`) | a tree of folders in memory, the stack of folders the user is in, `.fav` and its backup | add, remove, move, sort, gather tagged entries, save, load, back up | no entry or folder is lost, the counts fit, what is saved is what was seen |
| chat server (`util/xchatd.c`) | connections, rooms, invitations, bans | log in, join, kick, invite, lock, hang up | a room lives as long as somebody is in it; rights and invitations end with the stay they were given for |
| editor (`mbbsd/edit.c`) | a list of lines, where the cursor, the window and a selected block are in it, the line kept for undelete | every key of `vedit2`, loading, strings that are inserted | no pointer leads to a line that was given back, numbers and pointers agree, no line outgrows its memory, the window shows the cursor |
| the rest: votes and bets, time capsule, talk and games, terminal and pager, administration, utmpd, other daemons, utilities, libraries | | | see PROJECT.json for each, with the reason it is not modelled |

Interactions: everything that posts, comments or edits goes through the record
files (`bbs.c` calls `append_record`, `substitute_ref_record`,
`safe_article_delete`, `modify_dir_lite`); login hands a socket from logind to
mbbsd, whose process then looks the user up in the user table; registration
and `kill_user` change that table under every search.

### What is hard

- Two lock families that ignore each other: `flock()` in `append_record`,
  `fcntl()` in everything else; `fcntl()` locks end with any `close()` of the
  file; `PttLock`'s range starts at the file cursor.
- Locks that belong to an inode while the path moves on (`rename()` in an edit).
- Chains in shared memory walked without a lock while another process relinks
  them, or died while relinking them.
- Two processes, logind and mbbsd, that agree on an order of messages although
  either side may fail between any two, and pointers that come back after their
  object was freed.
- State read before a prompt or a lock and used after it, almost everywhere.
- Tables without a lock in one process, where a long mix of legal commands has to
  keep counts, pointers and rights right: the favourites, the read marks, the chat
  server, the lines of the editor.

Section `hazards` of PROJECT.json lists them at their lines.

## 2. Modules

| module | models | composed with |
|---|---|---|
| `RecordFile` | record files, one step per system call, death at every step | implements `RecordLog` |
| `RecordLog` | abstract: a listing that is appended to and safely deleted from | |
| `RecordFileProofs` | theorems about `RecordFile` | extends it |
| `ArticleFile` | one article, its text and its header | implements `Thread` |
| `Thread` | abstract: a body and the comments below it | |
| `ArticleFileProofs` | theorems about `ArticleFile` | extends it |
| `UserHash` | user table, registration, `kill_user`, word by word | |
| `UserHashProofs` | theorems about `UserHash`, with the lemmas on chains | extends it |
| `AckQueue` | `ackq_*` of logind as operators on a value | used by `LoginTunnel` |
| `LoginTunnel` | logind's event loop and mbbsd's tunnel loop | uses `AckQueue` |
| `LoginTunnelProofs` | lemmas on the ack queue, theorems about `LoginTunnel` | extends it |
| `ReadMarks` | the read marks of a user, one command per step, through several sessions | |
| `ReadMarksProofs` | theorems about `ReadMarks` | extends it |
| `Favourites` | the favourites of a user, one command per step, through several sessions | run together with `ReadMarks` |
| `FavouritesProofs` | what the operators do to one folder and to the tree; theorems about `Favourites` | extends it |
| `ChatServer` | the chat server, one line of input or one event of a connection per step | |
| `ChatServerProofs` | theorems about `ChatServer` | extends it |
| `Editor` | the list of lines that an article is written in, one key per step | run together with `ArticleFile` |
| `EditorProofs` | what the functions of `edit.c` do to a buffer, theorems about `Editor` | extends it |
| `MC*` | small instances for TLC | extend the module they are named after, `MCUserFiles` both `ReadMarks` and `Favourites`, `MCArticleEdit` both `ArticleFile` (by way of `MCArticleFile`) and `Editor` |

Conventions: `pc[p]` says what process `p` is about to do and `call[p]` holds
the arguments and locals of the C function it is in; `CallX` actions enter a
function and the actions after them are its system calls in order. Names of
functions, fields and constants are those of the C code. Definitions commented
`Variant:` are plausible bugs in the definition that follows them; they show
that the properties notice, and nothing uses them. Variables and record fields
commented "history" are not in the program.

### RecordFile

`file` is the sequence of records, a record being the name in its header: a
header keeps its name for life, and `FN_SAFEDEL` marks a safely deleted one.
`flk` holds the owners of `flock()`, `lck` the `fcntl()` range of each process.
`append_record` = `CallAppend`, `AppendFlock`, `AppendSeek` (lseek to the end),
`AppendWrite`, `AppendOut`. `substitute_record2` = `CallSubstitute2`, `SubLock`,
`SubRead` (compare), `SubWrite`, `SubClose`. `delete_record2` and
`delete_records` = `DelStat` (fstat, before any lock, as in the code),
`DelLock`, `DelRead`, the loop `DelCopyRead`/`DelCopyWrite` in chunks of
`BufRecs`, `DelClose` (which drops the lock) and `DelTruncate`. `Crash` ends a
process between any two of these; the kernel then drops its locks.

### ArticleFile

`text` maps inodes to sequences of items, `path` is the inode the name leads to,
`dir` the entry in `.DIR`. A comment is `CallComment`, `COpen`, `CFlock`
(nonblocking, with `LockRetry` tries and `CReopen`), `CWrite`, `CUnlock`, `CStat`
and then `ModifyRead`, `ModifyWrite`. An edit copies the text (`ECopy`), lets the
author type (`EEdit`), compares (`EHash`), opens, sizes and locks (`EOpen`,
`ESize`, `EFlock`), merges what was appended meanwhile (`EMerge`) and replaces the
file (`EUnlink`, `ERename`, `EUnlock`). `SafeDelete` and `DUnlink` delete. The
model takes EDITPOST_SMARTMERGE and SAFE_ARTICLE_DELETE as set, as
`sample/main.conf` does.

### UserHash

`userid`, `link` (heads and next pointers) and `passwd` are the words of the
table; `sem` is the semaphore, undone by the kernel at exit. A search is
`Search`, `SearchCmp`, `SearchNext`; `setuserid` is remove (`RemoveWalk`,
`RemoveUnlink`), name (`AddName`) and add (`AddWalk`, `AddLink`, `AddEnd`).
`Register*` follow `setupnewuser` from its unlocked look-up to `RegisterUnlock`;
`CallKill` and `KillRecord` follow `kill_user`, which takes no lock. `torn` is the
history of the worst place to die: `*p = n` was written and `next_in_hash[n] = -1` was
not (`common/bbs/cache.c:180`), so the chain of the new slot runs on into the chain that
the slot came from. `astray` is the history of searches that stood on the slot of an
account at the moment `kill_user` ended its move to the chain of the free slots. Each
step is one access to a word of the table, with one exception: `RemoveUnlink` stands for
the `if` at the end of `remove_from_uhash`, which compares one word, reads a second and
writes the first.

### LoginTunnel

One step is one callback of logind's event loop, cut where it uses the tunnel,
or one system call of mbbsd. `conn` maps addresses to `login_conn_ctx`; an address
may be given out again after `free()`. `data[t]` and `acks[t]` are what a tunnel
holds in each direction, `lend[t]` is logind's end of it. `start_service` is
`SendFd` then `WriteData`, either of which may fail (`StartFails`); mbbsd is
`MbRecv`, `MbRead`, `MbAck`, `MbFork`, `MbExit`, and may die anywhere (`MbDie`).
After `retry_service` the event `ev_ack` is filled anew by `tunnel_cb` while it is
still registered; what libevent makes of that is not in this code, so logind may
go on or hang (`lpc = "stuck"`). States INIT and PASSWD of a connection are taken
as USERID. What a client types either ends a prompt, with one of the outcomes that this can
have (`AuthFail`, `AuthStart`), or is some other key (`Keys`). The idle timeout of
`client_cb` (`daemon/logind/logind.c:2162`) is two steps: some of it passes
(`TimePasses`), then the connection ends (`IdleTimeout`), and a key in between starts it
anew, as libevent does with the timeout of an EV_PERSIST event from version 2 on. (With
version 1 it counts from `event_add`, every connection meets it, and what is shown here
holds of that too.) A client comes back until its login is handed over and not
afterwards: this bounds the model.

### ReadMarks

`brc_buf` is the sequence of records in the buffer and the length `tail` of what
was left of one that did not fit; `Size` is `brc_size`, counted in the bytes of the
C structures. `brc_list` is the list of `brc_currbid`. `Insert` is
`brc_insert_record` with all its branches: a new record goes to the front, an old
one is replaced in its place, an overflow enlarges the buffer by one block or cuts
it (`Cut`). Each command is one step, for one process does all of them: `EnterBoard`,
`MarkRead` (`brc_addlist`), `MarkBoard`, `MarkInList`, `LeaveBoard` (`brc_update` at
the end of `Read`), `SaveMarks`, `Logout`, `Login`. The clock is left out: a mark at
`Now` may come after an article of a later time was read, which is more than the
program can do.

What the code promises about a full buffer is little, and the history variable
`seen` says exactly how little: it drops a mark when an overflow has put its board
out of the buffer. A board just entered into the buffer is never dropped, and one
whose list has changed since comes back. The history is about one board (`watched`,
any of them) and `seen` follows one mark there (any step may start to follow the one
it makes), which is as good as following all.

### Favourites

`fav_t` is each folder in memory: its array with the entries that lost their flag
(`fav` = FALSE), the three counts and the last numbers given out; `fav_number` and
`dirty` are the globals, `fav_stack` the folders the user is in, `nbrd` the list on the
screen as `load_boards` made it. A command looks up the entry under the cursor by type
and number in the current folder (`get_fav_item`), as the code does, so a list that
was not loaded again after `w` hits whatever has that number now. The functions of
`fav.c` are operators from tables to tables (`Preappend`, `FavRemove`, `Rebuild`,
`MoveIn`, ...) and `choose_board`'s commands are the actions. A command on tagged entries
takes those of all folders at once (`Taken`); the order in which `fav_do_recursively` meets
them, which gives them their places and numbers in the current folder, is `Orders`. Uses of NULL and the assertion in `load_boards` are
`Die`: `abort_bbs_debug` ends the process and saves nothing; so may any session die.
Memory that no entry leads to any more is given back (`Forget`), which the program
does not do, but what it held stays in `fav_number`, and `leaked` counts it.

`nLines`, `nFolders` and the numbers of lines and folders are `char`: what `fav_increase`
makes of them is `Char`, which wraps. The limits `MAX_LINE` and `MAX_FOLDER` keep a folder
within a `char` as long as its lines and folders are made there, but `^A` looks at
`MAX_FAV` only. What happens to a folder whose counts have wrapped is decided by
`load_boards`, which runs at the end of every command: it makes a list of as many places as
the counts say, and `addnewbrdstat` asserts that there is one for each entry that has a
number (`Listable`; the assertions are compiled in, `pttbbs.mk:41`). So the session
ends, before anything is shown or saved.

### ChatServer

`users` and `rooms` are the tables of the server, `who` the account behind each
connection. Every function that moves people (`exit_room`, `arrive_room`,
`enter_room`, `logout_user`) is an operator from tables to tables, and each event or
command a step that combines them as the code does: `/kick` in another room than
"main" is `exit_room` and `enter_room("main")`, a broken connection (`Exception`) is
`logout_user` without `exit_room`. `up` = FALSE says that the server may have used a
connection it had freed: in "main" an operator may kick themselves, or the connection
that the loop would serve next (a comment at `xchatd.c:3099` knows); the model stops
there. `guests` is the history of invitations: who was invited to the room of a name
since it was made, and has not left it since.

### Editor

`ed` is `*curr_buf` and the height of the screen, `phase` what `vedit2` does next: load
the text, the top of its loop (`edit_check_healthy`, then the memory of the line that the
cursor left), wait for a key, go on with a string, or with the second character that a key
inserts in phone mode. One step is one key with all that the loop does for it; what
`insert_string`, `load_file` and an upload insert goes in character by character
(`TypeString`, `Load`). The functions of `edit.c` are operators from buffers to buffers
(`split`, `join`, `insert_line`, `delete_line`, `undelete_line`, `BlockDeleted`, ...). What
is in a line is left out, its length is kept; where the code looks at what is there (spaces,
escape codes, characters of two bytes, what a search finds) the operator has the set of
outcomes as value. `adjustline` moves a line to other memory and every pointer to it
along: a line keeps its identity, and `mlength` is what changes. `alloc_line` takes any
line that is not in use. A terminal that is resized (`Resize`) changes `b_lines` while a
key is awaited, and `shrunk` is the history of that. Where an assertion would fail
(`LoopTop`) the session ends and the next one begins (`Again`).

## 3. Runs

| run | instance | shows |
|---|---|---|
| `record_safe` | 3 processes, 3 new names, append and safe delete, death | `AppendedStays`, `SubstituteRewritesWhatItRead`, refinement of `RecordLog` |
| `record_alone` | 1 process, 3 entries and 4 names, all operations, chunks of 2 | deletions are exact, and dying inside one loses no other entry |
| `record_delete_append` | 2 processes, real delete against append | **violation**: an appended article is cut off by `ftruncate()` |
| `article_edit` | the file: 1 author session, two edits, 2 commenters; or the text that is edited: 5 lines of up to 3 bytes, windows of 2 to 4 lines | refinement of `Thread`: every comment the article shows is kept; `ListHealthy`, `RoomToType`, `CursorInWindow` |
| `article_all` | 2 author sessions and a reader, all operations, death | `LocksGuardWork`, `ScoreWithinVotes` |
| `article_late_comment` | 1 author, 1 commenter | **violation**: a comment written to the replaced inode is lost |
| `uhash_register` | 2 processes, 3 slots. Either ids that share a bucket with the free slots, kills that overlap with nothing and find no torn chain, death at any word; of a torn chain one process at a time makes use. Or a chain of 2 expired accounts, to which registrations append and from which one process takes an account while the other walks it | `GrantedStays`, also over the broken chains that a dead process leaves; `SearchFinds` |
| `uhash_kill` | 2 processes | **violation**: `kill_user` wipes the record of the new owner |
| `login_tunnel` | 2 clients, 2 addresses, 2 mbbsd, every failure; or bounds that one login reaches, and mbbsd that die | `QueueMatches`, `InStep`, `AckEndsOnlyHanded`, `EveryLoginIsServed`, `EveryConnectionEnds`, `EitherRecovers` |
| `login_retry` | the same with 1 mbbsd, which dies | **violation**: a broken tunnel is not replaced |
| `user_files` | the marks: 3 boards, 2 articles, 2 dates of expiry, a buffer for 2 full lists of 2; or the favourites: 2 folders, 1 board, lines, 4 entries, a stack of 2; or 2 folders, lines, 5 entries and a `char` that holds 1 | `BufferKept`, `ReadStays`, `NewIsUnread`; `CountersFit`, `FoldersFormTree`, `SavedAsSeen`, `MovesLoseNothing` |
| `chat` | 3 connections (two of one person, or with a chat sysop, or with a guest), 2 rooms, 1 exception, in one of the rooms | `RoomsCounted`, `LockedKeepsOut`, `RightsStayBehind` |

Why the bounds are enough. *Records*: the conflicts are between two calls; a
third process shows that no order of two others hides one, two chunks show the
loop, its last partial chunk and the empty one. *Articles*: two edits are the
least that replace an inode somebody opened before the first, two comments the
least that can be reordered or doubled; MAX_RECOMMENDS = 1 makes the cap bite.
*Editor*: lines of up to three bytes (`WRAPMARGIN` = 4) break before their last byte and
after a space, at two places; six bytes with the ends of the lines and the deleted line
make five empty lines, or a full one and one of a byte, so that joining may take a line,
split it or give up; four lines are more than the smallest window holds, so that it moves both ways and a
page is less than the list; a block can be the beginning, the end, the middle or all of
it. `EDIT_LINE_LIMIT` = 4 and `MAX_EDIT_LINE` = 3 lie on either side of that. `Sizes` has two
heights, for a screen that shrinks and grows. The editor and the article share no variable
until the text is written to the copy (`EEdit` of `ArticleFile`, which writes any body), so
the run explores the behaviours in which one of the two is at rest. The constraint
`TextIsShort` makes the longest texts and stops there; the `VIEW` leaves out which memory
a line is in and what is in unused memory.
*Users*: a chain of three slots has a first, a middle and a last one; two
buckets let a slot move to a chain that is being walked; registrations that die
make room for later ones, so the sequences are long although two run at a time.
Where the run begins with a chain of two accounts, registrations append a third, so
that a search goes on from one slot to the next, can stand on the slot before or behind
the one that is taken off, or on that one. `start` says which table it began with.
An expired account between two free slots on their chain is the least for what the
next paragraph describes.
*Login*: two clients are the least for one to get the other's ack or data, two
addresses the least for a hole in the ack queue, two tunnels for a replacement. With
`Window` = 3 and `LOGIND_ACKQUEUE_BOUND` = 1 neither the tunnel nor the ack queue is too full
for the second of two clients; with 2 and 0, which the run has too (`Small` in
`MCLoginTunnel`), one login fills both, and the next one is turned away for the one or the
other.
*Read marks*: three boards are the least that overflow a buffer for two; a list
of two is full with one mark besides the initial one; a list of one entry has 14
bytes and one of two 22, so what is cut off has every kind of length, shorter
than a header too; one date of expiry lies before all articles and one between them.
The marks and the favourites share no variable, so `user_files` explores the
behaviours in which one of the two is at rest. Its `VIEW` leaves `.brc3` out while the
user is logged in, when nothing reads it before it is written again, `.fav` while there
are changes that will replace it, and the backup: if the session dies or the backup
is restored, the file that is loaded is one that an earlier state of the run has saved,
and the states after it are those that were explored from there.
*Favourites*: two folders can lie in each other or side by side; with four entries a
folder can be emptied by `^A` and moved itself in the same command; `MAX_FAV` = 3,
`FAV_MAXDEPTH` = 2, `MAX_LINE` = 1 and `MAX_FOLDER` = 2 are all reached, and so is a folder
beyond the depth. No count can wrap there (`CHAR_MAX` = 4 for four entries). In the other
instance of the run (`Gather` in `MCUserFiles`) two lines or folders in one folder are one too
many for a `char`; they come from one folder, from two, or one of them is there already.
*Chat*: two connections of one person share an invitation or a ban, a third is who
leaves last; one other room besides "main" can be closed and made again under the
same name.

What the run leaves out on purpose, because the code does not do it. `GrantedStays` is
false if `kill_user` meets a torn chain: a registration dies between the two words of
`AddLink` and `AddEnd` with its slot A pointing to n on the chain of free slots, a later
registration appends m to A's chain, behind n; then n, or an account that n has become,
is killed, `AddEnd` ends n's chain, and m is on no chain any more although its user was
told that the account exists. Nothing repairs this short of loading the table anew
(`uhash_loader`). `SearchFinds` is false in the same situation without a kill: a search
that runs on from A into the free slots stands on one of them when it is taken and
moved. Hence `KillAlone` in `MCUserHash` and the conjunct `~ torn` of `SearchFinds`. It is
also false of a search that stands on the very slot that `kill_user` moves, for it goes on
along the chain of the free slots and misses what was behind: `p \notin astray` says that
there is no other way. `KillAmongSearches` keeps a kill from meeting another process
that relinks, since `kill_user` takes no lock (`uhash_kill` and hazard
`mbbsd/user.c:53`), and lets it overlap with everything a search or a registration does
before it writes; `KillEnds` keeps it from dying, for a clean-up that died between two
words has either torn a chain or left the slot on none, and neither is what
that half of the run is about.

`Unwrapped` in `Favourites` is a bound of the model, not of the program: `load_boards` goes on
where a folder number has wrapped below 1 or the counts have wrapped to exactly nothing,
and shows a list that lacks those entries. It takes 128 lines next to 128 boards, say, or
128 folders that came into one folder since it was put in order. The model has no step there, and neither the runs nor the
proofs say anything about what follows.

What the instances leave out to stay small, and the proofs do not. `TornAlone` in
`MCUserHash`: once a chain is torn, the processes run one after the other; up to then they
overlap in every way. A process that dies ends its call, so the registrations that
follow a death are still as many as there are names. `NewStay` and `FewKinds` in
`MCUserFiles`: articles that come after `Now` are not modified, and the favourites hold two
of the three kinds of entries at a time; which two changes during a run. `MissedIsShort`: who
was in a folder beyond the stack saves or dies without another change, since the
only command that looks at `missed` is the one that leaves. `LostInOne` in `MCChatServer`: an
exception in each of both rooms says nothing that one does not, as no count looks at
another room. Every safety property is proved without these four (section 4).

`CHECK_DEADLOCK FALSE` stands where the system may stop: names, bodies or clients
are used up, or every process has died. Symmetry is used only in runs of safety
properties, over processes, spare inodes, boards and folders that nothing tells apart.

What the editor does not promise. `edit_check_healthy` asserts that the cursor is in the
window whenever the loop begins (`mbbsd/edit.c:557`). If the terminal shrinks while a key is
awaited and the key is a character, `edit_window_adjust` is skipped, and the assertion
ends the session: hence `shrunk` in `CursorInWindow`, which says that there is no other way.

### Fairness

Only `LoginTunnel` has liveness properties. Weak fairness is assumed of the clock
(`TimePasses`), of timers and of tunnel events, which libevent's loop serves in turn; of
`start_service`, which runs inside one callback; and of each mbbsd while it is
alive. Clients owe nothing, neither to log in nor to hang up nor to be silent
(`Disconnect`, `Keys`): hence `EveryConnectionEnds` allows a connection to stay if its client
sends keys again and again, which anti-idle clients do (`daemon/logind/logind.c:1993`).
mbbsd may die and `fork()` may fail at any time. No other model
has a promise about progress: the code has no queue or fairness for its locks.

### Disagreements found

`findings` of PROJECT.json has the quotations.

1. `common/sys/record.c:222` - an article appended while `delete_record2` runs may
   be cut off after its author was told that it was posted.
2. `mbbsd/bbs.c:2664` - a comment may get the lock of an inode that an edit has
   just replaced, and is lost although it is reported as made.
3. `mbbsd/user.c:53` - `kill_user` frees a slot before it wipes its record, without
   the lock of `setupnewuser`; the wipe can hit the next owner.
4. `daemon/logind/logind.c:1347` - the retry command is not run when the end of file
   of the tunnel is seen before a send fails.

## 4. Proofs

`RecordFileProofs` proves, for any number of processes, names, records and any
`BufRecs`:

- `TypeCorrect`: `Spec => []TypeOK`, for every set of operations, through
  `TypeInv`, which adds what the locals of each label are.
- For instances whose operations are append and safe delete
  (`SafeOps`, the way boards with SAFE_ARTICLE_DELETE work):
  `AppendedStaysCorrect` (`[]AppendedStays`), `SubstituteCorrect`
  (`SubstituteRewritesWhatItRead`) and `ListingCorrect` (`Spec => ImplementsListing`).
- With calls of any kind that come one at a time (`[]OneAtATime`; a process that dies ends
  its call): `DeleteIsExactCorrect` and `OnlyDeletedNamesVanishCorrect`. Without that
  premise both are false (section 3).

`AppendedStays` is not inductive: a write could hit the wrong place. `SafeInv`
adds that

- one process is between `flock()` and its release, and the end it measured is
  still the end (`OneAppender`);
- names being appended are in no entry and no two processes append the same
  one (`NamesAreFresh`);
- what the history says was written is where it says (`WrittenStays`);
- two substituters of one entry are not inside the range lock together. The lock of
  `substitute_record2` covers another range than its entry, since `PttLock` counts
  from the cursor after `lseek`; that all of them compute the range alike is what
  excludes them (`OneSubstituter`).

`Keeps` states what any step of one process leaves to the others; each action is
shown to preserve the parts it can disturb. The assumptions are those named in
`RecordFile`: the two special names differ from ordinary ones, the initial names
are distinct, `BufRecs` is positive.

`AloneInv` says what a call alone on the file knows of it at each label (`Knows`): while it
copies, the file is the listing it found with the first d records behind the deleted
ones moved down (`MovedBy`), and the buffer holds the next ones (`InBuf`).
`CopyBlock` is one turn of the loop, `CutIsExact` its end, and `NamesKept` compares any two
points of it: what may be missing at the later one is a deleted record. The loop needs
no induction besides that of the invariant.

`ArticleFileProofs` proves, for any processes, authors, comments, bodies and inodes:

- `TypeCorrect` (`[]TypeOK`) and `LocksCorrect` (`[]LocksGuardWork`), for every set
  of operations. `TypeInv` adds that who works on a file has opened one, and who
  works on a copy has made it (`FilesKnown`).
- `ScoreCorrect` (`[]ScoreWithinVotes`), for every set of operations. The score in the
  listing is not what is bounded inductively: a header that a process has read
  waits in its locals while others vote, delete and edit. `ScoresFit` bounds it and
  every such header by the comments whose vote nobody carries any more (`Settled`; for
  the header in hand, nobody else), and `ItemsKnown` says that a comment is in one
  hand only and counted from its write on.
- `ThreadCorrect` (`Spec => ImplementsThread`) for instances with one session of the
  author and no deletion or death (`OneEditor`, which the instance of `article_edit`
  satisfies; with two sessions, or a deletion or a death inside an edit, an edit is
  replaced or the article lost, see the hazards). `ThreadInv` adds to the locks and the items that the name
  leads to an article except between `EUnlink` and `ERename` (`PathKnown`), that
  nobody else has the copy open, that a comment not yet written is in no text
  (`TextsKnown`), and what the copy is at each step of the edit: what was copied is still
  the beginning of the article, and from the merge to the rename the copy has all of
  the article's comments (`CopyKnown`). That last part is stable because every
  commenter needs the lock that `EFlock` took on the old inode.

`UserHashProofs` proves, for any processes, ids, buckets and hash and any finite set of
slots:

- `TypeCorrect` (`[]TypeOK`), for every set of operations;
- `GrantedKeepsCorrect` (`[]GrantedKeepsRecord`), `GrantedStaysCorrect`
  (`[]GrantedStays`) and `SearchFindsCorrect` (`SearchFinds`) where nobody kills (`NoKill`:
  the operations are registrations and deaths, at any word). The first two are false of
  `kill_user` as it is: `uhash_kill` and "What the run leaves out on purpose" above say how.

`SlotInv` is mutual exclusion: who has passed `passwd_lock()` holds the semaphore, and
the slot in its hands is free until it is named and no granted account's after that.
`ChainInv` is about the chains, which are no disjoint lists once a process has died.
`Reach(L, x, A)` is what a walk along the links `L` meets from `x` on, up to the first
cell of `A`; it is defined as the least closed set, so that closure and minimality take
the place of induction. With it

- `Table` says what holds between registrations: the free slots that are still to be
  taken have one way in besides the chain before them (`OneWay`), and an account
  reaches its place either before the first free slot or by the very link that is
  turned when that slot is taken (`Safe`);
- `InHand` says what holds while slot n is unlinked: where its link leads, another link
  of the chain of free slots leads too, and no account needs n to be reached.

`UnlinkHand`, `NameHand`, `LinkHand` and `EndTable` follow a slot through
`setuserid`, and `HandTable` (`InHand` implies `Table`) is why a death in between does no
harm. `ReachWalk` leads back to `OnChain`, whose walk counts: after as many links as
there are slots it has met Nil or a slot twice. The assumption is `TableAssumption`. That
a slot on a chain is linked to once at the start is what `uhash_loader` does, which adds
each at the end of its chain (`util/uhash_loader.c:134`); it leaves all but a thousand of
the free slots on no chain, and what their `next_in_hash` holds does not matter.

`FindInv` is about searches, and needs no lock. `Turned` is what a registration may turn:
the chain of free slots and the slot in hand. `Sound` says that, until a process has torn
a chain, no cell is linked to twice and the slot in hand leads where it led before, so
that the chain of another bucket does not meet the free slots. `Way` says of a search that
was started with its key on a chain that a slot with the key is still ahead of it, before
any cell that may be turned, and that the slots it has met are as many as its `times`:
this is why the loop does not give up first. `SoundMeets` puts a search on its way,
`WayOn` takes it one link further, and `WayStays` is why what others turn does not lead it
off. `UnlinkSound`, `NameSound`, `LinkSound` and `EndSound` show that `setuserid` keeps
`Sound`. That a chain is torn only by a death between the two words of `cache.c:180`, and
that the chain of the free slots is the only other one that a search can stray from, is
what the exceptions in `SearchFinds` say. `astray` plays no part in the proof, as there
are no kills: searches among kills are what the run `uhash_register` adds.

`LoginTunnelProofs` proves, for any clients, tunnels, finite set of addresses, bounds and
failures (`Ops`):

- `TypeCorrect` (`[]TypeOK`), `QueueMatchesCorrect` (`[]QueueMatches`) and
  `AckEndsCorrect` (`AckEndsOnlyHanded`), from `IInv`;
- `InStepCorrect` (`[]InStep`), from `IInv /\ OrderInv`.

It first shows what `ackq_add` and `ackq_del` do, through every branch and
`ackq_gc`: they keep the queue consistent and add or remove one connection
(`AddKeeps`, `DelKeeps`). `IInv` then says that the queue is the set of connections
in state WAITACK (`QueueInv`), that each of them was handed over (`WaitersHanded`),
and what `start_service` and mbbsd hold (`ConnInv`, `LoopInv`, `TunnelInv`). `InStep`
speaks of the first message of a tunnel only and is not inductive. `OrderInv` says of
every tunnel that a socket is followed by the data of its client and data by a socket,
starting from what mbbsd has already taken (`Ordered`), and of the tunnel in use that
it ends with a whole login except between the two sends of `start_service`
(`TunnelOwed`). The step that needs the code to be right is `StartFails`: were the
tunnel kept after a failed send, `TunnelOwed` would not survive it. The assumption is
`TunnelAssumption` of `LoginTunnel`.

`ChatServerProofs` proves all four properties of `ChatServer`, for any finite set of
connections, any accounts and rooms, any number of connections lost with an exception:
`TypeCorrect`, `RoomsCountedCorrect`, `LockedKeepsOutCorrect` and
`RightsStayBehindCorrect`. The inductive invariant `IInv` (`Inductive`) adds to
`RoomsCounted` that

- an unused connection has no room and no name, and only who is in a room has the
  rights of an operator (`UserOK`), so that they cannot be carried into the next one;
- a room that is not listed has no invitations (`Good`), so that none waits for the
  next room of that name;
- the invitations of a room are among those made for stays that have not ended
  (`Invited`).

The middle of a command is where it could go wrong, so `Good` and `Counted` speak
of tables and not of the variables: `ExitGood`, `ArriveGood`, `MadeGood` and
`EnterGood` say what each function of the server needs and leaves. `Counted` takes a
set of rooms that are open with nobody in them yet: between the making of a room and
`arrive_room` there is one, and `exit_room` must not be called for it. The assumption is
`ChatAssumption`.

`ReadMarksProofs` proves all four properties of `ReadMarks`, for any boards, articles and
times, any `BRC_MAXNUM`, and any block and buffer size that `ReadMarksAssumption` allows:
`TypeCorrect`, `BufferKeptCorrect`, `ReadStaysCorrect` and `NewIsUnreadCorrect`, from
`IInv`.

- `BufferInv` adds to `BufferKept` that the allocated size is a number of blocks
  (`Whole`), which is why one block is always enough and never too much, and that the
  file is one that fits. The sum of the bytes of a buffer is 6 for each record and 8 for
  each place in the lists (`Places`), so that what a step adds or takes away is a
  statement on cardinalities (`PutBytes`, `WithoutBytes`, `SetBytes`) and no
  induction. `CutIs` says that the first record always survives a cut, since a block
  holds one full list.
- `BoardInv`: the list in the session differs from the buffer only while the user is in
  the board.
- `SeenInv` and `NewInv` are what `ReadStays` and `NewIsUnread` rest on. Neither of those
  is inductive: while a changed list waits for `brc_update` the answer comes from the
  list, afterwards from the buffer, and the next session's from the file. `SeenInv` says
  that the mark is in whichever of them will be asked next (`Here`, `Stored`). It also says
  that a list without changes shows nothing as read that the record of its board does not,
  for such a list is never written: a mark that changes nothing would be gone with it.
- `ReadIn` says it without the search, and with a stronger comparison than that of
  `brc_unread_time`: a mark of which no time of modification is known answers "read", but
  `brc_addlist` may put a time there (`Covered`).

`InsertIs`, with its conclusion `Kept`, is what all commands need to know of
`brc_insert_record`, and `AddToIs` what `brc_addlist` does. `ReadShows` and `NewerShows` lead
back to `brc_unread_time`.

`FavouritesProofs` proves all five properties of `Favourites`, for any boards, any finite
set of folders in memory and all limits: `FavTypesHold`, `CountersHold`, `TreeHolds`,
`SavedSeen` and `MovesKeepAll`, from `FavInv`. The assumption is `FavAssumption`, which does not
say that the entries of a folder are as few as a `char` counts.

- `Sound` says of one folder that its counts are those of the entries that still have
  their flag, that no folder in it has a number above `folderID` and no two the same, and
  that an entry leads to a folder exactly if it is one (`Proper`). What `fav_increase`,
  `fav_remove`, `set_attr`, `move_in_folder` and `rebuild_fav` do to it is in
  its first part (`ExtendedIs`, `RemovedIs`, `TagSetIs`, `ShiftedIs`, `ArrangedIs`).
- `AllSmall` says that all counts and folder numbers of the tables are within a `char`.
  `^A` can make tables of which it is false, so the proof does not show that it is kept:
  it shows that the tables are small if the list can be shown (`Shows`). `FolderFits` goes
  back from the list to the counts: if the unwrapped number of lines or folders were more
  than a `char` holds, some entry would have no place or no number. For tables that are shown
  `Char` is therefore the identity, and what `^A` did is what it does with
  unbounded counts (`Grown`, `AddedIs`). Commands that make one entry stay within the
  limits by their guards (`OneFits`, `BoardFits`).
- `Whole` says of all folders that at most one entry leads to each and none to the
  outermost one (`Linked`), and that `fav_number` is their number of entries and what
  leaked. That is less than a tree: folders in a circle would satisfy it. The tree is what
  can be come to from the outermost folder, and `Tidy` says that there is nothing else, for
  `Forget` takes away what a removal cuts off.
- The user's way into the folders is a path of the tree without repetition (`Path`). That
  is why `^A` cannot cut off a part of it: a folder on the stack is not moved, and every
  other goes to a folder that stays where it is (`MovesStay`). The entries after it are
  those before at other places (`SameEntries`, a bijection).
- Every command leaves tables that `Follows` those before: in order, the same path, and
  with `dirty` set if the user sees something else now (`Seen`). So the file is what he
  sees or will be written.
- `FileOK` says of a file that some tables in order look like it. `LoadedIs` and `ReadIs`
  show that `fav_load` makes such tables again, though all lines and folders get new
  numbers, and `WrittenIs` that `write_favrec`, which counts, writes what is seen, since
  `fav_cleanup` came before.

Sums over folders (`Total`) are cardinalities of sets of places (`TotalIs`, by way of
a smallest set of folders for which it fails), and `Below` is the least set closed under `Child`, so
that no recursion is needed.

`EditorProofs` proves all four properties of `Editor`, for any lines in memory, any
`WRAPMARGIN` from 2 on, any limits on the number of lines and any heights of the screen
from 3 on: `EditTyping`, `ListsHealthy`, `AlwaysRoom` and `CursorShown`, from `EditInv`
(`EditInvariant`). The assumption is `EditAssumption`.

- `Sound` is what holds after every step: `Listed` (the list, its ends, its number of lines,
  and the pointers that lead into it or must not), `Lengths`, `Selected`, `CursorAt` and
  `WindowAt`. `Lengths` says more than `RoomToType`. The line that `delete_line` keeps for
  undelete has to be shorter than `WRAPMARGIN` too, or undeleting it would make a line
  that is full; and `oldcurrline`, wherever it is, still has all of its memory, so that the line
  that gave it up is always found again.
- Inside of a key less is true: the cursor may have left the window upwards
  (`Near`). `KeyEndsWell` shows that the end of the loop makes a sound buffer of a near one.
  So every key needs to be near only: `LineUpIs`, `PagesAre`, `JoinIs`, `BackspaceIs`,
  `UndeleteIs`, `BlockDeletedIs` and so on, one for each function of the code.
- Where `edit_window_adjust` is skipped, nothing mends the window: a typed character has
  to leave it as it is, or adjust it itself, which `split` does (`Typed`, `CharIs`).
  `TypedVisible` is why only a terminal that shrinks can bring the cursor out of it.
- `SplitIs` is stated for a line that may be full (`LengthsBut`): this is what `insert_char`
  hands to `split`, and nothing in `Sound` allows it.
- A block is remembered as a line and its number. The operations that renumber lines are
  proved for buffers without one, `BlockDeletedIs` apart: each key that
  calls them cancels the block before (`CancelSound`), and loading starts without one
  (`phase = "load" => ed.blockln < 0`).
- The list is a sequence; `SplicedIs` and `WithoutIs` say what putting a line in and taking
  lines out does to places, so that no induction along the links is needed.

With TLC only: the liveness properties `EveryLoginIsServed`, `EveryConnectionEnds` and
`FullRecovers` (with two kinds of bounds: `EitherRecovers`), and `SearchFinds` where accounts are killed.
Liveness and ENABLED are outside what the provers here can do. Theorems of induction
that take an operator as a parameter are too; where induction is needed it is stated
for sets of numbers (`SetInduction` in `UserHashProofs`).

## 5. Not modelled, and assumptions

- Disks do not fail, `write()` of a record is atomic to readers under its lock,
  and memory is sequentially consistent word by word.
- Text wording, screens, charsets, Big5 and ANSI handling, logging.
- Editor: what the lines hold, what is drawn, the header and the signature that `write_file`
  asks for, the files that a block is copied to, and the money counted by key presses.
- Registration forms, bans, guest limits, the telnet protocol, logind's synchronous ack
  mode, the death of logind.
- Read marks: `brc_search_read`, the remote store, guests, a session that dies
  before `u_exit`, and articles whose creation is the very second of
  `brc_expire_time` (`ReadMarksAssumption`): `brc_putrecord` (`mbbsd/brc.c:121`)
  then writes nothing although room was made for the record.
- Favourites: titles, unread marks, the keyword filter, what administrators tag and
  paste, the old format `.fav4`, lists that are shown although a number or count has
  wrapped (`Unwrapped`), files that cannot be written, and `updatenewfav`, whose only call is commented out. A line that `^A` moves
  keeps its number although the comment on `add_and_remove_tag` (`mbbsd/fav.c:1001`) asks
  for a new one, so `FoldersFormTree` speaks of folders only.
- Chat: messages and ignore lists, topics, chat ids, secret rooms, raised hands, and
  the order of the list of connections.
- What another host does: all processes run on one machine, as `SHM` requires.
- The components whose status in PROJECT.json is `not_modelled`, with the reason. Most
  lines of the repository are in them: screens, the pager, games, forms,
  reports, one-time conversions. They have state of one session that nothing else
  reads, and little that a property could say beyond what they print.
- Money, whole user records, online users and water balls are races by construction:
  read in one place, written in another, no lock. Whatever holds of them would hold
  only in a model that leaves the other process out.

What `^A` does to a user who gathers more lines or folders in one folder than a `char`
counts is in the model and in no run that fails: the session ends at the assertion of
`addnewbrdstat` (`mbbsd/board.c:1131`), with what was changed since the last save lost. No
document says that it would not.

Hazards that are real but in no model, besides those listed in PROJECT.json: a range
delete renumbers a listing under whoever reads it (`mbbsd/record.c:192`); two water
balls in one cell (`mbbsd/talk.c:975`); a process that dies between `link()` and the
count of a revision (`mbbsd/timecap.c:139`); what follows when the chat server uses a
connection that it freed (`util/xchatd.c:3099`).

## 6. Plan

Done in this order: `RecordFile` (everything else stands on it), `ArticleFile`,
`UserHash`, `LoginTunnel`, `ReadMarks`, `ChatServer`, `Favourites`, `Editor`. What would come next,
most important first:

1. More of `ReadMarks`: `brc_search_read` (returns the nearest read article; the
   comment above it says that the last entry of a list is always `create` = 1, which
   a full list does not keep), two sessions on one `.brc3`, the remote store.
2. `Account` (`pwcu*`, `deumoney`, `setumoney`): whole-record write-back of two
   sessions, money in `SHM`; abstract: every completed update stays.
3. `Board` (`reload_bcache`, `sort_bcache`, `getbnum`, `setbtotal`): busy flags
   overruled after ten tries, dead holders; a finished reload leaves a
   permutation.
4. `Utmp` (`getnewutmpent`, `my_write`, `write_request`): slots, message counts and
   signals; mostly violation runs.
5. Composition of `RecordFile` and `ArticleFile` over one `.DIR` entry
   (`modify_dir_lite` against `safe_article_delete`).
6. `delete_range` and the locks of `nolfilename` beside `RecordFile`.

Every safety property that a passing run checks is a theorem; for a further module the
order is the same: the properties with TLC, then the inductive invariant with TLC, then the
proof.
