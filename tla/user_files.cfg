\* The marks: the lists of two boards fit into the buffer, those of three do
\* not.  The favourites: two folders, one in the other or side by side, next to
\* boards and lines, and a stack that one of them fills; MCUserFiles has the
\* limits of the other instance.
SPECIFICATION UserSpec
CONSTANTS
    b1 = b1 b2 = b2 b3 = b3
    Boards = {b1, b2, b3}
    Nobid = Nobid
    Articles = {3, 6}
    Mods = {6, 7}
    Now = 5
    Expires = {2, 4}
    BRC_MAXNUM = 2
    BRC_MAXSIZE = 44
    BRC_BLOCKSIZE = 22
    w1 = w1 f0 = f0 f1 = f1 f2 = f2
    FavBoards = {w1}
    Dirs = {f0, f1, f2}
    Root = f0
    NoDir = NoDir
    Gone = Gone
    FAV_MAXDEPTH = 2
    MAX_FAV = 3
    MAX_LINE = 1
    MAX_FOLDER = 2
    CHAR_MAX = 4
    MaxEntries = 4
    MaxMissed = 1
VIEW FilesUnread
SYMMETRY Alike
INVARIANTS TypeOK BufferKept ReadStays NewIsUnread FavTypeOK  FoldersFormTree
PROPERTIES SavedAsSeen MovesLoseNothing
