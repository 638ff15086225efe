\* The file: one author edits twice while two readers comment.
\* The text: lines of up to three bytes in windows of two to four lines; six bytes
\* are room for each way to break a line and to join two.
SPECIFICATION ArticleSpec
CONSTANTS
    a1 = a1 c1 = c1 c2 = c2 k1 = k1 k2 = k2 k3 = k3
    b0 = b0 b1 = b1 b2 = b2 i0 = i0 i1 = i1 i2 = i2 i3 = i3 i4 = i4
    Procs = {a1, c1, c2}
    Authors = {a1}
    Comments = {k1, k2}
    Good = {k1}
    Bad = {k2}
    Bodies = {b0, b1, b2}
    Body0 = b0
    Inodes = {i0, i1, i2, i3}
    Inode0 = i0
    NoInode = NoInode
    Nobody = Nobody
    LockRetry = 1
    MAX_RECOMMENDS = 1
    Ops = {"comment", "edit"}
    l1 = l1 l2 = l2 l3 = l3 l4 = l4 l5 = l5
    Lines = {l1, l2, l3, l4, l5}
    NoLine = NoLine
    WRAPMARGIN = 4
    EDIT_LINE_LIMIT = 4
    MAX_EDIT_LINE = 3
    Sizes = {3, 4}
    MaxSize = 6
CONSTRAINT TextIsShort
VIEW MemoryUnseen
SYMMETRY SpareAndReaders
INVARIANTS EditTypeOK ListHealthy RoomToType CursorInWindow
PROPERTY ImplementsThread
