\* Two sessions of the author and a reader do everything, and die.
SPECIFICATION Spec
CONSTANTS
    a1 = a1 c1 = c1 c2 = c2 k1 = k1 k2 = k2 k3 = k3
    b0 = b0 b1 = b1 b2 = b2 i0 = i0 i1 = i1 i2 = i2 i3 = i3 i4 = i4
    Procs = {a1, c1, c2}
    Authors = {a1, c1}
    Comments = {k1, k2}
    Good = {k1, k2}
    Bad = {}
    Bodies = {b0, b1}
    Body0 = b0
    Inodes = {i0, i1, i2, i3}
    Inode0 = i0
    NoInode = NoInode
    Nobody = Nobody
    LockRetry = 1
    MAX_RECOMMENDS = 1
    Ops = {"comment", "edit", "delete", "crash"}
\* The article is deleted and nobody is left with anything to do.
CHECK_DEADLOCK FALSE
SYMMETRY SpareAndSessions
INVARIANTS TypeOK LocksGuardWork ScoreWithinVotes
