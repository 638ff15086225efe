--------------------------- MODULE MCArticleFile ----------------------------
(* Small instances of ArticleFile for TLC.                                 *)
EXTENDS ArticleFile, TLC

CONSTANTS a1, c1, c2, k1, k2, k3, b0, b1, b2, i0, i1, i2, i3, i4

Readers == Permutations({c1, c2})
Spare == Permutations(Inodes \ {Inode0})
SpareAndReaders == Spare \cup Readers
Sessions == Permutations({a1, c1})
SpareAndSessions == Spare \cup Sessions
=============================================================================
