\* A real delete runs while another process posts.
SPECIFICATION Spec
CONSTANTS
    Procs = {p1, p2}
    Names = {"a", "b", "c"}
    FN_SAFEDEL = "deleted"
    Zero = "zero"
    InitNames <- TwoEntries
    BufRecs = 4
    Ops = {"append", "delete2"}
CHECK_DEADLOCK FALSE
PROPERTIES OnlyDeletedNamesVanish
