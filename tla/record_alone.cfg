\* One process at a time uses every operation on the file, and may die.
SPECIFICATION Spec
CONSTANTS
    Procs = {p1}
    Names = {"a", "b", "c", "d"}
    FN_SAFEDEL = "deleted"
    Zero = "zero"
    InitNames <- ThreeEntries
    BufRecs = 2
    Ops = {"append", "substitute", "substitute2", "delete2", "deletes"}
PROPERTIES OnlyDeletedNamesVanish DeleteIsExact
CHECK_DEADLOCK FALSE
