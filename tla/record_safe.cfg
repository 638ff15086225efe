\* Three processes post and safely delete on one listing.
SPECIFICATION Spec
CONSTANTS
    Procs = {p1, p2, p3}
    Names = {"a", "b", "c"}
    FN_SAFEDEL = "deleted"
    Zero = "zero"
    InitNames <- OneEntry
    BufRecs = 4
    Ops = {"append", "substitute2"}
INVARIANTS TypeOK AppendedStays
PROPERTIES SubstituteRewritesWhatItRead ImplementsListing
