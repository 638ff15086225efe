\* Two processes register ids, or one at a time kills an expired account; each
\* may die at any word, and the registrations that follow, one at a time, find
\* what it left.  Or accounts are killed on the chain that a search walks.
SPECIFICATION AnyStart
CONSTANTS
    p1 = p1 p2 = p2 s1 = s1 s2 = s2 s3 = s3
    h0 = h0 h1 = h1 x = x y = y o = o old = old older = older
    Procs = {p1, p2}
    Slots = {s1, s2, s3}
    Buckets = {h0, h1}
    Nil = Nil
    New = {x, y}
    Old = {o, old, older}
    Empty = Empty
    Hash <- HashShared
    InitUser <- OneUser
    InitLink <- OneUserLink
    Nobody = Nobody
    Ops = {"register", "kill", "crash"}
SYMMETRY Registrants
INVARIANTS TypeOK GrantedStays
PROPERTY SearchFinds
