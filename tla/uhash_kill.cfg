\* A registration takes the slot of an account that is being killed.
SPECIFICATION Unbound
CONSTANTS
    p1 = p1 p2 = p2 s1 = s1 s2 = s2 s3 = s3
    h0 = h0 h1 = h1 x = x y = y o = o old = old older = older
    Procs = {p1, p2}
    Slots = {s1, s2}
    Buckets = {h0, h1}
    Nil = Nil
    New = {x, y}
    Old = {o}
    Empty = Empty
    Hash <- HashApart
    InitUser <- Full
    InitLink <- FullLink
    Nobody = Nobody
    Ops = {"register", "kill"}
SYMMETRY Registrants
INVARIANT GrantedKeepsRecord
