\* Two clients, two addresses, and two mbbsd, so that the tunnel of one
\* is replaced by that of the other at any moment; MCLoginTunnel has the
\* smaller bounds.
SPECIFICATION EitherBounds
CONSTANTS
    c1 = c1  c2 = c2  a1 = a1  a2 = a2  t1 = t1  t2 = t2
    Clients = {c1, c2}
    Addrs = {a1, a2}
    Tunnels = {t1, t2}
    Null = Null
    LOGINATTEMPTS = 1
    LOGIND_ACKQUEUE_BOUND = 1
    LOGIND_MAX_RETRY_SERVICE = 1
    Window = 3
    RetryCmd = TRUE
    Started = 2
    Ops = {"die", "refuse", "nofork", "overload"}
INVARIANTS TypeOK QueueMatches InStep
PROPERTIES AckEndsOnlyHanded EveryLoginIsServed EveryConnectionEnds EitherRecovers
\* Every client is served or logind is stuck.
CHECK_DEADLOCK FALSE
