\* The mbbsd that holds the tunnel dies.
SPECIFICATION LargeBounds
CONSTANTS
    c1 = c1  c2 = c2  a1 = a1  a2 = a2  t1 = t1  t2 = t2
    Clients = {c1, c2}
    Addrs = {a1, a2}
    Tunnels = {t1, t2}
    Null = Null
    LOGINATTEMPTS = 1
    LOGIND_ACKQUEUE_BOUND = 1
    LOGIND_MAX_RETRY_SERVICE = 1
    Window = 3
    RetryCmd = TRUE
    Started = 1
    Ops = {"die"}
PROPERTY BrokenTunnelIsReplaced
\* Every client is served or logind is stuck.
CHECK_DEADLOCK FALSE
