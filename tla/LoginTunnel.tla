---------------------------- MODULE LoginTunnel ----------------------------
(***************************************************************************)
(* How a login passes from logind to mbbsd (daemon/logind/logind.c and     *)
(* tunnel_login of mbbsd/mbbsd.c).  logind is one process around one event *)
(* loop: it accepts clients, authenticates them, and sends the socket and  *)
(* the login data of each through a tunnel, a Unix socket that mbbsd       *)
(* connects.  mbbsd answers each login with the pointer it came with, and  *)
(* forks a process to serve the client.  A connection is a                 *)
(* login_conn_ctx, known by its address: the address of one that was freed *)
(* may be that of a later one.                                             *)
(*                                                                         *)
(* One step is one event callback of logind, cut where it uses the tunnel, *)
(* or one system call of mbbsd.  The mode is g_async_ack, the default.     *)
(***************************************************************************)
EXTENDS Integers, Sequences, FiniteSets, AckQueue

CONSTANTS
    Clients,  \* who may come back until their login is handed over
    Addrs,    \* where a login_conn_ctx can be
    Tunnels,  \* each is the connection of one run of mbbsd
    Null,     \* no address, no tunnel, no client
    LOGINATTEMPTS, LOGIND_ACKQUEUE_BOUND, LOGIND_MAX_RETRY_SERVICE,
    Window,   \* how many messages a tunnel holds before it counts as full
    RetryCmd, \* is g_retry_cmd set?
    Started,  \* how many mbbsd are started by hand
    Ops       \* what may go wrong in this instance

ASSUME TunnelAssumption ==
    /\ Null \notin Clients \cup Addrs \cup Tunnels
    /\ LOGINATTEMPTS \in Nat \ {0}
    /\ LOGIND_ACKQUEUE_BOUND \in Nat /\ LOGIND_MAX_RETRY_SERVICE \in Nat
    /\ Window \in Nat /\ RetryCmd \in BOOLEAN
    /\ IsFiniteSet(Addrs) /\ Started \in Nat
    /\ Ops \subseteq {"die", "refuse", "nofork", "overload"}

VARIABLES
    conn,     \* the login_conn_ctx at every address, Freed if none
    ackq,     \* g_ack_queue
    g_opened_fd, g_overload, g_retry_times,
    g_tunnel, \* Null for 0
    ev_ack,   \* the tunnel ev_ack is registered for
    lpc,      \* where logind is: in its loop, or inside start_service
    cur,      \* the connection start_service works for
    data,     \* what logind wrote to each tunnel and mbbsd has not read
    acks,     \* what mbbsd wrote to each tunnel and logind has not read
    lend,     \* logind's end of each tunnel
    mb,       \* what the mbbsd of each tunnel is about to do
    csock,    \* its csock
    dat,      \* its dat
    starting, \* commands started that have not connected a tunnel yet
    handed,   \* history: clients whose login was written to a tunnel
    served,   \* history: how many processes were forked for each client
    dropped   \* history: clients for whom fork() failed

logind == <<conn, ackq, g_opened_fd, g_overload, g_retry_times, g_tunnel,
            ev_ack, lpc, cur>>
mbbsd == <<mb, csock, dat, starting>>
history == <<handed, served, dropped>>
vars == <<logind, data, acks, lend, mbbsd, history>>

-----------------------------------------------------------------------------
\* who: the client; state: ctx.state, INIT and PASSWD taken as USERID; retry:
\* ctx.retry; timer: conn->ev is the timer of login_conn_remove, and no longer
\* reads the client; idle: some of the idle timeout of conn->ev has passed.
Conn == [who : Clients, state : {"USERID", "AUTH", "WAITACK"},
         retry : 0..LOGINATTEMPTS, timer : BOOLEAN, idle : BOOLEAN]
Freed == [who |-> Null, state |-> "", retry |-> 0, timer |-> FALSE, idle |-> FALSE]

\* What goes through a tunnel: a socket, then the data of its login.
Msg == [kind : {"fd", "data"}, who : Clients, ack : Addrs \cup {Null}]
Fd(c) == [kind |-> "fd", who |-> c, ack |-> Null]
LoginData(c, a) == [kind |-> "data", who |-> c, ack |-> a]

Live == {a \in Addrs : conn[a] # Freed}
Alive(t) == mb[t] \in {"recv", "read", "ack", "fork"}

Init ==
    /\ conn = [a \in Addrs |-> Freed]
    /\ ackq = EmptyQueue
    /\ g_opened_fd = 0 /\ g_overload = FALSE /\ g_retry_times = 0
    /\ g_tunnel = Null /\ ev_ack = Null
    /\ lpc = "loop" /\ cur = Null
    /\ data = [t \in Tunnels |-> <<>>]
    /\ acks = [t \in Tunnels |-> <<>>]
    /\ lend = [t \in Tunnels |-> "none"]
    /\ mb = [t \in Tunnels |-> "off"]
    /\ csock = [t \in Tunnels |-> Null]
    /\ dat = [t \in Tunnels |-> Null]
    /\ starting = Started
    /\ handed = {} /\ dropped = {}
    /\ served = [c \in Clients |-> 0]

-----------------------------------------------------------------------------
(* logind: the ends of a connection                                        *)

\* login_conn_remove(conn, fd, sleep_sec): endconn_cb later.
Sleep(a, state) ==
    [conn EXCEPT ![a].state = state, ![a].timer = TRUE, ![a].idle = FALSE]

\* Variant: a connection that waits for its ack is freed and stays queued.
UnqueuedNot(a) == ackq

Unqueued(a) == IF conn[a].state = "WAITACK" THEN ackq_del(ackq, a, Null) ELSE ackq

\* Variant: the descriptor is not counted down.
EndConnUncounted(a) == conn' = [conn EXCEPT ![a] = Freed] /\ UNCHANGED g_opened_fd

\* endconn_cb
EndConn(a) ==
    /\ conn' = [conn EXCEPT ![a] = Freed]
    /\ g_opened_fd' = g_opened_fd - 1

\* listen_cb and login_ctx_activate; reload_data looks at the load if its time
\* has come.  A banned client is turned away like one that meets overload.
Accept(c) ==
    /\ lpc = "loop"
    /\ \A a \in Live : conn[a].who # c
    /\ c \notin handed /\ c \notin dropped
    /\ \E a \in Addrs \ Live, turned \in BOOLEAN :
        /\ g_overload' \in {g_overload, FALSE}
                             \cup (IF "overload" \in Ops THEN {TRUE} ELSE {})
        /\ turned => "overload" \in Ops
        /\ conn' = [conn EXCEPT ![a] = [who |-> c, state |-> "USERID",
                        retry |-> 0, timer |-> g_overload' \/ turned,
                        idle |-> FALSE]]
    /\ g_opened_fd' = g_opened_fd + 1
    /\ UNCHANGED <<ackq, g_retry_times, g_tunnel, ev_ack, lpc, cur, data, acks,
                   lend, mbbsd, history>>

\* Is the client read, by client_cb?
Read(a) == lpc = "loop" /\ a \in Live /\ ~ conn[a].timer

ClientEnds(a) ==
    /\ EndConn(a)
    /\ ackq' = Unqueued(a)
    /\ UNCHANGED <<g_overload, g_retry_times, g_tunnel, ev_ack, lpc, cur, data,
                   acks, lend, mbbsd, history>>

\* client_cb: end of file, or an error.
Disconnect(a) == Read(a) /\ ClientEnds(a)

\* client_cb on EV_TIMEOUT.
IdleTimeout(a) == Read(a) /\ conn[a].idle /\ ClientEnds(a)

SetIdle(a, idle) ==
    /\ Read(a) /\ conn[a].idle # idle
    /\ conn' = [conn EXCEPT ![a].idle = idle]
    /\ UNCHANGED <<ackq, g_opened_fd, g_overload, g_retry_times, g_tunnel,
                   ev_ack, lpc, cur, data, acks, lend, mbbsd, history>>

\* The idle timeout runs.
TimePasses(a) == SetIdle(a, TRUE)

\* client_cb, login_conn_handle_terminal: keys that end no prompt.  The event is
\* EV_PERSIST, and whatever comes starts its timeout anew.
Keys(a) == SetIdle(a, FALSE)

\* Variant: there is no timeout for a connection that waits for its ack.
TimerSetUnqueued(a) == conn[a].timer /\ conn[a].state # "WAITACK"

TimerSet(a) == conn[a].timer

\* endconn_cb: the timer, or an error of the buffered output.
TimerEnds(a) ==
    /\ lpc = "loop"
    /\ a \in Live /\ TimerSet(a)
    /\ EndConn(a)
    /\ ackq' = Unqueued(a)
    /\ UNCHANGED <<g_overload, g_retry_times, g_tunnel, ev_ack, lpc, cur, data,
                   acks, lend, mbbsd, history>>

-----------------------------------------------------------------------------
(* logind: authentication and start_service                                *)

\* auth_fail
AuthFail(a) ==
    LET n == conn[a].retry + 1 IN
    /\ Read(a) /\ conn[a].state = "USERID"
    /\ conn' = [conn EXCEPT ![a].retry = n, ![a].timer = n >= LOGINATTEMPTS,
                            ![a].idle = FALSE]
    /\ UNCHANGED <<ackq, g_opened_fd, g_overload, g_retry_times, g_tunnel,
                   ev_ack, lpc, cur, data, acks, lend, mbbsd, history>>

\* Was there ever a tunnel, and g_tunnel_send_buffer_size set?
SizeKnown == \E t \in Tunnels : lend[t] \in {"open", "closed"}

\* is_tunnel_available
TunnelAvailable ==
    /\ ackq_size(ackq) <= LOGIND_ACKQUEUE_BOUND
    /\ SizeKnown
    /\ g_tunnel # Null => Len(data[g_tunnel]) < Window

\* auth_start, once the password is right
AuthStart(a) ==
    /\ Read(a) /\ conn[a].state = "USERID"
    /\ \/ /\ g_overload \/ ~ TunnelAvailable
          /\ g_overload' = TRUE
          /\ conn' = Sleep(a, "AUTH")
          /\ UNCHANGED <<lpc, cur>>
       \/ /\ ~ g_overload /\ TunnelAvailable /\ g_tunnel = Null
          /\ conn' = Sleep(a, "AUTH")
          /\ UNCHANGED <<g_overload, lpc, cur>>
       \/ /\ ~ g_overload /\ TunnelAvailable /\ g_tunnel # Null
          /\ conn' = [conn EXCEPT ![a].state = "AUTH", ![a].idle = FALSE]
          /\ lpc' = "send" /\ cur' = a
          /\ UNCHANGED g_overload
    /\ UNCHANGED <<ackq, g_opened_fd, g_retry_times, g_tunnel, ev_ack, data,
                   acks, lend, mbbsd, history>>

\* Variant: the tunnel that failed is used again.
TunnelGivenUpNot == UNCHANGED g_tunnel

TunnelGivenUp == g_tunnel' = Null

\* retry_service: the tunnel is given up but neither closed nor unwatched.
RetryService ==
    LET more == RetryCmd /\ g_retry_times < LOGIND_MAX_RETRY_SERVICE IN
    /\ TunnelGivenUp
    /\ g_retry_times' = g_retry_times + IF more THEN 1 ELSE 0
    /\ starting' = starting + IF more THEN 1 ELSE 0

\* start_service fails: retry_service, and the client is sent away.
StartFails ==
    /\ ~ Alive(g_tunnel) \/ "refuse" \in Ops
    /\ RetryService
    /\ conn' = Sleep(cur, "AUTH")
    /\ lpc' = "loop" /\ cur' = Null
    /\ UNCHANGED <<ackq, g_opened_fd, g_overload, ev_ack, data, acks, lend, mb,
                   csock, dat, history>>

\* send_remote_fd
SendFd ==
    /\ lpc = "send"
    /\ Alive(g_tunnel)
    /\ data' = [data EXCEPT ![g_tunnel] = Append(@, Fd(conn[cur].who))]
    /\ lpc' = "write"
    /\ UNCHANGED <<conn, ackq, g_opened_fd, g_overload, g_retry_times, g_tunnel,
                   ev_ack, cur, acks, lend, mbbsd, history>>

\* towrite(login_data), login_conn_end_ack with its safe timeout
WriteData ==
    /\ lpc = "write"
    /\ Alive(g_tunnel)
    /\ data' = [data EXCEPT ![g_tunnel] =
                    Append(@, LoginData(conn[cur].who, cur))]
    /\ handed' = handed \cup {conn[cur].who}
    /\ conn' = Sleep(cur, "WAITACK")
    /\ ackq' = ackq_add(ackq, cur, Null)
    /\ lpc' = "loop" /\ cur' = Null
    /\ UNCHANGED <<g_opened_fd, g_overload, g_retry_times, g_tunnel, ev_ack, acks,
                   lend, mbbsd, served, dropped>>

StartService == SendFd \/ WriteData \/ (lpc \in {"send", "write"} /\ StartFails)

-----------------------------------------------------------------------------
(* logind: the tunnel                                                      *)

\* Variant: an ack is taken for that of whatever is at its address.
IsQueuedBlind(a) == a \in Live

IsQueued(a) == Cells(ackq.queue, a) # {}

\* ack_cb: an ack that nobody waits for is dropped.
AckCb(t) ==
    LET a == Head(acks[t]) IN
    /\ lpc = "loop"
    /\ ev_ack = t /\ lend[t] = "open" /\ acks[t] # <<>>
    /\ acks' = [acks EXCEPT ![t] = Tail(@)]
    /\ ackq' = ackq_del(ackq, a, Null)
    /\ IF IsQueued(a) THEN EndConn(a) ELSE UNCHANGED <<conn, g_opened_fd>>
    /\ UNCHANGED <<g_overload, g_retry_times, g_tunnel, ev_ack, lpc, cur, data,
                   lend, mbbsd, history>>

\* ack_cb on the end of file: stop_tunnel.
TunnelEof(t) ==
    /\ lpc = "loop"
    /\ ev_ack = t /\ lend[t] = "open" /\ acks[t] = <<>> /\ ~ Alive(t)
    /\ lend' = [lend EXCEPT ![t] = "closed"]
    /\ IF t = g_tunnel THEN g_tunnel' = Null /\ ev_ack' = Null
       ELSE UNCHANGED <<g_tunnel, ev_ack>>
    /\ UNCHANGED <<conn, ackq, g_opened_fd, g_overload, g_retry_times, lpc, cur,
                   data, acks, mbbsd, history>>

\* tunnel_cb: the new tunnel replaces the old one.  When retry_service has
\* dropped the old one, ev_ack is still registered for it as event_set fills
\* it anew: libevent may take that, or logind never comes back to its loop.
TunnelCb(t) ==
    /\ lpc = "loop"
    /\ lend[t] = "backlog"
    /\ lend' = [u \in Tunnels |-> IF u = t THEN "open"
                    ELSE IF u = g_tunnel THEN "closed" ELSE lend[u]]
    /\ acks' = [u \in Tunnels |-> IF u = g_tunnel THEN <<>> ELSE acks[u]]
    /\ g_tunnel' = t /\ ev_ack' = t
    /\ lpc' \in IF g_tunnel = Null /\ ev_ack # Null THEN {"loop", "stuck"}
                ELSE {"loop"}
    /\ UNCHANGED <<conn, ackq, g_opened_fd, g_overload, g_retry_times, cur, data,
                   mbbsd, history>>

-----------------------------------------------------------------------------
(* mbbsd: tunnel_login                                                     *)

\* A command that was started becomes a daemon and connects.
MbStart(t) ==
    /\ starting > 0
    /\ mb[t] = "off"
    /\ starting' = starting - 1
    /\ mb' = [mb EXCEPT ![t] = "recv"]
    /\ lend' = [lend EXCEPT ![t] = "backlog"]
    /\ UNCHANGED <<logind, data, acks, csock, dat, history>>

\* The process is gone, its socket and what the tunnel held for it with it.
Gone(t, how) ==
    /\ mb' = [mb EXCEPT ![t] = how]
    /\ csock' = [csock EXCEPT ![t] = Null]
    /\ dat' = [dat EXCEPT ![t] = Null]
    /\ data' = [data EXCEPT ![t] = <<>>]

\* It sees the end of file, or what it cannot use, and leaves the loop.  What
\* a closed tunnel still holds may be read, or be lost to ECONNRESET.
MbExit(t) ==
    /\ \/ mb[t] = "recv" /\ data[t] # <<>> /\ Head(data[t]).kind # "fd"
       \/ mb[t] = "read" /\ data[t] # <<>> /\ Head(data[t]).kind # "data"
       \/ mb[t] \in {"recv", "read", "ack"} /\ lend[t] = "closed"
    /\ Gone(t, "exited")
    /\ UNCHANGED <<logind, acks, lend, starting, history>>

\* recv_remote_fd
MbRecv(t) ==
    /\ mb[t] = "recv"
    /\ data[t] # <<>> /\ Head(data[t]).kind = "fd"
    /\ data' = [data EXCEPT ![t] = Tail(@)]
    /\ csock' = [csock EXCEPT ![t] = Head(data[t]).who]
    /\ mb' = [mb EXCEPT ![t] = "read"]
    /\ UNCHANGED <<logind, acks, lend, dat, starting, history>>

\* toread(&dat)
MbRead(t) ==
    /\ mb[t] = "read"
    /\ data[t] # <<>> /\ Head(data[t]).kind = "data"
    /\ data' = [data EXCEPT ![t] = Tail(@)]
    /\ dat' = [dat EXCEPT ![t] = Head(data[t]).ack]
    /\ mb' = [mb EXCEPT ![t] = "ack"]
    /\ UNCHANGED <<logind, acks, lend, csock, starting, history>>

\* towrite(&dat.ack)
MbAck(t) ==
    /\ mb[t] = "ack" /\ lend[t] # "closed"
    /\ acks' = [acks EXCEPT ![t] = Append(@, dat[t])]
    /\ dat' = [dat EXCEPT ![t] = Null]
    /\ mb' = [mb EXCEPT ![t] = "fork"]
    /\ UNCHANGED <<logind, data, lend, csock, starting, history>>

\* Variant: close(csock) comes before fork(), so that the child serves nobody.
MbForkClosed(t) ==
    /\ mb[t] = "fork"
    /\ mb' = [mb EXCEPT ![t] = "recv"]
    /\ csock' = [csock EXCEPT ![t] = Null]
    /\ UNCHANGED <<logind, data, acks, lend, dat, starting, history>>

\* fork(), close(csock)
MbFork(t) ==
    /\ mb[t] = "fork"
    /\ \/ served' = [served EXCEPT ![csock[t]] = @ + 1] /\ UNCHANGED dropped
       \/ "nofork" \in Ops /\ dropped' = dropped \cup {csock[t]} /\ UNCHANGED served
    /\ mb' = [mb EXCEPT ![t] = "recv"]
    /\ csock' = [csock EXCEPT ![t] = Null]
    /\ UNCHANGED <<logind, data, acks, lend, dat, starting, handed>>

\* It dies.
MbDie(t) ==
    /\ "die" \in Ops
    /\ Alive(t)
    /\ Gone(t, "died")
    /\ UNCHANGED <<logind, acks, lend, starting, history>>

Mbbsd(t) == MbExit(t) \/ MbRecv(t) \/ MbRead(t) \/ MbAck(t) \/ MbFork(t)

-----------------------------------------------------------------------------
Next ==
    \/ \E c \in Clients : Accept(c)
    \/ \E a \in Addrs : Disconnect(a) \/ IdleTimeout(a) \/ TimePasses(a) \/ Keys(a)
    \/ \E a \in Addrs : TimerEnds(a) \/ AuthFail(a) \/ AuthStart(a)
    \/ StartService
    \/ \E t \in Tunnels : AckCb(t) \/ TunnelEof(t) \/ TunnelCb(t)
    \/ \E t \in Tunnels : MbStart(t) \/ Mbbsd(t) \/ MbDie(t)

\* Time passes, the event loop serves its timers and its tunnel, and start_service
\* returns; mbbsd goes on as long as it lives.  Clients owe nothing.
Fairness ==
    /\ \A a \in Addrs : /\ WF_vars(TimePasses(a)) /\ WF_vars(IdleTimeout(a))
                        /\ WF_vars(TimerEnds(a))
    /\ WF_vars(StartService)
    /\ \A t \in Tunnels : /\ WF_vars(AckCb(t)) /\ WF_vars(TunnelEof(t))
                          /\ WF_vars(TunnelCb(t))
                          /\ WF_vars(MbStart(t)) /\ WF_vars(Mbbsd(t))

Spec == Init /\ [][Next]_vars /\ Fairness

-----------------------------------------------------------------------------
(* Properties                                                              *)

\* Every variable keeps to its type.
TypeOK ==
    /\ conn \in [Addrs -> Conn \cup {Freed}]
    /\ ackq.queue \in Seq(Addrs \cup {Null}) /\ ackq.reuse \in Nat
    /\ g_opened_fd = Cardinality(Live)
    /\ g_overload \in BOOLEAN
    /\ g_retry_times \in 0..LOGIND_MAX_RETRY_SERVICE
    /\ g_tunnel \in Tunnels \cup {Null} /\ ev_ack \in Tunnels \cup {Null}
    /\ lpc \in {"loop", "send", "write", "stuck"} /\ cur \in Addrs \cup {Null}
    /\ data \in [Tunnels -> Seq(Msg)] /\ acks \in [Tunnels -> Seq(Addrs)]
    /\ lend \in [Tunnels -> {"none", "backlog", "open", "closed"}]
    /\ mb \in [Tunnels -> {"off", "recv", "read", "ack", "fork", "exited", "died"}]
    /\ csock \in [Tunnels -> Clients \cup {Null}]
    /\ dat \in [Tunnels -> Addrs \cup {Null}]
    /\ starting \in Nat
    /\ handed \subseteq Clients /\ dropped \subseteq Clients
    /\ served \in [Clients -> Nat]

\* The ack queue holds the connections that wait for an ack, each once, and no
\* pointer to one that was freed; its count of free cells is right, so that
\* "corrupted ack queue" is never asserted (logind.c:447-513, 1639-1644).
QueueMatches ==
    /\ Consistent(ackq, Null)
    /\ Items(ackq, Null) = {a \in Live : conn[a].state = "WAITACK"}

\* mbbsd never takes the data of one login with the socket of another: what
\* follows a socket in the tunnel is the data of that client, whatever sends
\* failed before (logind.c:1350, 1414-1428; mbbsd.c:2130-2139).
InStep ==
    \A t \in Tunnels : data[t] # <<>> =>
        /\ mb[t] = "recv" => Head(data[t]).kind = "fd"
        /\ mb[t] = "read" => Head(data[t]) = LoginData(csock[t], Head(data[t]).ack)

\* An ack may be that of an earlier connection at the same address, as the
\* FIXME at logind.c:1744 says, but it never ends one that is still logging
\* in: what it frees was handed over.
AckEndsOnlyHanded ==
    [][\A t \in Tunnels, a \in Addrs :
            AckCb(t) /\ conn[a] # Freed /\ conn'[a] = Freed
              => conn[a].who \in handed]_vars

\* A login that is in a tunnel is served, unless mbbsd dies or another one
\* replaces it: that its connection has timed out or was taken for another
\* does not matter (logind.c:1743-1751).
EveryLoginIsServed ==
    \A t \in Tunnels, c \in Clients :
        (\E i \in 1..Len(data[t]) : data[t][i].kind = "data" /\ data[t][i].who = c)
          ~> (served[c] > 0 \/ c \in dropped \/ mb[t] = "died" \/ lend[t] = "closed")

\* Every connection ends, whether its client leaves, is silent, fails or logs in,
\* and whether or not mbbsd acknowledges it (logind.c:1661-1680, 1784, 2162).  The
\* one way to keep a socket of logind for ever is to go on typing for ever before
\* a password is given: only the idle timeout bounds that.
EveryConnectionEnds ==
    \A a \in Addrs :
        <>[](conn[a] # Freed) => (<>(lpc = "stuck") \/ []<><<Keys(a)>>_vars)

\* Logins that are refused because too many wait for an ack, or because the
\* tunnel is full, are not refused for ever: what fills the one or the other
\* goes, even if mbbsd dies or another takes its place (logind.c:1187-1206).
FullRecovers ==
    (SizeKnown /\ ~ TunnelAvailable) ~> (TunnelAvailable \/ lpc = "stuck")

\* "re-start mbbsd if pipe broken" (logind.c:24): a tunnel that breaks is
\* replaced as long as the number of retries allows it.
BrokenTunnelIsReplaced ==
    \A t \in Tunnels :
        (lend[t] = "open" /\ mb[t] = "died")
          ~> (\/ \E u \in Tunnels \ {t} : mb[u] # "off"
              \/ g_retry_times = LOGIND_MAX_RETRY_SERVICE \/ lpc = "stuck")
=============================================================================
