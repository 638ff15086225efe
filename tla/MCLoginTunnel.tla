--------------------------- MODULE MCLoginTunnel ---------------------------
(* Small instances of LoginTunnel for TLC.                                 *)
EXTENDS LoginTunnel, TLC

CONSTANTS c1, c2, a1, a2, t1, t2

\* Bounds so small that one login fills the ack queue and the tunnel.
Small == INSTANCE LoginTunnel WITH
    LOGIND_ACKQUEUE_BOUND <- 0, Window <- 2, Ops <- {"die"}

VARIABLE bounds

EitherInit == Init /\ bounds \in {"large", "small"}
EitherNext ==
    /\ UNCHANGED bounds
    /\ (bounds = "large" /\ Next) \/ (bounds = "small" /\ Small!Next)
EitherBounds == EitherInit /\ [][EitherNext]_<<vars, bounds>> /\ Fairness

\* The larger bounds alone.
LargeInit == Init /\ bounds = "large"
LargeNext == Next /\ UNCHANGED bounds
LargeBounds == LargeInit /\ [][LargeNext]_<<vars, bounds>> /\ Fairness

\* FullRecovers, with either bounds (logind.c:1187-1206).
EitherRecovers == FullRecovers /\ Small!FullRecovers
=============================================================================
