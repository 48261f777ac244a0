--------------------------- MODULE MCWalletSync ---------------------------
(* Small instances of WalletSync for TLC. *)
EXTENDS WalletSync, TLC

CONSTANTS acct, worker, s1, a1, i1, q1, o1, x

\* A tracked wallet, the tick, a POST /sync, a permit and a listed order.
TickSyncPermit == s1 :> acct @@ i1 :> acct
\* A wallet that is added, the tick, a permit and an order of a complete venue.
TickAddPermit  == a1 :> acct @@ i1 :> acct
OnePermit  == i1 :> q1
Sequential == q1 :> "eip2612"
Unordered  == q1 :> "transfer"
ZeroOfQ1   == q1 :> 0
OneOrder   == o1 :> x
=============================================================================
