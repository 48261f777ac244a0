--------------------------- MODULE MCVerdictGate ---------------------------
(* Small instances of VerdictGate for TLC. *)
EXTENDS VerdictGate, TLC

CONSTANTS r1, r2, r3, x, y, f, g, alice, bob

\* Two calls with their own ids.
Two       == {r1, r2}
OwnIds    == r1 :> x @@ r2 :> y
\* A venue order and a personal_sign: neither has an actor, so they overlap.
VenueSign == r1 :> "venue" @@ r2 :> "untyped"
\* Two calls with one payload.
SameId    == r1 :> x @@ r2 :> x
BothTx    == r1 :> "tx" @@ r2 :> "tx"
BothPlain == r1 :> "untyped" @@ r2 :> "untyped"
OneFrame  == r1 :> f @@ r2 :> f
OneActor  == r1 :> alice @@ r2 :> alice
NoActors  == r1 :> NoActor @@ r2 :> NoActor
\* A call, a second call with the same payload, and a call of another wallet.
Three     == {r1, r2, r3}
Resent    == r1 :> x @@ r2 :> x @@ r3 :> y
ThreeTx   == r1 :> "tx" @@ r2 :> "tx" @@ r3 :> "tx"
ThreeOne  == r1 :> f @@ r2 :> f @@ r3 :> g
ThreeAct  == r1 :> alice @@ r2 :> alice @@ r3 :> bob
=============================================================================
