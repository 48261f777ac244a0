CONSTANTS
  r1 = r1  r2 = r2  r3 = r3
  x = x  y = y  f = f  g = g
  alice = alice  bob = bob
  NoActor = NoActor
  Req <- Two
  Ids = {x}
  Frames = {f}
  Actors = {alice}
  IdOf <- SameId
  FrameOf <- OneFrame
  ActorOf <- OneActor
  KindOf <- BothTx
  Bypassed = {r2}
  MaxDeaths = 1
  Faulty = {r2}
SPECIFICATION FairSpec
INVARIANTS OneDecisionPerActor ForwardedIsGranted
PROPERTY DecisionEnds
CHECK_DEADLOCK FALSE
