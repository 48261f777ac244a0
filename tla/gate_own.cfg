CONSTANTS
  r1 = r1  r2 = r2  r3 = r3
  x = x  y = y  f = f  g = g
  alice = alice  bob = bob
  NoActor = NoActor
  Req <- Two
  Ids = {x,y}
  Frames = {f}
  Actors = {alice}
  IdOf <- OwnIds
  FrameOf <- OneFrame
  ActorOf <- NoActors
  KindOf <- VenueSign
  Bypassed = {r2}
  MaxDeaths = 0
  Faulty = {r1}
SPECIFICATION Spec
INVARIANTS ForwardedIsOwn DenyBlocks
PROPERTY RefinesApprovalGate
CHECK_DEADLOCK FALSE
