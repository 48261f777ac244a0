CONSTANTS
  r1 = r1  r2 = r2  r3 = r3
  x = x  y = y  f = f  g = g
  alice = alice  bob = bob
  NoActor = NoActor
  Req <- Two
  Ids = {x}
  Frames = {f}
  Actors = {alice}
  IdOf <- SameId
  FrameOf <- OneFrame
  ActorOf <- NoActors
  KindOf <- BothPlain
  Bypassed = {r2}
  MaxDeaths = 0
  Faulty = {}
SPECIFICATION Spec
INVARIANT ForwardedIsOwn
CHECK_DEADLOCK FALSE
