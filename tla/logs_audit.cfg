CONSTANTS
  d1 = d1  d2 = d2  d3 = d3
  x = x  y = y  alice = alice
  NoActor = NoActor
  Dec <- Three
  Ids = {x,y}
  IdOf <- ThreeIds
  ActorOf <- ThreeTurn
  RowsOf <- ThreeRows
  Simulated = {d2,d3}
  AuditMax = 2
  RowsMax = 2
  DeltasMax = 2
  MaxMarks = 1
  MaxDeaths = 1
  Faulty = {d1}
SPECIFICATION Spec
INVARIANTS TypeOK AuditIsRecent PendingCoversRunning AuditedOnce RowsNewestFirst DeltaPerId
SYMMETRY Alike
CHECK_DEADLOCK FALSE
