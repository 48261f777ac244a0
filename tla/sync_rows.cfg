CONSTANTS
  acct = acct  worker = worker  s1 = s1  a1 = a1  i1 = i1  q1 = q1  o1 = o1  x = x
  Free = Free  Orphan = Orphan
  Wallets = {acct}
  Workers = {worker}
  Ingests = {i1}
  PermitOf <- OnePermit
  Permits = {q1}
  NonceOf <- ZeroOfQ1
  ValidUntil <- ZeroOfQ1
  Orders = {o1}
  VenueOf <- OneOrder
  Window = 1
  Redis = TRUE
  MaxNow = 1
  Known = {acct}
  Syncs = {s1}
  Adds = {}
  WalletOf <- TickSyncPermit
  KindOf <- Sequential
  Complete = {}
  MaxNonce = 1
  MaxDeletes = 1
  MaxLapses = 1
  MaxFaults = 1
SPECIFICATION Spec
INVARIANTS LockHeld LostOnlyByOverlap NoLateRevival
