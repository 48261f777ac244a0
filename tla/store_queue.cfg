SPECIFICATION Spec
CONSTANTS
  Baked = {b1}
  Others = {m1}
  Uncat = Uncat
  BuiltinPkg = BuiltinPkg
  Pkgs = {Uncat, BuiltinPkg}
  Wallets = {w1, w2}
  Designs <- MCDesigns
  Public = Public
  Nowhere = Nowhere
  None = None
  Err = Err
  MaxBindings = 2
  Edits = {e1, e2}
  Decisions = {d1}
  MaxFaults = 1
SYMMETRY EditSymmetry
INVARIANTS TypeOK QueueServes DraftIsCurrent SeededFirst ProtectionKept DeletedStayGone FilledWhenBound NeverWedged
CHECK_DEADLOCK FALSE
