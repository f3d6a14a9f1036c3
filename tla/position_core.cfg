CONSTANTS
  f1 = f1
  f2 = f2
  f3 = f3
  s1 = s1
  s2 = s2
  NoPosition = NoPosition
  Symbols = {s1, s2}
  Fills = {f1, f2, f3}
  MaxQty = 2
  Inventory = 1
  MaxFaults = 1
  MaxSyncs = 1
  MaxRestarts = 1
SPECIFICATION Spec
CHECK_DEADLOCK FALSE
SYMMETRY Sym
INVARIANTS BooksAgree
PROPERTIES BookedAtomically
