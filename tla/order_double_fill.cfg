CONSTANTS
  Orders = {o1}
  Cancellable = {}
  Reconcilers = {loop}
  Loop = loop
  MaxFaults = 0
  MaxRestarts = 0
SPECIFICATION Spec
CHECK_DEADLOCK FALSE
INVARIANTS OneTradePerFill
