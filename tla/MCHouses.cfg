SPECIFICATION Spec
CONSTANTS
  p1 = p1 p2 = p2
  Players = {p1, p2}
  Money <- MCMoney
  Things <- MCThings
  Rent = 1
  WarningLimit = 1
  MaxPaid = 1
  None = None
INVARIANTS PaidIsPaid
CHECK_DEADLOCK FALSE
