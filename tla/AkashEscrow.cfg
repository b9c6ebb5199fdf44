SPECIFICATION EscrowSpec
CONSTANTS
  a = a
  b = b
  Leases = {a, b}
  Price <- MCPrice
  Unit = 5
  Amounts <- MCAmounts
  MaxDeposit = 17
  MaxHeight = 6
INVARIANTS
  PaidForLifetime
  ClosedWithLastLease
PROPERTIES
  OverdraftIsPredicted
  ImplementsMeter
CHECK_DEADLOCK FALSE
