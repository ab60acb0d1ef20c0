\* Two allocations of one number, nested splits and rejoins, kernels that borrow from both.
CONSTANTS
  Allocations = {one, two}
  Size = 1
  MaxPartitions = 5
  MaxHandles = 7
  MaxLoans = 2
  NoCell = NoCell
SPECIFICATION Spec
INVARIANTS PartitionsAgree ExclusiveAccess NoTornRead LoanKept
PROPERTIES StaleForever
\* Every bound may be reached and every scope closed.
CHECK_DEADLOCK FALSE
