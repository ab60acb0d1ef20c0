\* Leases of a scope and its child that are released while the scope closes.
SPECIFICATION ShapedSpec
CONSTANTS
  MaxScopes = 2
  MaxItems = 3
  Uses = {"grant"}
INVARIANTS ReleasesReversed
\* Every scope may be closed.
CHECK_DEADLOCK FALSE
