\* Trees of the shapes that MCHostScope lists, with everything a scope can hold
\* and everything that can happen to it, and fair scheduling.
SPECIFICATION ShapedSpec
CONSTANTS
  MaxScopes = 4
  MaxItems = 3
  Uses = {"grant", "acquire", "own", "onExit", "cancel", "trap", "fail"}
INVARIANTS
  ReverseOrder
  FinalizersServed
  ScopesAgree
  NothingOutlives
  FailuresReported
  MaskHolds
PROPERTIES
  NoGuestAfterTrap
  ScopeCloses
\* Every scope may be closed.
CHECK_DEADLOCK FALSE
