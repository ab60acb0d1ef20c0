SPECIFICATION Spec
CONSTANTS
    MaxBlocks = 6
    MaxScopes = 2
    ClassCount = 2
    MaxReferences = 3
    MaxToken = 2
    MaxLength = 2
    MaxTemporaries = 1
    MaxWork = 3
    None = None
    Functions <- TwoFunctions
    LocalsOf <- TwoLocalsOf
    TypeOf <- RichTypes
CONSTRAINT Bounded
INVARIANTS HeapConsistent NoMisuse
PROPERTY Isolation
CHECK_DEADLOCK FALSE
