SPECIFICATION Spec
CONSTANTS
    Uris = {u1}
    MaxRequests = 2
    MaxRevision = 3
    MaxPending = 2
    MaxFaults = 2
    MaxEvents = 4
    None = None
    Again = Again
INVARIANT ServesCurrentText
PROPERTY RequestsSettle
CHECK_DEADLOCK FALSE
