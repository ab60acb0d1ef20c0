\* A rendezvous and a buffered channel, a queueing and a latest subscription, and a
\* timer that may fail: sends, receives and selections under fair scheduling.
CONSTANTS
  meet = meet
  buffer = buffer
  events = events
  latest = latest
  timeout = timeout
  Channels = {meet, buffer}
  Subscriptions = {events, latest}
  Latest = {latest}
  Capacity <- SmallCapacity
  Timer = timeout
  ArmLists <- AllArms
  MaxCalls = 4
  MaxFaults = 1
  Closed = Closed
SPECIFICATION FairSpec
CONSTRAINT OneKind
INVARIANTS WaitsAgree MessagesKept
PROPERTIES FirstComeFirstServed SelectionReturns ImplementsDelivery
\* Every call may be over and every source ended.
CHECK_DEADLOCK FALSE
