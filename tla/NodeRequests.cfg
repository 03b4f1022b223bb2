SPECIFICATION Spec
CONSTANTS
  first = r1
  second = r2
  Requests <- TwoRequests
  Through <- AnyThrough
  Thrown <- AnyThrown
  Codes = {200}
  Shared = shared
  Default = default
  Nobody = nobody
INVARIANTS NoForeignUser TracedOnce ReportedOnce
PROPERTY KeepsItsUser
CHECK_DEADLOCK FALSE
