\* Events: three ticks of limit excursions and mode changes, no I/O failure.
CONSTANTS
  r1 = r1
  r2 = r2
  r3 = r3
  RequestId <- MCRequestId
  SeqCountModulo = 2
  MsgCountModulo = 5
  EnableTc = TRUE
  Datagrams <- SetModes
  Excursions <- SomeExcursions
  ModeToSafe = FALSE
  IoMayFail = FALSE
  JoinMayExpire = FALSE
  MaxTicks = 3
  MaxDatagrams = 1
SPECIFICATION Spec
INVARIANT EventsMatchHk
PROPERTY HandlerNeverRaises
