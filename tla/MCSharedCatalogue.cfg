\* Two processes that run sync-payload and bridge in any order.
CONSTANTS
  p1 = p1
  a1 = a1
  m1 = m1
  c1 = c1
  c2 = c2
  Product <- MCProduct
  Alarm <- MCAlarm
  Parameter <- MCParameter
  Cmd <- MCCmd
  MaxChanges = 2
SPECIFICATION Spec
INVARIANTS
  TypeOK
  IngestTimeIsSound
  ExitZeroMeansMirrored
PROPERTIES
  BackOnlyIfOvertaken
  EventuallyMirrored
