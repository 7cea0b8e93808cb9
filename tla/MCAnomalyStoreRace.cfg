\* Two operators on one payload anomaly.
CONSTANTS
  p1 = p1
  c1 = c1
  c2 = c2
  o1 = o1
  o2 = o2
  b1 = b1
  b2 = b2
  PayloadAnomaly <- OnePayload
  ControlAnomaly <- NoControl
  Operators <- TwoOperators
  Pollers <- NoPollers
  MaxRecords = 1
SPECIFICATION Spec
CHECK_DEADLOCK FALSE
PROPERTY ResolvedIsTerminal
