\* Two operators and two pollers, every anomaly recorded up to twice.
CONSTANTS
  p1 = p1
  c1 = c1
  c2 = c2
  o1 = o1
  o2 = o2
  b1 = b1
  b2 = b2
  PayloadAnomaly <- OnePayload
  ControlAnomaly <- OneControl
  Operators <- TwoOperators
  Pollers <- TwoPollers
  MaxRecords = 2
SPECIFICATION Spec
SYMMETRY Interchangeable
INVARIANTS
  TypeOK
  ControlNeverReprocessing
  AcknowledgedBySomebody
PROPERTY
  IllegalOnlyIfOvertaken
