\* Two operators that keep apart, every anomaly recorded once.
CONSTANTS
  p1 = p1
  c1 = c1
  c2 = c2
  o1 = o1
  o2 = o2
  b1 = b1
  b2 = b2
  PayloadAnomaly <- OnePayload
  ControlAnomaly <- TwoControl
  Operators <- TwoOperators
  Pollers <- TwoPollers
  MaxRecords = 2
SYMMETRY Interchangeable
SPECIFICATION ApartSpec
PROPERTY LifecycleSpec
