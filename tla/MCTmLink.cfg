\* Five packets of two APIDs, counts modulo 3: a whole turn can be lost.
CONSTANTS
  hk = hk
  event = event
  Apids <- MCApids
  Packets <- MCPackets
  SeqCountModulo = 3
  MaxSent = 5
  MaxBoots = 2
  MaxDelivered = 3
SPECIFICATION Spec
SYMMETRY Symmetry
INVARIANTS
  TypeOK
  WarningHasCause
  SilenceMeansSuccessor
