\* Commands that overlap on different products, each ended anywhere.
CONSTANTS
  s1 = s1
  s2 = s2
  c1 = c1
  c2 = c2
  Scene <- TwoScenes
  Reference <- NoReference
  Cli <- TwoClis
  Commands <- AllCommands
  MayCrash = TRUE
  IoMayFail = TRUE
  MaxCommands = 3
  MaxRuns = 4
SYMMETRY Symmetric
SPECIFICATION ApartSpec
CHECK_DEADLOCK FALSE
INVARIANTS
  TypeOK
  RegisteredIsWhole
  ReportBacksValidated
  CatalogueNeverAhead
  ReprocessReadsWhole
PROPERTIES
  GateDecides
  RecordSpec
