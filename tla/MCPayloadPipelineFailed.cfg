\* A failed ingest, then reprocess.
CONSTANTS
  s1 = s1
  s2 = s2
  c1 = c1
  c2 = c2
  Scene <- OneScene
  Reference <- NoReference
  Cli <- OneCli
  Commands <- IngestReprocess
  MayCrash = FALSE
  IoMayFail = TRUE
  MaxCommands = 2
  MaxRuns = 2
SPECIFICATION Spec
CHECK_DEADLOCK FALSE
PROPERTY FailedCanBeReprocessed
