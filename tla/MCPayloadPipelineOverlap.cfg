\* Overlapping invocations on one scene that may raise and be killed.
CONSTANTS
  s1 = s1
  s2 = s2
  c1 = c1
  c2 = c2
  Scene <- OneScene
  Reference <- NoReference
  Cli <- TwoClis
  Commands <- AllCommands
  MayCrash = TRUE
  IoMayFail = TRUE
  MaxCommands = 3
  MaxRuns = 3
SPECIFICATION FairSpec
CHECK_DEADLOCK FALSE
INVARIANTS
  ValidatedOnlyIfOvertaken
  NoneForgotten
PROPERTY IngestSettles
