\* Commanding: two telecommands, failing sends, a receiver that outlives the loop,
\* fair threads.
CONSTANTS
  r1 = r1
  r2 = r2
  r3 = r3
  RequestId <- MCRequestId
  SeqCountModulo = 3
  MsgCountModulo = 5
  EnableTc = TRUE
  Datagrams <- MostDatagrams
  Excursions <- NoExcursions
  ModeToSafe = FALSE
  IoMayFail = TRUE
  JoinMayExpire = TRUE
  MaxTicks = 2
  MaxDatagrams = 2
SPECIFICATION FairSpec
INVARIANTS
  TypeOK
  StreamsContiguous
  ReportsAnswerInOrder
  MailboxHoldsLatest
PROPERTIES
  CommandingSpec
  CommandsTaken
  ShutdownCompletes
