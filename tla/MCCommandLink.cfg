\* Three telecommands, of two request ids, over a lossy link to the simulator and back.
CONSTANTS
  RequestId <- MCRequestId
  SeqCountModulo = 2
  MsgCountModulo = 1
  EnableTc = TRUE
  Datagrams <- MCDatagrams
  Excursions <- NoExcursions
  ModeToSafe = FALSE
  IoMayFail = FALSE
  JoinMayExpire = FALSE
  MaxTicks = 0
  MaxDatagrams = 2
  CommandedModes <- JustPayload
  MaxCommands = 3
  MaxDelivered = 2
SPECIFICATION LinkSpec
INVARIANTS
  LinkTypeOK
  VerifiedMeansHandedOver
