CONSTANTS
  Threads = {t1, t2}
  NoMsg = NoMsg
  NoReq = NoReq
  NoLast = NoLast
  Clients = {"c1", "c2"}
  QuestionOf <- HostAlias
  Upstream <- PairWorld
  Messages <- PairMessages
  Root = "."
  Names <- MCNames
  Parent <- MCParent
  Addrs <- MCAddrs
  HintA <- MCHintA
  HintNS <- MCHintNS
  HintCN <- MCNoHintCN
  HintAAAA <- MCNoAAAA
  MaxRetrys = 4
  ChanCap = 1
  MaxLookups = 30
  Duplicates = TRUE
  Lossy = FALSE
  Recycle = TRUE
SPECIFICATION Spec
INVARIANTS
  OnePlace
  AnswersRight
PROPERTIES
  ExchangeSpec
CHECK_DEADLOCK FALSE
