CONSTANTS
  Threads = {t1}
  NoMsg = NoMsg
  NoReq = NoReq
  NoLast = NoLast
  Clients = {"c1", "c2"}
  QuestionOf <- HostAlias
  Upstream <- BareWorld
  Messages <- BareMessages
  Root = "."
  Names <- MCNames
  Parent <- MCParent
  Addrs <- MCAddrs
  HintA <- MCHintA
  HintNS <- MCHintNS
  HintCN <- MCNoHintCN
  HintAAAA <- MCNoAAAA
  MaxRetrys = 30
  ChanCap = 1
  MaxLookups = 30
  Duplicates = FALSE
  Lossy = FALSE
  Recycle = TRUE
SPECIFICATION Spec
INVARIANTS
  OnlyOwnAnswers
CHECK_DEADLOCK FALSE
