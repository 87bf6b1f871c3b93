CONSTANTS
  Threads = {t1, t2}
  NoMsg = NoMsg
  NoReq = NoReq
  NoLast = NoLast
  Clients = {"c1"}
  QuestionOf <- HostAsked
  Upstream <- TangledWorld
  Messages <- TangledMessages
  Root = "."
  Names <- MCNames
  Parent <- MCParent
  Addrs <- MCAddrs
  HintA <- MCTwoRoots
  HintNS <- MCHintNS
  HintCN <- MCNoHintCN
  HintAAAA <- MCNoAAAA
  MaxRetrys = 30
  ChanCap = 1
  MaxLookups = 6
  Duplicates = FALSE
  Lossy = TRUE
  Recycle = TRUE
SPECIFICATION FairSpec

  
PROPERTIES
  AnsweredUnlessCircular
CHECK_DEADLOCK FALSE
