CONSTANTS
  Threads = {t1}
  NoMsg = NoMsg
  NoReq = NoReq
  NoLast = NoLast
  Clients = {"c1"}
  QuestionOf <- HostAsked
  Upstream <- DenyWorld
  Messages <- DenyMessages
  Root = "."
  Names <- MCNames
  Parent <- MCParent
  Addrs <- MCAddrs
  HintA <- MCHintA
  HintNS <- MCHintNS
  HintCN <- MCNoHintCN
  HintAAAA <- MCNoAAAA
  MaxRetrys = 30
  ChanCap = 1
  MaxLookups = 30
  Duplicates = FALSE
  Lossy = FALSE
  Recycle = FALSE
SPECIFICATION FairSpec
PROPERTIES
  QuestionsReleased
CHECK_DEADLOCK FALSE
