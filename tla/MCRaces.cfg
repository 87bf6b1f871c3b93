CONSTANTS
  Threads = {t1, t2}
  NoMsg = NoMsg
  NoReq = NoReq
  NoLast = NoLast
  Clients = {"c1"}
  QuestionOf <- HostAsked
  Upstream <- MixedWorld
  Messages <- MixedMessages
  Root = "."
  Names <- MCNames
  Parent <- MCParent
  Addrs <- MCAddrs
  HintA <- MCTwoRoots
  HintNS <- MCHintNS
  HintCN <- MCNoHintCN
  HintAAAA <- MCNoAAAA
  MaxRetrys = 30
  ChanCap = 1
  MaxLookups = 30
  Duplicates = FALSE
  Lossy = FALSE
  Recycle = FALSE
SPECIFICATION FairSpec
INVARIANTS
  NoLostWakeup
  WokenAfterStore
PROPERTIES
  CacheSpec
  EventuallyAnswered
CHECK_DEADLOCK FALSE
