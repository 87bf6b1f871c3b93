CONSTANTS
  Threads = {t1}
  NoMsg = NoMsg
  NoReq = NoReq
  NoLast = NoLast
  Clients = {"txt", "aaaa", "o", "mx"}
  QuestionOf <- KindsAsked
  Upstream <- KindsWorld
  Messages <- KindsMessages
  Root = "."
  Names <- MCNames
  Parent <- MCParent
  Addrs <- MCAddrs
  HintA <- MCTwoRoots
  HintNS <- MCHintsWithO
  HintCN <- MCNoHintCN
  HintAAAA <- MCHintAAAA
  MaxRetrys = 2
  ChanCap = 1
  MaxLookups = 30
  Duplicates = FALSE
  Lossy = FALSE
  Recycle = FALSE
SPECIFICATION FairSpec
INVARIANTS
  TypeOK
PROPERTIES
  EventuallySettled
CHECK_DEADLOCK FALSE
