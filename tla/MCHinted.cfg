CONSTANTS
  Threads = {t1}
  NoMsg = NoMsg
  NoReq = NoReq
  NoLast = NoLast
  Clients = {"aaaa"}
  QuestionOf <- KindsAsked
  Upstream <- KindsWorld
  Messages <- KindsMessages
  Root = "."
  Names <- MCNames
  Parent <- MCParent
  Addrs <- MCAddrs
  HintA <- MCHintA
  HintNS <- MCHintNS
  HintCN <- MCNoHintCN
  HintAAAA <- MCHintAAAA
  MaxRetrys = 30
  ChanCap = 1
  MaxLookups = 30
  Duplicates = FALSE
  Lossy = FALSE
  Recycle = FALSE
SPECIFICATION Spec
INVARIANTS
  TypesAsAsked
CHECK_DEADLOCK FALSE
