CONSTANTS
  Threads = {t1, t2}
  NoMsg = NoMsg
  Root = "."
  Names <- MCNames
  Parent <- MCParent
  Addrs <- MCAddrs
  Messages <- MCMessages
  HintA <- MCHintA
  HintNS <- MCHintNS
  HintCN <- MCHintCN
  HintAAAA <- MCHintAAAA
  Files <- MCFiles
  Written <- MCWritten
  Lower <- MCLower
SYMMETRY Permuted
SPECIFICATION BootSpec
INVARIANTS
  LoadedBeforeServing
  CacheTypeOK
  ServersAdmitted
  AliasesAdmitted
  OnlyServersAdmitted
  WholeDelegationSeen
  AddressesOfOneReply
  LocalsSafe
PROPERTIES
  AdmissionStable
  ServedSpec
CHECK_DEADLOCK FALSE
