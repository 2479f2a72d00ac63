SPECIFICATION Spec
CONSTANTS
  Width4 = 2
  Groups = 5
  GroupBits = 1
  ActorBits = 2
  MinPrefix4 = 1
  MinPrefix6 = 2
  Mapped <- MCMapped
  PrivateRange <- MCPrivateRange
  CloudflareRange <- MCCloudflareRange
  Traffic <- MCTraffic
  TextRank <- MCTextRank
  Likes <- MCLikes
  Config = {"first", "trusting"}
  FirstConfig = "first"
  Setting <- MCSetting
  BanTarget <- MCBanTarget
  Lookback = 2
  GoodMin = 1
  SubjectCap = 1
  MayThrow = {"badPaths"}
  MaxRows = 3
  MaxPuts = 1
INVARIANTS TypeOK AddressesAgree NobodyMissed TrustedStayOut EarnedBansHappen
PROPERTIES BansEarned
CHECK_DEADLOCK FALSE
