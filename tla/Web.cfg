CONSTANTS
  None = None
  Names = {n1}
  Platforms = {web}
  Devices = {d1, d2}
  Handlers = {h1, h2}
  AccessExpire = 2
  AutoRenewThreshold = 2
  MaxTime = 3
  ProfileUsers = {a}
  ProfileHandlers = {f1, f2, f3}
  NoProfile = NoProfile
  MaxLogins = 2
  MaxEdits = 2
  Users = {a, b, c}
  FriendHandlers = {f1, f2}
  MaxRequests = 2
  MaxCalls = 5
  Nodes <- NumberedNodes
  Configured <- NodeNumbers
  MaxNodeID = 1
  MaxSequence = 3
  MaxClock = 3
  Peers = {a, b}
  Nobody = Nobody
  MaxMessages = 2
  MaxMounts = 2
  MaxChatPushes = 3
SPECIFICATION WebSpec
SYMMETRY Symm
CHECK_DEADLOCK FALSE
INVARIANTS
  WebTypeOK
  AccountsSound
  FriendshipSound
  IDsUnique
  InboxIsTrue
