CONSTANTS
  None = None
  Users = {a, b}
  FriendHandlers = {h1}
  MaxRequests = 2
  MaxCalls = 5
SPECIFICATION FriendsSpec
CHECK_DEADLOCK FALSE
PROPERTIES
  AcceptMakesFriends
