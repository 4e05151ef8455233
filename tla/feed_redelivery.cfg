SPECIFICATION PSpec
CONSTANTS
  a = a  b = b  c = c  NoUser = NoUser
  User <- Users
  PostInputs <- OnFriendsWall
  CommentInputs <- None
  BanInputs <- ABansB
  FriendInputs <- None
  PrivacyInputs <- None
  Deletions = FALSE
  Lossy = FALSE
  MaxItems = 1
  MaxRequests = 1
  MaxQueue = 1
  MaxOutages = 1
  InitFriends <- FriendsABC
  InitPrivacy <- Defaults
  InitItems <- None
  InitFeed <- None
INVARIANT PurgedStaysDeleted
CHECK_DEADLOCK FALSE
