SPECIFICATION FairSpec
CONSTANTS
  a = a  b = b  c = c  NoUser = NoUser
  User <- Users
  PostInputs <- OnOwnWall
  CommentInputs <- OnlyB
  BanInputs <- None
  FriendInputs <- None
  PrivacyInputs <- None
  Deletions = FALSE
  Lossy = TRUE
  MaxItems = 1
  MaxRequests = 2
  MaxQueue = 1
  MaxOutages = 3
  InitFriends <- FriendsABC
  InitPrivacy <- Defaults
  InitItems <- None
  InitFeed <- None
PROPERTIES FriendsGetPosts EventsAreHandled
CHECK_DEADLOCK FALSE
