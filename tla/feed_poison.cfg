SPECIFICATION FairSpec
CONSTANTS
  a = a  b = b  c = c  NoUser = NoUser
  User <- Users
  PostInputs <- OnOwnWall
  CommentInputs <- None
  BanInputs <- None
  FriendInputs <- None
  PrivacyInputs <- None
  Deletions = TRUE
  Lossy = FALSE
  MaxItems = 2
  MaxRequests = 1
  MaxQueue = 2
  MaxOutages = 0
  InitFriends <- FriendsAB
  InitPrivacy <- Defaults
  InitItems <- None
  InitFeed <- None
PROPERTY FriendsGetPosts
CHECK_DEADLOCK FALSE
