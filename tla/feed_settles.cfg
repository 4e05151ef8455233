SPECIFICATION Spec
CONSTANTS
  a = a  b = b  c = c  NoUser = NoUser
  User <- Users
  PostInputs <- None
  CommentInputs <- None
  BanInputs <- ABansB
  FriendInputs <- None
  PrivacyInputs <- ATogglesView
  Deletions = TRUE
  Lossy = FALSE
  MaxItems = 1
  MaxRequests = 2
  MaxQueue = 2
  MaxOutages = 1
  InitFriends <- FriendsAB
  InitPrivacy <- PublicWalls
  InitItems <- OlderPosts
  InitFeed <- RowsOfBandC
INVARIANTS BanPurgesFeeds HiddenFollowsCanView
CHECK_DEADLOCK FALSE
