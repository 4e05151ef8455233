SPECIFICATION HSpec
CONSTANTS
  a = a  b = b  c = c  NoUser = NoUser
  User <- Users
  PostInputs <- OnBoth
  CommentInputs <- OnlyC
  BanInputs <- ABansB
  FriendInputs <- FriendsAB
  PrivacyInputs <- None
  Deletions = TRUE
  Lossy = TRUE
  MaxItems = 1
  MaxRequests = 1
  MaxQueue = 1
  MaxOutages = 1
  InitFriends <- FriendsAB
  InitPrivacy <- PublicWalls
  InitItems <- None
  InitFeed <- None
INVARIANTS TypeOK RowsBelongToLiveItems OneRowPerItem NobodyReadsThemselves PostsStayAmongFriends BanSilence
CHECK_DEADLOCK FALSE
