--------------------------- MODULE FeedScenarios ---------------------------
(* Inputs and starting databases for the runs of Newsfeed: three users. *)
EXTENDS Access, Naturals

CONSTANTS a, b, c

Users == {a, b, c}
None == {}

Allow(s) == [x \in Access |-> IF x = "view" THEN s ELSE "friends"]
Defaults == [u \in Users |-> DefaultPrivacy]
PublicWalls == [u \in Users |-> [x \in Access |-> "public"]]

FriendsAB == {{a, b}}
FriendsABC == {{a, b}, {a, c}}
FriendsAll == {{a, b}, {a, c}, {b, c}}

OnOwnWall == {<<a, a>>}
OnFriendsWall == {<<b, a>>}
OnBoth == {<<a, a>>, <<b, a>>}
AandB == {a, b}
OnlyB == {b}
OnlyC == {c}
BandC == {b, c}

ABansB == {<<a, b>>}
BothBan == {<<a, b>>, <<b, a>>}

ATogglesView == {<<a, Allow("public")>>, <<a, Allow("friends")>>}

OlderPost == [kind |-> "post", id |-> 0, post |-> 0, poster |-> a, owner |-> a, author |-> a]
OlderPosts == {OlderPost}
GuestPosts == {[kind |-> "post", id |-> 0, post |-> 0, poster |-> c, owner |-> a, author |-> c]}
RowsOfBandC == {[user |-> u, item |-> OlderPost, hidden |-> FALSE] : u \in {b, c}}
=============================================================================
