------------------------------- MODULE Access -------------------------------
(***************************************************************************)
(* wall.Authorizer: who may see a wall, post on it and comment on it.      *)
(* The operators give the verdict on one snapshot of the three tables the  *)
(* code reads: bans (ordered pairs <<who banned, whom>>), friendships      *)
(* (two-element sets, the code's ordered pair of ids) and wall privacy     *)
(* (one scope per kind of access).  The specifications that need the       *)
(* reads one by one spell them out as separate steps.                      *)
(***************************************************************************)

Scope == {"public", "friends", "nobody"}
Access == {"view", "post", "comment"}
Privacy == [Access -> Scope]

\* What a wall without a row in wall_privacy is worth, and what a new user gets.
DefaultPrivacy == [a \in Access |-> "friends"]

IsBanned(bans, owner, other) == owner # other /\ <<owner, other>> \in bans

MutuallyBanned(bans, x, y) == IsBanned(bans, x, y) \/ IsBanned(bans, y, x)

ScopeSatisfied(friends, scope, actor, owner) ==
    \/ scope = "public"
    \/ scope = "friends" /\ {actor, owner} \in friends

Can(access, bans, friends, privacy, actor, owner) ==
    \/ actor = owner
    \/ /\ ~MutuallyBanned(bans, actor, owner)
       /\ ScopeSatisfied(friends, privacy[owner][access], actor, owner)

CanView(bans, friends, privacy, viewer, owner) ==
    Can("view", bans, friends, privacy, viewer, owner)
CanPost(bans, friends, privacy, author, owner) ==
    Can("post", bans, friends, privacy, author, owner)
CanComment(bans, friends, privacy, author, owner) ==
    Can("comment", bans, friends, privacy, author, owner)
=============================================================================
