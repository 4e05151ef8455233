---------------------------- MODULE FeedHistory ----------------------------
(***************************************************************************)
(* Newsfeed with two auxiliary variables, for promises that speak of the   *)
(* past.  They are read by no step.                                        *)
(*                                                                         *)
(* shadow pairs a ban <<banner, banned>> with every post and comment that  *)
(* was inserted while the ban stood, as long as it has stood without a     *)
(* break since.                                                            *)
(*                                                                         *)
(* circle pairs a user with every post whose author was a friend of his at *)
(* some moment after the post was inserted and before its event was done   *)
(* with.                                                                   *)
(***************************************************************************)
EXTENDS Newsfeed

VARIABLES shadow, circle

hvars == <<vars, shadow, circle>>

Shadowed ==
    shadow' = {s \in shadow : s[1] \in bans' /\ s[2] \in items'}
                \cup (bans' \X (items' \ items))

\* The posts whose event has still to be published, delivered or acked.
PostsUnderWay ==
    {m.event : m \in {n \in outbox : n.topic = "post"}}
        \cup {queue["post"][k] : k \in 1..Len(queue["post"])}

Befriended == {s \in User \X PostsUnderWay : s[1] \in FriendsOf(s[2].author)}
Befriends == circle' = circle \cup Befriended'

HInit == Init /\ shadow = {} /\ circle = {}
HNext == Next /\ Shadowed /\ Befriends
HSpec == HInit /\ [][HNext]_hvars

\* Neither of u and the item's author has banned the other ever since the item
\* was inserted.
Clear(u, i) == <<<<u, i.author>>, i>> \notin shadow /\ <<<<i.author, u>>, i>> \notin shadow

\* What is written while a ban stands is never delivered to the other party as
\* long as it stands, in either direction, wherever the two bans tables reads
\* of the fan-out fall between the writes of others and however often the
\* event is redelivered (mutuallyBanned in fan-out; MANUAL_TEST_NEWS 4.5, 4.6).
BanSilence == \A r \in feed : Clear(r.user, r.item)

\* A post reaches the owner of the wall it is on or, on its author's own wall,
\* those who were his friends at some moment between its INSERT and the end of
\* its fan-out: nobody he had parted with before it, no stranger on a public
\* wall, nobody befriended after it was delivered (ListFriendIDs in fan-out,
\* fanout_post.go:53; MANUAL_TEST_NEWS 1.2, 1.5, 3.4, 3.5, 5.3 and 5.4).  That it
\* is those of the moment of the post, as MANUAL_TEST_NEWS.md:43 has it, the code
\* does not see to: somebody befriended before the event is handled is listed.
PostsStayAmongFriends ==
    \A r \in feed : r.item.kind = "post" /\ r.item \notin InitItems =>
        IF r.item.author = r.item.owner THEN <<r.user, r.item>> \in circle
        ELSE r.user = r.item.owner
=============================================================================
