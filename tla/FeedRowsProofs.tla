--------------------------- MODULE FeedRowsProofs ---------------------------
(***************************************************************************)
(* The rows of news_feed: which items they belong to, how many there are,  *)
(* whom a post reaches and, once nobody writes any more, what bans and     *)
(* walls make of them; for any number of users, items, requests, queued    *)
(* messages and outages.  Builds on the invariant of NewsfeedProofs.       *)
(***************************************************************************)
EXTENDS NewsfeedProofs

PostsAreTheirOwn == \A i \in items : i.kind = "post" => i.post = i.id

RowsInv == RowsBelongToLiveItems /\ PostsAreTheirOwn /\ OneRowPerItem

\* The steps that change posts, comments or rows, and what they do to them.
QuietStep == UNCHANGED <<items, feed>>

LEMMA StepsOnTables ==
  ASSUME [Next]_vars
  PROVE  \/ QuietStep
         \/ \E t \in Topic : InsertRow(t) \/ SetHidden(t) \/ SetVisible(t) \/ PurgeBan(t)
         \/ \E d \in drafts : InsertItem(d)
         \/ \E i \in items : DeleteItem(i)
  <1> USE DEF QuietStep, tables, requests
  <1>1. ASSUME NEW t \in Topic, Handle(t)
        PROVE  QuietStep \/ InsertRow(t) \/ SetHidden(t) \/ SetVisible(t) \/ PurgeBan(t)
    BY <1>1 DEF Handle, Reads, Deliver, Load, LoadPost, List, CheckBanReverse, ViewReverse,
         ReadScope, ReadFriends, Ack, CheckBan, StartView
  <1>2. ASSUME NEW t \in Topic, Interrupt(t) PROVE QuietStep
    BY <1>2 DEF Interrupt
  <1>3. CASE Web
    BY <1>3 DEF Web, StartPost, StartComment, InsertRefused, StartBan, Unban, InsertBan,
         AddFriendship, RemoveFriendship, UpdatePrivacy, Publish, AbandonRequest
  <1>4. CASE UNCHANGED vars
    BY <1>4 DEF vars
  <1> QED BY <1>1, <1>2, <1>3, <1>4 DEF Next

LEMMA InitRows == HInit => RowsInv
  BY StartAssumption DEF HInit, Init, RowsInv, RowsBelongToLiveItems, PostsAreTheirOwn,
       OneRowPerItem, PostExists

\* A row is written for a live item, once.
LEMMA InsertRowRows ==
  ASSUME IInv, RowsInv, NEW t \in Topic, InsertRow(t)
  PROVE  RowsInv'
  <1> DEFINE row == [user |-> work[t].who, item |-> Msg(t), hidden |-> At(t, "insertHidden")]
  <1>1. items' = items
    BY DEF InsertRow, tables
  <1>2. \/ feed' = feed
        \/ feed' = feed \cup {row} /\ Msg(t) \in items /\ ~Has(work[t].who, Msg(t))
    BY DEF InsertRow
  <1>3. row.user = work[t].who /\ row.item = Msg(t)
    OBVIOUS
  <1> HIDE DEF row
  <1>4. OneRowPerItem'
    BY <1>2, <1>3 DEF OneRowPerItem, RowsInv, Has
  <1>5. RowsBelongToLiveItems' /\ PostsAreTheirOwn'
    BY <1>1, <1>2, <1>3 DEF RowsInv, RowsBelongToLiveItems, PostsAreTheirOwn, PostExists
  <1> QED BY <1>4, <1>5 DEF RowsInv

\* Rows change their visibility, never their user or item.
LEMMA RefreshRows ==
  ASSUME IInv, RowsInv, NEW t \in Topic, SetHidden(t) \/ SetVisible(t)
  PROVE  RowsInv'
  <1>1. items' = items
    BY DEF SetHidden, SetVisible, tables
  <1>2. PICK users, hidden : feed' = Refresh(Msg(t).owner, users, hidden)
    BY DEF SetHidden, SetVisible
  <1> DEFINE New(r) == IF r.item.owner = Msg(t).owner /\ r.user \in users
                       THEN [r EXCEPT !.hidden = hidden] ELSE r
  <1>3. feed \subseteq Row
    BY DEF IInv, HTypeOK, TypeOK
  <1>4. \A r \in feed : New(r).user = r.user /\ New(r).item = r.item
    BY <1>3 DEF Row
  <1>5. \A r \in feed' : \E s \in feed : r = New(s)
    BY <1>2 DEF Refresh
  <1> HIDE DEF New
  <1>6. OneRowPerItem'
    BY <1>4, <1>5 DEF OneRowPerItem, RowsInv
  <1>7. RowsBelongToLiveItems' /\ PostsAreTheirOwn'
    BY <1>1, <1>4, <1>5 DEF RowsInv, RowsBelongToLiveItems, PostsAreTheirOwn, PostExists
  <1> QED BY <1>6, <1>7 DEF RowsInv

LEMMA PurgeRows ==
  ASSUME RowsInv, NEW t \in Topic, PurgeBan(t)
  PROVE  RowsInv'
  <1>1. items' = items /\ feed' \subseteq feed
    BY DEF PurgeBan, tables
  <1> QED BY <1>1 DEF RowsInv, RowsBelongToLiveItems, PostsAreTheirOwn, OneRowPerItem, PostExists

\* A comment is inserted on a post that exists, a post on itself.
LEMMA InsertItemRows ==
  ASSUME IInv, RowsInv, NEW d \in drafts, InsertItem(d)
  PROVE  RowsInv'
  <1> PICK i : i = NewItem(d)
    OBVIOUS
  <1>1. items' = items \cup {i} /\ feed' = feed
    BY DEF InsertItem
  <1>2. d.kind \in Kind
    BY DEF IInv, HTypeOK, TypeOK, Draft
  <1>3. /\ i.kind = d.kind
        /\ d.kind = "post" => i.post = i.id
        /\ d.kind = "comment" => i.post = d.post /\ PostExists(d.post)
    BY <1>2 DEF NewItem, InsertItem, Kind
  <1>4. PostExists(i.post)'
    BY <1>1, <1>2, <1>3 DEF PostExists, Kind
  <1> QED BY <1>1, <1>3, <1>4
        DEF RowsInv, RowsBelongToLiveItems, PostsAreTheirOwn, OneRowPerItem, PostExists

\* What a DELETE takes along leaves no row without its item and no comment
\* without its post: the items of a post go with it, and only they.
LEMMA DeleteItemRows ==
  ASSUME RowsInv, IInv, NEW i \in items, DeleteItem(i)
  PROVE  RowsInv'
  <1>1. items' = items \ Cascade(i) /\ feed' = {r \in feed : r.item \notin Cascade(i)}
    BY DEF DeleteItem
  <1>2. i.kind \in Kind
    BY DEF IInv, HTypeOK, TypeOK, Item
  <1>3. ASSUME NEW j \in items' PROVE PostExists(j.post)'
    <2>1. PICK p \in items : p.kind = "post" /\ p.id = j.post
      BY <1>1, <1>3 DEF RowsInv, RowsBelongToLiveItems, PostExists
    <2>2. p.post = p.id
      BY <2>1 DEF RowsInv, PostsAreTheirOwn
    <2>3. p \notin Cascade(i)
      BY <1>1, <1>2, <1>3, <2>1, <2>2 DEF Cascade, Kind
    <2> QED BY <1>1, <2>1, <2>3 DEF PostExists
  <1>4. \A r \in feed' : r.item \in items'
    BY <1>1 DEF RowsInv, RowsBelongToLiveItems
  <1> QED BY <1>1, <1>3, <1>4 DEF RowsInv, RowsBelongToLiveItems, PostsAreTheirOwn, OneRowPerItem

LEMMA RowsStep ==
  ASSUME IInv, RowsInv, [HNext]_hvars
  PROVE  RowsInv'
  <1>1. [Next]_vars
    BY DEF HNext, hvars
  <1>2. CASE QuietStep
    BY <1>2 DEF QuietStep, RowsInv, RowsBelongToLiveItems, PostsAreTheirOwn, OneRowPerItem, PostExists
  <1> QED BY <1>1, <1>2, StepsOnTables, InsertRowRows, RefreshRows, PurgeRows, InsertItemRows,
          DeleteItemRows

LEMMA RowsInvariance == HSpec => []RowsInv
  BY InitRows, RowsStep, Invariance, PTL DEF HSpec

\* A DELETE between any two statements of a fan-out leaves no row without its
\* item and no comment without its post.
THEOREM RowsAreLive == HSpec => []RowsBelongToLiveItems
  <1>1. RowsInv => RowsBelongToLiveItems
    BY DEF RowsInv
  <1> QED BY <1>1, RowsInvariance, PTL

\* However often an event is redelivered and whatever CanView said each time,
\* a user has one row per item.
THEOREM RowsAreUnique == HSpec => []OneRowPerItem
  <1>1. RowsInv => OneRowPerItem
    BY DEF RowsInv
  <1> QED BY <1>1, RowsInvariance, PTL

-----------------------------------------------------------------------------
(* Whom a post reaches *)

\* A post on somebody else's wall is for that wall's owner, one on the author's
\* own wall for those who were friends while its event was on its way.
Allowed(u, i) == IF i.author = i.owner THEN <<u, i>> \in circle ELSE u = i.owner

\* The fan-out of post i with local variables w considers such users only.
Invited(w, i) ==
    /\ \A u \in w.todo \cup w.out : Allowed(u, i)
    /\ w.pc \in Passed \cup {"rev"} => Allowed(w.who, i)

FriendsAreNoted == Befriended \subseteq circle
FanOutIsInvited == ~At("post", "idle") => Invited(work["post"], Msg("post"))

ReachInv == FriendsAreNoted /\ FanOutIsInvited /\ PostsStayAmongFriends

LEMMA InitReach == HInit => ReachInv
  <1> SUFFICES ASSUME HInit PROVE ReachInv
    OBVIOUS
  <1> USE StartAssumption DEF HInit, Init
  <1>1. FriendsAreNoted
    BY DEF FriendsAreNoted, Befriended, PostsUnderWay, Topic, Kind
  <1>2. FanOutIsInvited /\ PostsStayAmongFriends
    BY DEF FanOutIsInvited, PostsStayAmongFriends, At, Idle, Topic, Kind
  <1> QED BY <1>1, <1>2 DEF ReachInv

\* Nobody leaves the circle of a post, so whoever was invited stays so.
LEMMA CircleGrows ==
  ASSUME FriendsAreNoted, UNCHANGED hvars \/ Befriends
  PROVE  /\ FriendsAreNoted' /\ circle \subseteq circle'
         /\ \A u, i : Allowed(u, i) => Allowed(u, i)'
  <1>1. FriendsAreNoted' /\ circle \subseteq circle'
    <2>1. CASE UNCHANGED hvars
      BY <2>1 DEF hvars, vars, tables, requests, FriendsAreNoted, Befriended, PostsUnderWay, FriendsOf
    <2>2. CASE Befriends
      BY <2>2 DEF Befriends, FriendsAreNoted
    <2> QED BY <2>1, <2>2
  <1>2. \A u, i : Allowed(u, i) => Allowed(u, i)'
    BY <1>1 DEF Allowed
  <1> QED BY <1>1, <1>2

\* Friends listed while the post's event is at the head of its queue are noted.
LEMMA ListedAreNoted ==
  ASSUME IInv, FriendsAreNoted, queue["post"] # << >>, NEW u \in FriendsOf(Msg("post").author)
  PROVE  <<u, Msg("post")>> \in circle
  <1>1. queue["post"] \in Seq(Event["post"])
    BY DEF IInv, HTypeOK, TypeOK, Topic, Kind
  <1>2. 1 \in 1..Len(queue["post"]) /\ Msg("post") = queue["post"][1]
    BY <1>1 DEF Msg
  <1>3. Msg("post") \in PostsUnderWay
    BY <1>2 DEF PostsUnderWay
  <1>4. u \in User
    BY DEF FriendsOf
  <1> QED BY <1>3, <1>4 DEF FriendsAreNoted, Befriended

\* Within a message, the fan-out of a post never considers anybody it has not
\* listed, and it lists friends or the wall's owner.
LEMMA PostHandlerStep ==
  ASSUME IInv, ReachInv, UNCHANGED hvars \/ Befriends, Handle("post") \/ Interrupt("post")
  PROVE  FanOutIsInvited'
  <1> DEFINE t == "post"
             w == work[t]
             v == work'[t]
             i == Msg(t)
  <1>1. t \in Topic /\ t \in Kind /\ work \in [Topic -> Worker]
    BY DEF Topic, Kind, IInv, HTypeOK, TypeOK
  <1>2. \A x : Set(t, x) => v = x
    BY <1>1 DEF Set
  <1>3. w \in Worker /\ (w.pc # "idle" => Invited(w, i))
    BY <1>1 DEF ReachInv, FanOutIsInvited, At
  <1>4. ASSUME queue' = queue, v.pc # "idle" => Invited(v, i) PROVE FanOutIsInvited'
    <2>1. circle \subseteq circle'
      BY CircleGrows DEF ReachInv
    <2>2. CASE v.pc = "idle"
      BY <2>2 DEF FanOutIsInvited, At
    <2>3. CASE v.pc # "idle"
      BY <1>4, <2>1, <2>3 DEF FanOutIsInvited, At, Msg, Invited, Allowed
    <2> QED BY <2>2, <2>3
  <1>5. CASE Ack(t) \/ Interrupt(t)
    BY <1>2, <1>5 DEF Ack, Interrupt, FanOutIsInvited, At, Idle
  <1>6. CASE SetHidden(t) \/ SetVisible(t)
    BY <1>6 DEF SetHidden, SetVisible
  <1>7. CASE Deliver(t)
    <2>1. v = [Idle EXCEPT !.pc = "load"]
      BY <1>1, <1>2, <1>7 DEF Deliver
    <2> QED BY <1>4, <1>7, <2>1 DEF Deliver, Reads, Idle, Invited, Passed
  <1>8. CASE Load(t) \/ LoadPost(t) \/ PurgeBan(t)
    <2>1. v = Idle \/ \E pc \in {"list", "loop"} : v = [w EXCEPT !.pc = pc]
      BY <1>2, <1>8 DEF Load, LoadPost, PurgeBan
    <2>2. w.pc # "idle"
      BY <1>8 DEF Load, LoadPost, PurgeBan, At
    <2>3. v.pc # "idle" => v.todo = w.todo /\ v.out = w.out /\ v.pc \notin Passed \cup {"rev"}
      BY <1>3, <2>1 DEF Worker, Idle, Passed
    <2>4. queue' = queue
      BY <1>8 DEF Load, LoadPost, PurgeBan, Reads
    <2> QED BY <1>3, <1>4, <2>2, <2>3, <2>4 DEF Invited
  <1>9. CASE List(t)
    <2>1. v = [w EXCEPT !.pc = "loop", !.todo = PostAudience(i)]
      BY <1>2, <1>9 DEF List
    <2>2. v.todo = PostAudience(i) /\ v.out = w.out /\ v.pc = "loop"
      BY <1>3, <2>1 DEF Worker
    <2>3. \A u \in PostAudience(i) : Allowed(u, i)
      <3>1. queue[t] # << >>
        BY <1>1, <1>9 DEF List, At, IInv, HTypeOK, TypeOK
      <3>2. \A u \in FriendsOf(i.author) : <<u, i>> \in circle
        BY <3>1, ListedAreNoted DEF ReachInv
      <3> HIDE DEF i
      <3> QED BY <3>2 DEF PostAudience, Allowed
    <2>4. queue' = queue /\ w.pc # "idle"
      BY <1>9 DEF List, Reads, At
    <2> QED BY <1>3, <1>4, <2>2, <2>3, <2>4 DEF Invited, Passed
  <1>10. CASE \E u \in User : CheckBan(t, u)
    <2>1. PICK u \in w.todo :
            /\ \/ v = [w EXCEPT !.todo = @ \ {u}]
               \/ v = [w EXCEPT !.todo = @ \ {u}, !.pc = "rev", !.who = u]
            /\ queue' = queue /\ w.pc = "loop"
      BY <1>2, <1>10 DEF CheckBan, Reads, At
    <2>2. /\ v.todo \subseteq w.todo /\ v.out = w.out
          /\ (v.pc = "loop") \/ (v.pc = "rev" /\ v.who = u)
      <3>1. CASE v = [w EXCEPT !.todo = @ \ {u}]
        <4>1. v.todo = w.todo \ {u} /\ v.out = w.out /\ v.pc = w.pc
          BY <1>3, <3>1 DEF Worker
        <4> QED BY <2>1, <4>1
      <3>2. CASE v = [w EXCEPT !.todo = @ \ {u}, !.pc = "rev", !.who = u]
        BY <1>3, <3>2 DEF Worker
      <3> QED BY <2>1, <3>1, <3>2
    <2> QED BY <1>3, <1>4, <2>1, <2>2 DEF Invited, Passed
  <1>11. CASE CheckBanReverse(t)
    <2>1. /\ \/ v = [w EXCEPT !.pc = "loop", !.who = NoUser]
             \/ v = [w EXCEPT !.pc = "loop", !.who = NoUser, !.out = @ \cup {w.who}]
          /\ queue' = queue /\ w.pc = "rev"
      BY <1>2, <1>11 DEF CheckBanReverse, Reads, At
    <2>2. v.todo = w.todo /\ v.out \subseteq w.out \cup {w.who} /\ v.pc = "loop"
      BY <1>3, <2>1 DEF Worker
    <2> QED BY <1>3, <1>4, <2>1, <2>2 DEF Invited, Passed
  <1>12. CASE \E u \in User : StartView(t, u)
    <2> PICK u \in User : StartView(t, u)
      BY <1>12
    <2>1. u \in w.out /\ w.pc = "loop" /\ queue' = queue
      BY DEF StartView, Viewing, At, Reads
    <2> DEFINE x == [w EXCEPT !.todo = @ \ {u}, !.out = @ \ {u}, !.who = u]
    <2>2. \E pc \in Passed : v = [x EXCEPT !.pc = pc]
      BY <1>1, <1>2 DEF StartView, Decide, Passed
    <2>3. v.todo \subseteq w.todo /\ v.out \subseteq w.out /\ v.who = u
      BY <1>3, <2>2 DEF Worker
    <2> QED BY <1>3, <1>4, <2>1, <2>3 DEF Invited
  <1>13. CASE ViewReverse(t) \/ ReadScope(t) \/ ReadFriends(t)
    <2>1. w.pc \in Passed /\ queue' = queue
      BY <1>13 DEF ViewReverse, ReadScope, ReadFriends, At, Passed, Reads
    <2>2. \E pc \in Passed : v = [w EXCEPT !.pc = pc]
      BY <1>1, <1>2, <1>13 DEF ViewReverse, ReadScope, ReadFriends, Decide, Passed
    <2>3. v.todo = w.todo /\ v.out = w.out /\ v.who = w.who
      BY <1>3, <2>2 DEF Worker
    <2> QED BY <1>3, <1>4, <2>1, <2>3 DEF Invited, Passed
  <1>14. CASE InsertRow(t)
    <2>1. w.pc # "idle" /\ queue' = queue
      BY <1>14 DEF InsertRow, At, requests
    <2>2. v = Idle \/ v = NextUser(t)
      BY <1>2, <1>14 DEF InsertRow, OnConflict
    <2>3. v.pc # "idle" => v.todo = w.todo /\ v.out = w.out /\ v.pc = "loop"
      <3>1. v = Idle => v.pc = "idle"
        BY DEF Idle
      <3>2. CASE v = [w EXCEPT !.pc = "loop", !.who = NoUser]
        BY <1>3, <3>2 DEF Worker
      <3> QED BY <2>2, <3>1, <3>2 DEF NextUser
    <2> QED BY <1>3, <1>4, <2>1, <2>3 DEF Invited, Passed
  <1> HIDE DEF t, w, v, i
  <1>15. Handle(t) \/ Interrupt(t)
    BY DEF t
  <1> QED BY <1>5, <1>6, <1>7, <1>8, <1>9, <1>10, <1>11, <1>12, <1>13, <1>14, <1>15 DEF Handle

\* What others do leaves the message at hand and the handler's variables alone.
LEMMA OtherStep ==
  ASSUME IInv, ReachInv, UNCHANGED hvars \/ Befriends,
         UNCHANGED vars \/ Web
                           \/ \E t \in Topic \ {"post"} : Handle(t) \/ Interrupt(t)
  PROVE  FanOutIsInvited'
  <1> DEFINE p == "post"
  <1> USE DEF tables, requests
  <1>1. p \in Topic /\ work \in [Topic -> Worker] /\ queue = [t \in Topic |-> queue[t]]
        /\ queue[p] \in Seq(Event[p]) /\ (~At(p, "idle") => queue[p] # << >>)
    BY DEF Topic, Kind, IInv, HTypeOK, TypeOK
  <1>2. ASSUME work'[p] = work[p], queue[p] # << >> => Msg(p)' = Msg(p)
        PROVE  FanOutIsInvited'
    <2>1. circle \subseteq circle'
      BY CircleGrows DEF ReachInv
    <2> QED BY <1>1, <1>2, <2>1 DEF ReachInv, FanOutIsInvited, At, Invited, Allowed
  <1>3. ASSUME work' = work, queue' = queue PROVE FanOutIsInvited'
    BY <1>2, <1>3 DEF Msg
  <1>4. CASE UNCHANGED vars
    BY <1>3, <1>4 DEF vars
  <1>5. ASSUME NEW m \in outbox, Publish(m) PROVE FanOutIsInvited'
    <2>1. work' = work /\ queue' = [queue EXCEPT ![m.topic] = Append(@, m.event)]
      BY <1>5 DEF Publish
    <2>2. m.topic \in Topic /\ m.event \in Event[m.topic]
      BY DEF IInv, HTypeOK, TypeOK
    <2>3. m.topic # p => queue'[p] = queue[p]
      BY <1>1, <2>1
    <2>4. ASSUME m.topic = p, queue[p] # << >> PROVE Head(queue'[p]) = Head(queue[p])
      <3>1. queue'[p] = Append(queue[p], m.event)
        BY <1>1, <2>1, <2>4
      <3> QED BY <1>1, <2>2, <2>4, <3>1, AppendProperties
    <2> QED BY <1>2, <2>1, <2>3, <2>4 DEF Msg
  <1>6. ASSUME Web, \A m \in outbox : ~Publish(m) PROVE work' = work /\ queue' = queue
    BY <1>6 DEF Web, StartPost, StartComment, InsertItem, InsertRefused, StartBan, Unban,
         InsertBan, AddFriendship, RemoveFriendship, UpdatePrivacy, AbandonRequest, DeleteItem
  <1>7. ASSUME NEW t \in Topic, t # p, Handle(t) \/ Interrupt(t) PROVE FanOutIsInvited'
    <2>1. \E x : Set(t, x)
      BY <1>7 DEF Handle, Interrupt, Deliver, Load, LoadPost, List, CheckBanReverse,
           ViewReverse, ReadScope, ReadFriends, InsertRow, SetHidden, SetVisible, PurgeBan, Ack,
           CheckBan, StartView
    <2>2. work'[p] = work[p]
      BY <1>1, <1>7, <2>1 DEF Set
    <2>3. queue' = queue \/ queue' = [queue EXCEPT ![t] = Tail(@)]
      BY <1>7 DEF Handle, Interrupt, Deliver, Load, LoadPost, List, CheckBanReverse,
           ViewReverse, ReadScope, ReadFriends, InsertRow, SetHidden, SetVisible, PurgeBan, Ack,
           CheckBan, StartView, Reads, Requeued
    <2>4. queue'[p] = queue[p]
      BY <1>1, <1>7, <2>3
    <2> QED BY <1>2, <2>2, <2>4 DEF Msg
  <1> QED BY <1>3, <1>4, <1>5, <1>6, <1>7

\* Every new row is that of the fan-out's current recipient.
LEMMA StrangersStep ==
  ASSUME IInv, ReachInv, UNCHANGED hvars \/ Befriends, [Next]_vars
  PROVE  PostsStayAmongFriends'
  <1>0. /\ circle \subseteq circle'
        /\ \A u, i : Allowed(u, i) => Allowed(u, i)'
    BY CircleGrows DEF ReachInv
  <1>1. ASSUME \A r \in feed' : \E s \in feed : s.user = r.user /\ s.item = r.item
        PROVE  PostsStayAmongFriends'
    BY <1>0, <1>1 DEF ReachInv, PostsStayAmongFriends
  <1>2. CASE QuietStep \/ (\E d \in drafts : InsertItem(d)) \/ (\E i \in items : DeleteItem(i))
              \/ (\E t \in Topic : PurgeBan(t))
    BY <1>1, <1>2 DEF QuietStep, InsertItem, DeleteItem, PurgeBan
  <1>3. ASSUME NEW t \in Topic, SetHidden(t) \/ SetVisible(t) PROVE PostsStayAmongFriends'
    <2>1. PICK users, hidden : feed' = Refresh(Msg(t).owner, users, hidden)
      BY <1>3 DEF SetHidden, SetVisible
    <2>2. ASSUME NEW r \in feed' PROVE \E s \in feed : s.user = r.user /\ s.item = r.item
      <3>1. PICK s \in feed : r = s \/ r = [s EXCEPT !.hidden = hidden]
        BY <2>1 DEF Refresh
      <3>2. s \in Row
        BY DEF IInv, HTypeOK, TypeOK
      <3> QED BY <3>1, <3>2 DEF Row
    <2> QED BY <1>1, <2>2
  <1>4. ASSUME NEW t \in Topic, InsertRow(t) PROVE PostsStayAmongFriends'
    <2> DEFINE row == [user |-> work[t].who, item |-> Msg(t), hidden |-> At(t, "insertHidden")]
    <2>1. ~At(t, "idle") /\ work[t].pc \in Passed
      BY <1>4 DEF InsertRow, At, Passed
    <2>2. t \in Kind /\ Msg(t).kind = t
      BY <1>4, <2>1, AtWork DEF Sound, InsertRow, At
    <2>3. t = "post" => Allowed(work[t].who, Msg(t))
      BY <2>1 DEF ReachInv, FanOutIsInvited, Invited
    <2>4. feed' \subseteq feed \cup {row}
      BY <1>4 DEF InsertRow
    <2>5. row.user = work[t].who /\ row.item = Msg(t)
      OBVIOUS
    <2> HIDE DEF row
    <2> QED BY <1>0, <2>2, <2>3, <2>4, <2>5 DEF ReachInv, PostsStayAmongFriends, Allowed
  <1> QED BY <1>2, <1>3, <1>4, StepsOnTables

LEMMA ReachStep ==
  ASSUME IInv, ReachInv, [HNext]_hvars
  PROVE  ReachInv'
  <1>1. [Next]_vars
    BY DEF HNext, hvars
  <1>2. UNCHANGED hvars \/ Befriends
    BY DEF HNext
  <1>3. FanOutIsInvited'
    BY <1>1, <1>2, PostHandlerStep, OtherStep DEF Next
  <1>4. FriendsAreNoted' /\ PostsStayAmongFriends'
    BY <1>1, <1>2, CircleGrows, StrangersStep DEF ReachInv
  <1> QED BY <1>3, <1>4 DEF ReachInv

\* Whatever friendships, walls and redeliveries come and go around a fan-out, a
\* post reaches only the owner of the wall it was written on or, on its author's
\* own wall, people who were his friends while it was on its way.
THEOREM StrangersAreSpared == HSpec => []PostsStayAmongFriends
  <1>1. ReachInv => PostsStayAmongFriends
    BY DEF ReachInv
  <1> QED BY <1>1, InitReach, ReachStep, Invariance, PTL DEF HSpec

-----------------------------------------------------------------------------
(* Once nobody writes any more *)

\* A fan-out that has read the bans or the wall's privacy before they change
\* writes its row afterwards, so a purge or a refresh has the last word only
\* when no post and no comment is on its way.  Calm is the case without new
\* ones: older rows stand, users ban and unban, make and break friendships,
\* change their walls and delete what they wrote, and no event is lost.
Calm == PostInputs = {} /\ CommentInputs = {} /\ ~Lossy

NothingWritten ==
    /\ drafts = {}
    /\ \A m \in outbox : m.topic \notin Kind
    /\ \A t \in Kind : queue[t] = << >>

Asking == {"viewRev", "scope", "areFriends"}

OwnSteps ==
    /\ work["ban"].pc \in {"idle", "purge", "loop"}
    /\ work["privacy"].pc \in {"idle", "list", "loop"} \cup Asking

BanEvent(p) == [banner |-> p[1], banned |-> p[2]]

\* The event of ban p is on its way, or at the head with the DELETE to come.
PurgeComes(p) ==
    \/ [topic |-> "ban", event |-> BanEvent(p)] \in outbox
    \/ \E k \in 1..Len(queue["ban"]) :
          queue["ban"][k] = BanEvent(p) /\ (k = 1 => ~At("ban", "loop"))

BansArePurged == \A p \in bans, r \in feed : Between(r, p[1], p[2]) => PurgeComes(p)

CalmInv == Calm /\ NothingWritten /\ OwnSteps /\ BansArePurged

LEMMA InitCalm == HInit /\ Calm => CalmInv
  BY DEF HInit, Init, CalmInv, NothingWritten, OwnSteps, BansArePurged, Topic, Kind, Idle

\* The fan-outs of posts and comments have nothing to do.
LEMMA FanOutsRest ==
  ASSUME IInv, CalmInv, NEW t \in Kind
  PROVE  At(t, "idle") /\ queue[t] = << >>
  <1>1. t \in Topic /\ queue[t] = << >>
    BY DEF CalmInv, NothingWritten, Topic
  <1> QED BY <1>1 DEF IInv, HTypeOK, TypeOK

LEMMA CalmWorker ==
  ASSUME IInv, CalmInv, NEW t \in Topic, Handle(t) \/ Interrupt(t)
  PROVE  \/ /\ t = "ban"
            /\ Deliver(t) \/ PurgeBan(t) \/ Ack(t) \/ Interrupt(t)
         \/ /\ t = "privacy"
            /\ \/ Deliver(t) \/ List(t) \/ ViewReverse(t) \/ ReadScope(t) \/ ReadFriends(t)
               \/ SetHidden(t) \/ SetVisible(t) \/ Ack(t) \/ Interrupt(t)
               \/ \E u \in User : StartView(t, u)
  <1>1. t \in Kind \/ t = "privacy" \/ t = "ban"
    BY DEF Topic
  <1>2. CASE t \in Kind
    <2>1. At(t, "idle") /\ queue[t] = << >>
      BY <1>2, FanOutsRest
    <2> QED BY <2>1 DEF Handle, Interrupt, Deliver, Ready, Load, LoadPost, List, CheckBanReverse,
         ViewReverse, ReadScope, ReadFriends, InsertRow, SetHidden, SetVisible, PurgeBan, Ack,
         CheckBan, StartView, Viewing, At
  <1>3. CASE t = "ban"
    BY <1>3 DEF CalmInv, OwnSteps, Handle, Load, LoadPost, List, CheckBanReverse,
         ViewReverse, ReadScope, ReadFriends, InsertRow, SetHidden, SetVisible,
         CheckBan, StartView, Viewing, At, Kind
  <1>4. CASE t = "privacy"
    BY <1>4 DEF CalmInv, OwnSteps, Asking, Handle, Load, LoadPost, CheckBanReverse,
         InsertRow, PurgeBan, CheckBan, At, Kind
  <1> QED BY <1>1, <1>2, <1>3, <1>4

LEMMA CalmWeb ==
  ASSUME CalmInv, Web
  PROVE  \/ \E p \in BanInputs : StartBan(p[1], p[2]) \/ Unban(p[1], p[2])
         \/ \E p \in teardowns : InsertBan(p[1], p[2])
         \/ \E p \in FriendInputs : AddFriendship(p) \/ RemoveFriendship(p)
         \/ \E p \in PrivacyInputs : UpdatePrivacy(p[1], p[2])
         \/ \E m \in outbox : Publish(m)
         \/ \E i \in items : DeleteItem(i)
  BY DEF CalmInv, Calm, NothingWritten, Web, AbandonRequest

LEMMA NothingWrittenStep ==
  ASSUME IInv, CalmInv, [Next]_vars
  PROVE  NothingWritten'
  <1> USE DEF tables, requests
  <1>1. queue = [q \in Topic |-> queue[q]] /\ Kind \subseteq Topic /\ "ban" \notin Kind /\ "privacy" \notin Kind
    BY DEF IInv, HTypeOK, TypeOK, Topic, Kind
  <1>2. ASSUME NEW t \in Topic, Handle(t) \/ Interrupt(t) PROVE NothingWritten'
    <2>1. t \notin Kind /\ drafts' = drafts /\ outbox' = outbox
          /\ (queue' = queue \/ queue' = [queue EXCEPT ![t] = Tail(@)])
      BY <1>1, <1>2, CalmWorker DEF Interrupt, Reads, Deliver, List, ViewReverse, ReadScope,
           ReadFriends, SetHidden, SetVisible, PurgeBan, Ack, StartView, Requeued
    <2> QED BY <1>1, <2>1 DEF CalmInv, NothingWritten
  <1>3. ASSUME NEW m \in outbox, Publish(m) PROVE NothingWritten'
    <2>1. m.topic \notin Kind
      BY DEF CalmInv, NothingWritten
    <2> QED BY <1>1, <1>3, <2>1 DEF Publish, CalmInv, NothingWritten
  <1>4. ASSUME Web, \A m \in outbox : ~Publish(m) PROVE NothingWritten'
    <2>1. drafts' = drafts /\ queue' = queue
          /\ \/ outbox' = outbox
             \/ \E t \in {"ban", "privacy"} : \E e : outbox' = outbox \cup {[topic |-> t, event |-> e]}
      BY <1>4, CalmWeb DEF StartBan, Unban, InsertBan, AddFriendship, RemoveFriendship,
           UpdatePrivacy, DeleteItem
    <2>2. \A m \in outbox' : m \in outbox \/ m.topic \in {"ban", "privacy"}
      BY <2>1
    <2> QED BY <1>1, <2>1, <2>2 DEF CalmInv, NothingWritten
  <1>5. CASE UNCHANGED vars
    BY <1>5 DEF vars, CalmInv, NothingWritten
  <1> QED BY <1>2, <1>3, <1>4, <1>5 DEF Next

LEMMA OwnStepsStep ==
  ASSUME IInv, CalmInv, [Next]_vars
  PROVE  OwnSteps'
  <1>1. "ban" \in Topic /\ "privacy" \in Topic /\ work \in [Topic -> Worker]
    BY DEF Topic, IInv, HTypeOK, TypeOK
  <1>2. ASSUME work' = work PROVE OwnSteps'
    BY <1>2 DEF CalmInv, OwnSteps
  <1>3. ASSUME NEW t \in Topic, Handle(t) \/ Interrupt(t) PROVE OwnSteps'
    <2> DEFINE w == work[t]
    <2>0. w \in Worker /\ w.pc \in Step /\ t \notin Kind
      BY <1>1, <1>3, CalmWorker DEF Worker, Kind
    <2>1. CASE t = "ban"
      <3>1. \E pc \in {"purge", "loop"} : \/ Set(t, [Idle EXCEPT !.pc = pc])
                                          \/ Set(t, [w EXCEPT !.pc = pc])
                                          \/ Set(t, Idle)
        BY <1>3, <2>0, <2>1, CalmWorker DEF Deliver, PurgeBan, Ack, Interrupt
      <3>2. work'["privacy"] = work["privacy"] /\ work'["ban"].pc \in {"idle", "purge", "loop"}
        BY <1>1, <2>0, <2>1, <3>1 DEF Set, Worker, Idle
      <3> QED BY <3>2 DEF CalmInv, OwnSteps
    <2>2. CASE t = "privacy"
      <3>1. \E v : Set(t, v) /\ v.pc \in {"idle", "list", "loop"} \cup Asking
        <4>1. CASE Deliver(t)
          <5> DEFINE v == [Idle EXCEPT !.pc = "list"]
          <5>1. Set(t, v) /\ v.pc = "list"
            BY <2>0, <2>2, <4>1 DEF Deliver, Idle
          <5> QED BY <5>1
        <4>2. CASE Ack(t) \/ Interrupt(t)
          BY <4>2 DEF Ack, Interrupt, Idle
        <4>3. CASE List(t)
          <5>1. \E v \in {[w EXCEPT !.pc = "loop", !.todo = ViewersOf(Msg(t).owner)]} : Set(t, v) /\ v.pc = "loop"
            BY <2>0, <2>2, <4>3 DEF List, Worker
          <5> QED BY <5>1
        <4>4. CASE SetHidden(t)
          <5>1. \E v \in {[w EXCEPT !.hid = {}]} : Set(t, v) /\ v.pc = "loop"
            BY <2>0, <4>4 DEF SetHidden, Worker, At
          <5> QED BY <5>1
        <4>5. CASE SetVisible(t)
          <5>1. \E v \in {[w EXCEPT !.out = {}]} : Set(t, v) /\ v.pc = "loop"
            BY <2>0, <4>5 DEF SetVisible, Worker, At
          <5> QED BY <5>1
        <4>6. ASSUME NEW x \in Worker, NEW ok PROVE Decide(t, x, ok).pc = "loop"
          BY <2>0, <4>6 DEF Decide, Worker
        <4>7. CASE \E u \in User : StartView(t, u)
          <5> PICK u \in User : StartView(t, u)
            BY <4>7
          <5> DEFINE x == [w EXCEPT !.todo = @ \ {u}, !.out = @ \ {u}, !.who = u]
          <5>1. x \in Worker
            BY <2>0 DEF Worker
          <5>2. \/ \E ok \in BOOLEAN : Set(t, Decide(t, x, ok))
                \/ Set(t, [x EXCEPT !.pc = "viewRev"])
            BY DEF StartView
          <5>3. [x EXCEPT !.pc = "viewRev"].pc = "viewRev"
            BY <5>1 DEF Worker
          <5> HIDE DEF x
          <5> QED BY <4>6, <5>1, <5>2, <5>3 DEF Asking
        <4>8. CASE ViewReverse(t) \/ ReadScope(t) \/ ReadFriends(t)
          <5>1. \/ \E ok \in BOOLEAN : Set(t, Decide(t, w, ok))
                \/ \E pc \in {"scope", "areFriends"} : Set(t, [w EXCEPT !.pc = pc])
            <6>1. CASE ViewReverse(t)
              BY <6>1 DEF ViewReverse
            <6>2. CASE ReadScope(t)
              BY <6>2 DEF ReadScope
            <6>3. CASE ReadFriends(t)
              <7> DEFINE ok == {w.who, Msg(t).owner} \in friends
              <7>1. ok \in BOOLEAN
                OBVIOUS
              <7>2. Set(t, Decide(t, w, ok))
                BY <6>3 DEF ReadFriends
              <7> HIDE DEF ok
              <7> QED BY <7>1, <7>2
            <6> QED BY <4>8, <6>1, <6>2, <6>3
          <5>2. \A pc : [w EXCEPT !.pc = pc].pc = pc
            BY <2>0 DEF Worker
          <5>3. \A ok \in BOOLEAN : Decide(t, w, ok).pc = "loop"
            BY <2>0, <4>6
          <5> HIDE DEF w
          <5> QED BY <5>1, <5>2, <5>3 DEF Asking
        <4> HIDE DEF w
        <4> QED BY <1>3, <2>2, CalmWorker, <4>1, <4>2, <4>3, <4>4, <4>5, <4>7, <4>8
      <3>2. work'["ban"] = work["ban"] /\ work'["privacy"].pc \in {"idle", "list", "loop"} \cup Asking
        BY <1>1, <2>2, <3>1 DEF Set
      <3> QED BY <3>2 DEF CalmInv, OwnSteps
    <2> QED BY <1>3, <2>1, <2>2, CalmWorker
  <1>4. CASE Web
    BY <1>2, <1>4, CalmWeb DEF StartBan, Unban, InsertBan, AddFriendship, RemoveFriendship,
           UpdatePrivacy, Publish, DeleteItem
  <1>5. CASE UNCHANGED vars
    BY <1>2, <1>5 DEF vars
  <1> QED BY <1>3, <1>4, <1>5 DEF Next

\* A refresh writes one column of the rows it is about.
LEMMA RefreshKeeps ==
  ASSUME IInv, NEW o, NEW users, NEW hidden \in BOOLEAN, feed' = Refresh(o, users, hidden),
         NEW r \in feed'
  PROVE  \E s \in feed : /\ s.user = r.user /\ s.item = r.item
                         /\ r.hidden = IF s.item.owner = o /\ s.user \in users THEN hidden ELSE s.hidden
  <1>1. PICK s \in feed : r = IF s.item.owner = o /\ s.user \in users THEN [s EXCEPT !.hidden = hidden] ELSE s
    BY DEF Refresh
  <1>2. s \in Row
    BY DEF IInv, HTypeOK, TypeOK
  <1> QED BY <1>1, <1>2 DEF Row

LEMMA SameReaders ==
  ASSUME IInv, CalmInv, [Next]_vars
  PROVE  \A r \in feed' : \E s \in feed : s.user = r.user /\ s.item = r.item
  <1>1. ASSUME NEW t \in Topic PROVE ~InsertRow(t)
    <2>1. At(t, "idle") \/ t \in {"ban", "privacy"}
      BY FanOutsRest DEF Topic
    <2> QED BY <2>1 DEF CalmInv, OwnSteps, Asking, InsertRow, At
  <1>2. ASSUME NEW t \in Topic, SetHidden(t) \/ SetVisible(t)
        PROVE  \A r \in feed' : \E s \in feed : s.user = r.user /\ s.item = r.item
    <2>1. \E users : \E hidden \in BOOLEAN : feed' = Refresh(Msg(t).owner, users, hidden)
      <3>1. CASE SetHidden(t)
        <4>1. feed' = Refresh(Msg(t).owner, work[t].hid, TRUE)
          BY <3>1 DEF SetHidden
        <4> QED BY <4>1
      <3>2. CASE SetVisible(t)
        <4>1. feed' = Refresh(Msg(t).owner, work[t].out, FALSE)
          BY <3>2 DEF SetVisible
        <4> QED BY <4>1
      <3> QED BY <1>2, <3>1, <3>2
    <2> QED BY <2>1, RefreshKeeps
  <1>3. CASE QuietStep \/ (\E d \in drafts : InsertItem(d)) \/ (\E i \in items : DeleteItem(i))
              \/ (\E t \in Topic : PurgeBan(t))
    BY <1>3 DEF QuietStep, InsertItem, DeleteItem, PurgeBan
  <1> QED BY <1>1, <1>2, <1>3, StepsOnTables

\* The purge a row waits for comes closer; it runs before its event is gone.
LEMMA PurgeStep ==
  ASSUME IInv, CalmInv, [Next]_vars
  PROVE  BansArePurged'
  <1> USE DEF tables, requests
  <1> DEFINE b == "ban"
             Q == queue[b]
  <1>1. /\ b \in Topic /\ "privacy" \in Topic /\ "privacy" # b
        /\ queue = [q \in Topic |-> queue[q]] /\ Q \in Seq(Event[b])
        /\ work \in [Topic -> Worker] /\ (~At(b, "idle") => Q # << >>)
    <2>1. b \in Topic /\ "privacy" \in Topic /\ "privacy" # b
      BY DEF Topic
    <2> QED BY <2>1 DEF IInv, HTypeOK, TypeOK
  <1>2. Len(Q) \in Nat /\ (Q # << >> => Len(Q) > 0 /\ Msg(b) = Q[1])
    BY <1>1 DEF Msg
  <1>3. \A r \in feed' : \A x, y : Between(r, x, y) => \E s \in feed : Between(s, x, y) /\ s.user = r.user /\ s.item = r.item
    BY SameReaders DEF Between, Shows
  <1>4. ASSUME bans' \subseteq bans, \A p \in bans : PurgeComes(p) => PurgeComes(p)'
        PROVE  BansArePurged'
    BY <1>3, <1>4 DEF CalmInv, BansArePurged
  <1>5. ASSUME bans' \subseteq bans, outbox \subseteq outbox', queue'[b] = Q, work'[b] = work[b]
        PROVE  BansArePurged'
    BY <1>4, <1>5 DEF PurgeComes, At
  <1>6. ASSUME NEW t \in Topic, Handle(t) \/ Interrupt(t), t # b PROVE BansArePurged'
    <2>1. bans' = bans /\ outbox' = outbox
          /\ (queue' = queue \/ queue' = [queue EXCEPT ![t] = Tail(@)]) /\ \E v : Set(t, v)
      BY <1>6, CalmWorker DEF Interrupt, Reads, Deliver, List, ViewReverse, ReadScope,
           ReadFriends, SetHidden, SetVisible, PurgeBan, Ack, StartView, Requeued
    <2>2. queue'[b] = Q /\ work'[b] = work[b]
      BY <1>1, <1>6, <2>1 DEF Set
    <2> QED BY <1>5, <2>1, <2>2
  <1>7. CASE Deliver(b) \/ Interrupt(b)
    <2>1. work'[b].pc # "loop"
      BY <1>1, <1>7 DEF Deliver, Interrupt, Set, Idle, Kind
    <2>2. bans' = bans /\ outbox' = outbox /\ queue' = queue
      BY <1>7 DEF Deliver, Interrupt, Reads, Requeued
    <2> QED BY <1>4, <2>1, <2>2 DEF PurgeComes, At
  <1>8. CASE PurgeBan(b)
    <2>1. bans' = bans /\ outbox' = outbox /\ queue' = queue /\ At(b, "purge")
      BY <1>8 DEF PurgeBan
    <2>2. ASSUME NEW p \in bans', NEW r \in feed', Between(r, p[1], p[2]) PROVE PurgeComes(p)'
      <3>1. PurgeComes(p) /\ r \in feed
        BY <1>8, <2>1, <2>2 DEF CalmInv, BansArePurged, PurgeBan
      <3>2. Msg(b) # BanEvent(p)
        BY <1>8, <2>2 DEF PurgeBan, BanEvent
      <3>3. Msg(b) = Q[1]
        BY <1>1, <1>2, <2>1 DEF At
      <3> QED BY <2>1, <3>1, <3>2, <3>3 DEF PurgeComes
    <2> QED BY <2>2 DEF BansArePurged
  <1>9. CASE Ack(b)
    <2>1. bans' = bans /\ outbox' = outbox /\ queue'[b] = Tail(Q) /\ At(b, "loop") /\ Q # << >>
      BY <1>1, <1>9 DEF Ack, At
    <2>2. work'[b].pc = "idle"
      BY <1>1, <1>9 DEF Ack, Set, Idle
    <2>3. Len(Tail(Q)) = Len(Q) - 1 /\ \A k \in 1..Len(Tail(Q)) : Tail(Q)[k] = Q[k + 1]
      BY <1>1, <2>1, HeadTailProperties
    <2>4. ASSUME NEW p \in bans, PurgeComes(p) PROVE PurgeComes(p)'
      <3>1. CASE [topic |-> b, event |-> BanEvent(p)] \in outbox
        BY <2>1, <3>1 DEF PurgeComes
      <3>2. ASSUME NEW k \in 1..Len(Q), Q[k] = BanEvent(p), k = 1 => ~At(b, "loop") PROVE PurgeComes(p)'
        <4>1. k - 1 \in 1..Len(Tail(Q)) /\ Tail(Q)[k - 1] = BanEvent(p)
          BY <1>2, <2>1, <2>3, <3>2
        <4> QED BY <2>1, <2>2, <4>1 DEF PurgeComes, At
      <3> QED BY <2>4, <3>1, <3>2 DEF PurgeComes
    <2> QED BY <1>4, <2>1, <2>4
  <1>10. ASSUME NEW p \in teardowns, InsertBan(p[1], p[2]) PROVE BansArePurged'
    <2> DEFINE e == [topic |-> b, event |-> [banner |-> p[1], banned |-> p[2]]]
    <2>1. /\ bans' = bans \cup {<<p[1], p[2]>>} /\ outbox' = outbox \cup {e}
          /\ UNCHANGED <<feed, queue, work>>
      BY <1>10 DEF InsertBan
    <2>2. \A q \in bans : PurgeComes(q) => PurgeComes(q)'
      BY <2>1 DEF PurgeComes, At
    <2>3. PurgeComes(<<p[1], p[2]>>)'
      <3>1. [topic |-> b, event |-> BanEvent(<<p[1], p[2]>>)] \in outbox'
        BY <2>1 DEF BanEvent
      <3> QED BY <3>1 DEF PurgeComes, BanEvent
    <2> QED BY <2>1, <2>2, <2>3 DEF CalmInv, BansArePurged
  <1>11. ASSUME NEW m \in outbox, Publish(m) PROVE BansArePurged'
    <2>1. /\ bans' = bans /\ work' = work /\ outbox' = outbox \ {m}
          /\ queue' = [queue EXCEPT ![m.topic] = Append(@, m.event)]
      BY <1>11 DEF Publish
    <2>2. m.topic \in Topic /\ m.event \in Event[m.topic]
      BY DEF IInv, HTypeOK, TypeOK
    <2>3. CASE m.topic # b
      <3>1. queue'[b] = Q
        BY <1>1, <2>1, <2>3
      <3>2. \A p : [topic |-> b, event |-> BanEvent(p)] \in outbox => [topic |-> b, event |-> BanEvent(p)] \in outbox'
        BY <2>1, <2>3
      <3> QED BY <1>4, <2>1, <3>1, <3>2 DEF PurgeComes, At
    <2>4. CASE m.topic = b
      <3>1. queue'[b] = Append(Q, m.event)
        BY <1>1, <2>1, <2>4
      <3>2. Len(queue'[b]) = Len(Q) + 1 /\ queue'[b][Len(Q) + 1] = m.event
            /\ \A k \in 1..Len(Q) : queue'[b][k] = Q[k]
        BY <1>1, <2>2, <2>4, <3>1, AppendProperties
      <3>3. ASSUME NEW p \in bans, PurgeComes(p) PROVE PurgeComes(p)'
        <4>1. CASE m = [topic |-> b, event |-> BanEvent(p)]
          <5>1. m.event = BanEvent(p)
            BY <4>1
          <5>2. Len(Q) + 1 = 1 => ~At(b, "loop")'
            BY <1>1, <1>2, <2>1 DEF At
          <5> QED BY <1>2, <3>2, <5>1, <5>2 DEF PurgeComes
        <4>2. CASE [topic |-> b, event |-> BanEvent(p)] \in outbox \ {m}
          BY <2>1, <4>2 DEF PurgeComes
        <4>3. ASSUME NEW k \in 1..Len(Q), Q[k] = BanEvent(p), k = 1 => ~At(b, "loop") PROVE PurgeComes(p)'
          <5>1. k \in 1..Len(queue'[b]) /\ queue'[b][k] = BanEvent(p) /\ (k = 1 => ~At(b, "loop")')
            BY <1>2, <2>1, <3>2, <4>3 DEF At
          <5> QED BY <5>1 DEF PurgeComes
        <4> QED BY <3>3, <4>1, <4>2, <4>3 DEF PurgeComes
      <3> QED BY <1>4, <2>1, <3>3
    <2> QED BY <2>3, <2>4
  <1>12. ASSUME Web, \A p \in teardowns : ~InsertBan(p[1], p[2]), \A m \in outbox : ~Publish(m)
         PROVE  BansArePurged'
    <2>1. bans' \subseteq bans /\ outbox \subseteq outbox' /\ queue' = queue /\ work' = work
      BY <1>12, CalmWeb DEF StartBan, Unban, AddFriendship, RemoveFriendship, UpdatePrivacy, DeleteItem
    <2> QED BY <1>5, <2>1
  <1>13. CASE UNCHANGED vars
    BY <1>5, <1>13 DEF vars
  <1> QED BY <1>6, <1>7, <1>8, <1>9, <1>10, <1>11, <1>12, <1>13, CalmWorker DEF Next

LEMMA CalmStep ==
  ASSUME IInv, CalmInv, [HNext]_hvars
  PROVE  CalmInv'
  <1>1. [Next]_vars
    BY DEF HNext, hvars
  <1> QED BY <1>1, NothingWrittenStep, OwnStepsStep, PurgeStep DEF CalmInv, Calm

LEMMA CalmInvariance == HSpec /\ Calm => []CalmInv
  BY InitCalm, CalmStep, Invariance, PTL DEF HSpec

\* Once the events of the bans are handled, the two parties of every standing
\* ban are gone from each other's feed, in whatever order bans, unbans,
\* redeliveries and deletions came, as long as nobody writes meanwhile.
THEOREM BansPurgeFeeds == HSpec /\ Calm => []BanPurgesFeeds
  <1>1. CalmInv => BanPurgesFeeds
    <2> SUFFICES ASSUME CalmInv, Quiet("ban"), NEW p \in bans, NEW r \in feed, Between(r, p[1], p[2])
                 PROVE  FALSE
      BY DEF BanPurgesFeeds, Between
    <2>1. PurgeComes(p)
      BY DEF CalmInv, BansArePurged
    <2>2. [topic |-> "ban", event |-> BanEvent(p)] \notin outbox
      BY DEF Quiet
    <2>3. queue["ban"] = << >>
      BY DEF Quiet
    <2> QED BY <2>1, <2>2, <2>3 DEF PurgeComes
  <1> QED BY <1>1, CalmInvariance, PTL

-----------------------------------------------------------------------------
(* What hidden_at says in the end *)

Views(u, o) == CanView(bans, friends, privacy, u, o)

\* The rows the database starts with are hidden as the walls say.
StartsSettled ==
    \A r \in InitFeed : r.hidden <=> ~CanView({}, InitFriends, InitPrivacy, r.user, r.item.owner)

BansAreInputs == bans \cup teardowns \subseteq BanInputs

\* An event of wall o is on its way behind the message at hand.
RefreshComes(o) ==
    \/ \E m \in outbox : m.topic = "privacy" /\ m.event.owner = o
    \/ \E k \in 2..Len(queue["privacy"]) : queue["privacy"][k].owner = o

\* A handler with local variables w has yet to write its verdict on user u.
Owes(w, u) ==
    \/ w.pc \in {"idle", "list"}
    \/ u \in w.todo \cup w.out \cup w.hid
    \/ w.pc \in Asking /\ u = w.who

\* The verdicts it has collected on wall o hold, unless it will be asked again.
\* About turbulent pairs nothing is said.
Holds(w, o) ==
    /\ w.pc \in Asking => w.who # o
    /\ \/ RefreshComes(o)
       \/ /\ w.pc = "areFriends" => privacy[o]["view"] = "friends"
          /\ \A u \in w.out : Turbulent(u, o) \/ Views(u, o)
          /\ \A u \in w.hid : Turbulent(u, o) \/ ~Views(u, o)

AtHand(o) == queue["privacy"] # << >> /\ Msg("privacy").owner = o

Follows(r) == r.hidden <=> ~Views(r.user, r.item.owner)

\* A row is right, or an event that will set it right is at hand or on its way.
RowsFollow ==
    \A r \in feed :
        \/ Turbulent(r.user, r.item.owner)
        \/ RefreshComes(r.item.owner)
        \/ AtHand(r.item.owner) /\ Owes(work["privacy"], r.user)
        \/ Follows(r)

VerdictsHold == ~At("privacy", "idle") => Holds(work["privacy"], Msg("privacy").owner)

SettleInv == BansAreInputs /\ RowsFollow /\ VerdictsHold

LEMMA InitSettles == HInit /\ Calm /\ StartsSettled => SettleInv
  <1> SUFFICES ASSUME HInit, StartsSettled PROVE SettleInv
    OBVIOUS
  <1>1. \A r \in feed : Follows(r)
    BY DEF HInit, Init, StartsSettled, Follows, Views
  <1>2. VerdictsHold
    BY DEF HInit, Init, VerdictsHold, At, Topic, Kind, Idle
  <1>3. BansAreInputs
    BY DEF HInit, Init, BansAreInputs
  <1> QED BY <1>1, <1>2, <1>3 DEF SettleInv, RowsFollow

\* No ban stands between the parties of a pair that is not turbulent.
LEMMA NoBanBetween ==
  ASSUME BansAreInputs, NEW u, NEW o, ~Turbulent(u, o)
  PROVE  ~IsBanned(bans, u, o) /\ ~IsBanned(bans, o, u)
  BY DEF BansAreInputs, Turbulent, IsBanned

\* What such a pair sees depends on the wall and the friendship alone.
LEMMA ViewsOfSteady ==
  ASSUME BansAreInputs, NEW u, NEW o, ~Turbulent(u, o)
  PROVE  Views(u, o) <=> \/ u = o
                         \/ privacy[o]["view"] = "public"
                         \/ privacy[o]["view"] = "friends" /\ {u, o} \in friends
  BY NoBanBetween DEF Views, CanView, Can, MutuallyBanned, ScopeSatisfied

LEMMA BansAreInputsStep ==
  ASSUME IInv, CalmInv, BansAreInputs, [Next]_vars
  PROVE  BansAreInputs'
  <1> USE DEF BansAreInputs, tables, requests
  <1>1. ASSUME NEW t \in Topic, Handle(t) \/ Interrupt(t) PROVE bans' = bans /\ teardowns' = teardowns
    BY <1>1, CalmWorker DEF Interrupt, Reads, Deliver, List, ViewReverse, ReadScope,
         ReadFriends, SetHidden, SetVisible, PurgeBan, Ack, StartView
  <1>2. ASSUME NEW p \in BanInputs, StartBan(p[1], p[2]) PROVE BansAreInputs'
    <2>1. p = <<p[1], p[2]>>
      BY InputsAssumption
    <2>2. bans' = bans /\ teardowns' = teardowns \cup {<<p[1], p[2]>>}
      BY <1>2 DEF StartBan
    <2> QED BY <2>1, <2>2
  <1>3. ASSUME NEW p \in teardowns, InsertBan(p[1], p[2]) PROVE BansAreInputs'
    <2>1. p = <<p[1], p[2]>>
      BY InputsAssumption
    <2>2. bans' = bans \cup {<<p[1], p[2]>>} /\ teardowns' = teardowns \ {<<p[1], p[2]>>}
      BY <1>3 DEF InsertBan
    <2> QED BY <2>1, <2>2
  <1>4. ASSUME Web, \A p \in BanInputs : ~StartBan(p[1], p[2]), \A p \in teardowns : ~InsertBan(p[1], p[2])
        PROVE  bans' \subseteq bans /\ teardowns' = teardowns
    BY <1>4, CalmWeb DEF Unban, AddFriendship, RemoveFriendship, UpdatePrivacy, Publish, DeleteItem
  <1>5. CASE UNCHANGED vars
    BY <1>5 DEF vars
  <1> QED BY <1>1, <1>2, <1>3, <1>4, <1>5 DEF Next

\* The friendship of a pair that is not turbulent neither breaks nor starts.
LEMMA FriendshipKept ==
  ASSUME IInv, CalmInv, [Next]_vars, NEW u, NEW o, ~Turbulent(u, o)
  PROVE  {u, o} \in friends' <=> {u, o} \in friends
  <1> USE DEF tables, requests
  <1>1. ASSUME NEW t \in Topic, Handle(t) \/ Interrupt(t) PROVE friends' = friends
    BY <1>1, CalmWorker DEF Interrupt, Reads, Deliver, List, ViewReverse, ReadScope,
         ReadFriends, SetHidden, SetVisible, PurgeBan, Ack, StartView
  <1>2. ASSUME NEW p \in BanInputs, StartBan(p[1], p[2])
        PROVE  {u, o} \in friends' <=> {u, o} \in friends
    <2>1. p = <<p[1], p[2]>>
      BY InputsAssumption
    <2>2. {u, o} # {p[1], p[2]}
      <3> SUFFICES ASSUME {u, o} = {p[1], p[2]} PROVE FALSE
        OBVIOUS
      <3>1. (u = p[1] /\ o = p[2]) \/ (u = p[2] /\ o = p[1])
        OBVIOUS
      <3> QED BY <2>1, <3>1 DEF Turbulent
    <2>3. friends' = friends \ {{p[1], p[2]}}
      BY <1>2 DEF StartBan
    <2> QED BY <2>2, <2>3
  <1>3. ASSUME NEW p \in FriendInputs, AddFriendship(p) \/ RemoveFriendship(p)
        PROVE  {u, o} \in friends' <=> {u, o} \in friends
    <2>1. {u, o} # p
      BY DEF Turbulent
    <2> QED BY <1>3, <2>1 DEF AddFriendship, RemoveFriendship
  <1>4. ASSUME Web, \A p \in BanInputs : ~StartBan(p[1], p[2]),
               \A p \in FriendInputs : ~AddFriendship(p) /\ ~RemoveFriendship(p)
        PROVE  friends' = friends
    BY <1>4, CalmWeb DEF Unban, InsertBan, UpdatePrivacy, Publish, DeleteItem
  <1>5. CASE UNCHANGED vars
    BY <1>5 DEF vars
  <1> QED BY <1>1, <1>2, <1>3, <1>4, <1>5 DEF Next

LEMMA ViewsKept ==
  ASSUME IInv, CalmInv, BansAreInputs, [Next]_vars, NEW u, NEW o, ~Turbulent(u, o),
         privacy'[o] = privacy[o]
  PROVE  Views(u, o)' <=> Views(u, o)
  <1>1. BansAreInputs'
    BY BansAreInputsStep
  <1>2. Views(u, o)' <=> \/ u = o
                         \/ privacy'[o]["view"] = "public"
                         \/ privacy'[o]["view"] = "friends" /\ {u, o} \in friends'
    <2>1. ~IsBanned(bans', u, o) /\ ~IsBanned(bans', o, u)
      BY <1>1 DEF BansAreInputs, Turbulent, IsBanned
    <2> QED BY <2>1 DEF Views, CanView, Can, MutuallyBanned, ScopeSatisfied
  <1> QED BY <1>2, ViewsOfSteady, FriendshipKept

\* The message at hand is the first of the queue.
LEMMA HeadOf ==
  ASSUME NEW S, NEW q \in Seq(S), q # << >>
  PROVE  Len(q) \in Nat \ {0} /\ q[1] \in S /\ Head(q) = q[1]
  OBVIOUS

\* The queue of privacy events and its handler.
LEMMA PrivacyTopic ==
  ASSUME IInv
  PROVE  /\ "privacy" \in Topic /\ "privacy" \notin Kind
         /\ queue = [t \in Topic |-> queue[t]] /\ queue["privacy"] \in Seq([owner: User])
         /\ work \in [Topic -> Worker] /\ privacy \in [User -> Privacy] /\ feed \subseteq Row
         /\ ~At("privacy", "idle") => queue["privacy"] # << >>
         /\ queue["privacy"] # << >> => /\ Len(queue["privacy"]) \in Nat \ {0}
                                        /\ Msg("privacy") = queue["privacy"][1]
                                        /\ Msg("privacy").owner \in User
         /\ \A r \in feed : r.item.owner \in User
  <1>1. "privacy" \in Topic /\ "privacy" \notin Kind
    BY DEF Topic, Kind
  <1>2. queue["privacy"] \in Seq([owner: User])
    <2>1. queue["privacy"] \in Seq(Event["privacy"])
      BY <1>1 DEF IInv, HTypeOK, TypeOK
    <2> QED BY <2>1, EventTypes
  <1>3. \A r \in feed : r.item.owner \in User
    BY DEF IInv, HTypeOK, TypeOK, Row, Item
  <1>4. ASSUME queue["privacy"] # << >>
        PROVE  /\ Len(queue["privacy"]) \in Nat \ {0} /\ Msg("privacy") = queue["privacy"][1]
               /\ Msg("privacy").owner \in User
    <2>1. Len(queue["privacy"]) \in Nat \ {0} /\ queue["privacy"][1] \in [owner: User]
          /\ Msg("privacy") = queue["privacy"][1]
      BY <1>2, <1>4, HeadOf DEF Msg
    <2> QED BY <2>1
  <1> QED BY <1>1, <1>2, <1>3, <1>4 DEF IInv, HTypeOK, TypeOK

\* Steps beside the privacy handler: every wall they change has an event on
\* its way, and they leave the message at hand and the collected verdicts.
LEMMA AsideSettles ==
  ASSUME IInv, CalmInv, SettleInv, [Next]_vars,
         work'["privacy"] = work["privacy"],
         \A r \in feed' : r \in feed,
         \A o \in User : privacy'[o] = privacy[o] \/ RefreshComes(o)',
         \A o : RefreshComes(o) =>
                   RefreshComes(o)' \/ (At("privacy", "idle") /\ AtHand(o)'),
         ~At("privacy", "idle") => queue'["privacy"] # << >>,
         queue["privacy"] # << >> => queue'["privacy"] # << >> /\ Msg("privacy")' = Msg("privacy")
  PROVE  RowsFollow' /\ VerdictsHold'
  <1> DEFINE w == work["privacy"]
  <1>1. \A o : AtHand(o) => AtHand(o)'
    BY DEF AtHand
  <1>2. \A r \in feed : r.item.owner \in User
    BY PrivacyTopic
  <1>3. RowsFollow'
    <2> SUFFICES ASSUME NEW r \in feed', ~Turbulent(r.user, r.item.owner), ~RefreshComes(r.item.owner)',
                        ~(AtHand(r.item.owner)' /\ Owes(w, r.user))
                 PROVE  Follows(r)'
      BY DEF RowsFollow, Owes
    <2>1. r \in feed /\ r.item.owner \in User
      BY <1>2
    <2>2. privacy'[r.item.owner] = privacy[r.item.owner]
      BY <2>1
    <2>3. ~RefreshComes(r.item.owner)
      BY DEF At, Owes
    <2>4. ~(AtHand(r.item.owner) /\ Owes(w, r.user))
      BY <1>1
    <2>5. Follows(r)
      BY <2>1, <2>3, <2>4 DEF SettleInv, RowsFollow
    <2>6. Views(r.user, r.item.owner)' <=> Views(r.user, r.item.owner)
      BY <2>2, ViewsKept DEF SettleInv
    <2> QED BY <2>5, <2>6 DEF Follows
  <1>4. VerdictsHold'
    <2> SUFFICES ASSUME ~At("privacy", "idle") PROVE Holds(w, Msg("privacy").owner)'
      BY DEF VerdictsHold, At
    <2> PICK o : o = Msg("privacy").owner
      OBVIOUS
    <2>1. Msg("privacy")' = Msg("privacy") /\ o \in User /\ Holds(w, o)
      BY PrivacyTopic DEF SettleInv, VerdictsHold
    <2>2. ASSUME ~RefreshComes(o)' PROVE ~RefreshComes(o) /\ privacy'[o] = privacy[o]
      BY <2>1, <2>2
    <2>3. ASSUME ~RefreshComes(o)', NEW u, ~Turbulent(u, o) PROVE Views(u, o)' <=> Views(u, o)
      BY <2>2, <2>3, ViewsKept DEF SettleInv
    <2>4. Holds(w, o)'
      BY <2>1, <2>2, <2>3 DEF Holds
    <2> QED BY <2>1, <2>4
  <1> QED BY <1>3, <1>4

LEMMA AsideStep ==
  ASSUME IInv, CalmInv, SettleInv, [Next]_vars,
         UNCHANGED vars \/ Web \/ Handle("ban") \/ Interrupt("ban")
  PROVE  RowsFollow' /\ VerdictsHold'
  <1> USE DEF tables, requests
  <1> DEFINE P == "privacy"
             Q == queue[P]
  <1>1. /\ P \in Topic /\ "ban" \in Topic /\ queue = [t \in Topic |-> queue[t]]
        /\ work \in [Topic -> Worker] /\ privacy \in [User -> Privacy]
        /\ (~At(P, "idle") => Q # << >>)
    BY PrivacyTopic DEF Topic
  <1>2. ASSUME work'[P] = work[P], queue'[P] = Q, \A r \in feed' : r \in feed,
               \A o \in User : privacy'[o] = privacy[o] \/ RefreshComes(o)',
               \A m \in outbox : m.topic = P => m \in outbox'
        PROVE  RowsFollow' /\ VerdictsHold'
    <2>1. \A o : RefreshComes(o) => RefreshComes(o)'
      BY <1>2 DEF RefreshComes
    <2>2. Msg(P)' = Msg(P)
      BY <1>2 DEF Msg
    <2> QED BY <1>1, <1>2, <2>1, <2>2, AsideSettles
  <1>3. CASE UNCHANGED vars
    BY <1>2, <1>3 DEF vars
  <1>4. CASE Handle("ban") \/ Interrupt("ban")
    <2>1. /\ outbox' = outbox /\ privacy' = privacy /\ \A r \in feed' : r \in feed
          /\ (queue' = queue \/ queue' = [queue EXCEPT !["ban"] = Tail(@)]) /\ \E v : Set("ban", v)
      BY <1>1, <1>4, CalmWorker DEF Interrupt, Reads, Deliver, PurgeBan, Ack, Requeued
    <2>2. queue'[P] = Q /\ work'[P] = work[P]
      BY <1>1, <2>1 DEF Set
    <2> QED BY <1>2, <2>1, <2>2
  <1>5. ASSUME NEW p \in PrivacyInputs, UpdatePrivacy(p[1], p[2]) PROVE RowsFollow' /\ VerdictsHold'
    <2> DEFINE e == [topic |-> P, event |-> [owner |-> p[1]]]
    <2>1. /\ privacy' = [privacy EXCEPT ![p[1]] = p[2]] /\ outbox' = outbox \cup {e}
          /\ UNCHANGED <<feed, queue, work>>
      BY <1>5 DEF UpdatePrivacy
    <2>2. RefreshComes(p[1])'
      <3>1. e \in outbox' /\ e.topic = P /\ e.event.owner = p[1]
        BY <2>1
      <3> QED BY <3>1 DEF RefreshComes
    <2>3. \A o \in User : privacy'[o] = privacy[o] \/ o = p[1]
      BY <1>1, <2>1
    <2> QED BY <1>2, <2>1, <2>2, <2>3
  <1>6. ASSUME NEW m \in outbox, Publish(m) PROVE RowsFollow' /\ VerdictsHold'
    <2>1. /\ UNCHANGED <<feed, privacy, work>> /\ outbox' = outbox \ {m}
          /\ queue' = [queue EXCEPT ![m.topic] = Append(@, m.event)]
      BY <1>6 DEF Publish
    <2>2. CASE m.topic # P
      BY <1>1, <1>2, <2>1, <2>2
    <2>3. CASE m.topic = P
      <3>1. queue'[P] = Append(Q, m.event)
        BY <1>1, <2>1, <2>3
      <3>2. m.event \in [owner: User]
        <4>1. m.event \in Event[m.topic]
          BY DEF IInv, HTypeOK, TypeOK
        <4> QED BY <2>3, <4>1, EventTypes
      <3>3. Q \in Seq([owner: User])
        BY PrivacyTopic
      <3>4. /\ Len(Q) \in Nat /\ Len(queue'[P]) = Len(Q) + 1
            /\ queue'[P][Len(Q) + 1] = m.event /\ \A k \in 1..Len(Q) : queue'[P][k] = Q[k]
            /\ queue'[P] # << >> /\ (Q # << >> => Len(Q) > 0)
        BY <3>1, <3>2, <3>3, AppendProperties
      <3>5. Head(queue'[P]) = queue'[P][1] /\ (Q # << >> => Head(Q) = Q[1])
        OBVIOUS
      <3>6. Q # << >> => Msg(P)' = Msg(P)
        BY <3>4, <3>5 DEF Msg
      <3>7. ASSUME NEW o, RefreshComes(o) PROVE RefreshComes(o)' \/ (At(P, "idle") /\ AtHand(o)')
        <4>1. CASE m.event.owner = o
          <5>1. CASE Q # << >>
            <6>1. Len(Q) + 1 \in 2..Len(queue'[P]) /\ queue'[P][Len(Q) + 1].owner = o
              BY <3>4, <4>1, <5>1
            <6> QED BY <6>1 DEF RefreshComes
          <5>2. CASE Q = << >>
            <6>1. Len(Q) = 0 /\ Msg(P)' = m.event
              BY <3>4, <3>5, <5>2 DEF Msg
            <6> QED BY <1>1, <3>4, <4>1, <5>2, <6>1 DEF AtHand
          <5> QED BY <5>1, <5>2
        <4>2. ASSUME NEW n \in outbox, n # m, n.topic = P, n.event.owner = o PROVE RefreshComes(o)'
          BY <2>1, <4>2 DEF RefreshComes
        <4>3. ASSUME NEW k \in 2..Len(Q), Q[k].owner = o PROVE RefreshComes(o)'
          <5>1. k \in 2..Len(queue'[P]) /\ queue'[P][k].owner = o
            BY <3>4, <4>3
          <5> QED BY <5>1 DEF RefreshComes
        <4> QED BY <3>7, <4>1, <4>2, <4>3 DEF RefreshComes
      <3> QED BY <2>1, <3>4, <3>6, <3>7, AsideSettles
    <2> QED BY <2>2, <2>3
  <1>7. ASSUME Web, \A p \in PrivacyInputs : ~UpdatePrivacy(p[1], p[2]), \A m \in outbox : ~Publish(m)
        PROVE  RowsFollow' /\ VerdictsHold'
    <2>1. /\ UNCHANGED <<privacy, queue, work>> /\ outbox \subseteq outbox'
          /\ \A r \in feed' : r \in feed
      BY <1>7, CalmWeb DEF StartBan, Unban, InsertBan, AddFriendship, RemoveFriendship, DeleteItem
    <2> QED BY <1>2, <2>1
  <1> QED BY <1>3, <1>4, <1>5, <1>6, <1>7

-----------------------------------------------------------------------------

\* A step of the privacy handler within its message that writes no row: what
\* it owed it still owes, and what it has collected holds.
LEMMA WithinSettles ==
  ASSUME IInv, CalmInv, SettleInv, NEW v, Set("privacy", v),
         UNCHANGED <<tables, requests, feed, queue>>,
         v.pc # "idle" => Holds(v, Msg("privacy").owner),
         \A r \in feed : AtHand(r.item.owner) /\ Owes(work["privacy"], r.user) => Owes(v, r.user)
  PROVE  RowsFollow' /\ VerdictsHold'
  <1> USE DEF tables, requests
  <1>1. work'["privacy"] = v
    BY PrivacyTopic DEF Set
  <1>2. Msg("privacy")' = Msg("privacy")
    BY DEF Msg
  <1>3. \A o : (RefreshComes(o)' <=> RefreshComes(o)) /\ (AtHand(o)' <=> AtHand(o))
    BY <1>2 DEF RefreshComes, AtHand
  <1>4. \A u, o : Views(u, o)' <=> Views(u, o)
    BY DEF Views
  <1>5. RowsFollow'
    <2> SUFFICES ASSUME NEW r \in feed, ~Turbulent(r.user, r.item.owner), ~RefreshComes(r.item.owner),
                        ~(AtHand(r.item.owner) /\ Owes(v, r.user))
                 PROVE  Follows(r)
      BY <1>1, <1>3, <1>4 DEF RowsFollow, Owes, Follows
    <2> QED BY DEF SettleInv, RowsFollow
  <1>6. VerdictsHold'
    <2> SUFFICES ASSUME v.pc # "idle" PROVE Holds(v, Msg("privacy").owner)'
      BY <1>1, <1>2 DEF VerdictsHold, At, Holds
    <2> PICK o : o = Msg("privacy").owner
      OBVIOUS
    <2>1. Holds(v, o)'
      BY <1>3, <1>4 DEF Holds
    <2> QED BY <1>2, <2>1
  <1> QED BY <1>5, <1>6

\* A verdict on w.who becomes one more collected verdict.
LEMMA DecideSettles ==
  ASSUME NEW w \in Worker, NEW o, NEW ok \in BOOLEAN,
         RefreshComes(o) \/ /\ \A u \in w.out : Turbulent(u, o) \/ Views(u, o)
                            /\ \A u \in w.hid : Turbulent(u, o) \/ ~Views(u, o)
                            /\ Turbulent(w.who, o) \/ (ok <=> Views(w.who, o))
  PROVE  LET v == Decide("privacy", w, ok)
         IN  /\ Holds(v, o)
             /\ \A u : u \in w.todo \cup w.out \cup w.hid \cup {w.who} => Owes(v, u)
  <1> DEFINE v == Decide("privacy", w, ok)
  <1>1. /\ v.pc = "loop" /\ v.todo = w.todo
        /\ v.out = IF ok THEN w.out \cup {w.who} ELSE w.out
        /\ v.hid = IF ok THEN w.hid ELSE w.hid \cup {w.who}
    BY DEF Decide, Worker, Kind
  <1> HIDE DEF v
  <1>2. Holds(v, o)
    BY <1>1 DEF Holds, Asking
  <1>3. \A u : u \in w.todo \cup w.out \cup w.hid \cup {w.who} => Owes(v, u)
    BY <1>1 DEF Owes
  <1> QED BY <1>2, <1>3 DEF v

\* Asking: the reads of CanView, one wall at a time.
LEMMA AskingStep ==
  ASSUME IInv, CalmInv, SettleInv,
         \/ \E u \in User : StartView("privacy", u)
         \/ ViewReverse("privacy") \/ ReadScope("privacy") \/ ReadFriends("privacy")
  PROVE  RowsFollow' /\ VerdictsHold'
  <1> DEFINE P == "privacy"
             w == work[P]
  <1> PICK o : o = Msg(P).owner
    OBVIOUS
  <1>1. Reads /\ UNCHANGED <<tables, requests, feed, queue>> /\ w \in Worker /\ ~At(P, "idle")
    BY PrivacyTopic DEF StartView, ViewReverse, ReadScope, ReadFriends, Reads, Viewing, At
  <1>2. Holds(w, o) /\ BansAreInputs /\ o \in User
    BY <1>1, PrivacyTopic DEF SettleInv, VerdictsHold
  <1>3. ASSUME NEW v, Set(P, v), Holds(v, o), \A u : Owes(w, u) => Owes(v, u)
        PROVE  RowsFollow' /\ VerdictsHold'
    BY <1>1, <1>3, WithinSettles
  <1>4. ASSUME NEW x \in Worker, NEW ok \in BOOLEAN, Set(P, Decide(P, x, ok)),
               \A u : Owes(w, u) => u \in x.todo \cup x.out \cup x.hid \cup {x.who},
               x.out \subseteq w.out, x.hid = w.hid,
               RefreshComes(o) \/ Turbulent(x.who, o) \/ (ok <=> Views(x.who, o))
        PROVE  RowsFollow' /\ VerdictsHold'
    <2>1. RefreshComes(o) \/ /\ \A u \in x.out : Turbulent(u, o) \/ Views(u, o)
                             /\ \A u \in x.hid : Turbulent(u, o) \/ ~Views(u, o)
                             /\ Turbulent(x.who, o) \/ (ok <=> Views(x.who, o))
      BY <1>2, <1>4 DEF Holds
    <2> QED BY <1>3, <1>4, <2>1, DecideSettles
  <1>5. ASSUME NEW u \in User, StartView(P, u) PROVE RowsFollow' /\ VerdictsHold'
    <2> DEFINE x == [w EXCEPT !.todo = @ \ {u}, !.out = @ \ {u}, !.who = u]
               y == [x EXCEPT !.pc = "viewRev"]
    <2>1. w.pc = "loop" /\ u \in w.todo
      BY <1>5 DEF StartView, Viewing, At, Kind
    <2>2. /\ x \in Worker /\ x.todo = w.todo \ {u} /\ x.out = w.out \ {u} /\ x.hid = w.hid /\ x.who = u
      BY <1>1 DEF Worker
    <2>3. y.todo = x.todo /\ y.out = x.out /\ y.hid = x.hid /\ y.who = u /\ y.pc = "viewRev"
      BY <2>2 DEF Worker
    <2>4. \A q : Owes(w, q) => q \in x.todo \cup x.out \cup x.hid \cup {x.who}
      BY <2>1, <2>2 DEF Owes, Asking
    <2>5. \/ u = o /\ Set(P, Decide(P, x, TRUE))
          \/ u # o /\ IsBanned(bans, u, o) /\ Set(P, Decide(P, x, FALSE))
          \/ u # o /\ Set(P, y)
      BY <1>5 DEF StartView
    <2> HIDE DEF x, y
    <2>6. CASE u = o /\ Set(P, Decide(P, x, TRUE))
      <3>1. Views(x.who, o)
        BY <2>2, <2>6 DEF Views, CanView, Can
      <3> QED BY <1>4, <2>2, <2>4, <2>6, <3>1
    <2>7. CASE IsBanned(bans, u, o) /\ Set(P, Decide(P, x, FALSE))
      <3>1. Turbulent(x.who, o)
        BY <1>2, <2>2, <2>7, NoBanBetween
      <3> QED BY <1>4, <2>2, <2>4, <2>7, <3>1
    <2>8. CASE u # o /\ Set(P, y)
      <3>1. Holds(y, o)
        BY <1>2, <2>2, <2>3, <2>8 DEF Holds
      <3>2. \A q : Owes(w, q) => Owes(y, q)
        BY <2>2, <2>3, <2>4 DEF Owes, Asking
      <3> QED BY <1>3, <2>8, <3>1, <3>2
    <2> QED BY <2>5, <2>6, <2>7, <2>8
  <1>6. ASSUME w.pc \in Asking
        PROVE  \A u : Owes(w, u) => u \in w.todo \cup w.out \cup w.hid \cup {w.who}
    BY <1>6 DEF Owes, Asking
  <1>7. ASSUME w.pc \in Asking, NEW pc \in Asking, Set(P, [w EXCEPT !.pc = pc]),
               pc = "areFriends" => privacy[o]["view"] = "friends"
        PROVE  RowsFollow' /\ VerdictsHold'
    <2> DEFINE y == [w EXCEPT !.pc = pc]
    <2>1. y.todo = w.todo /\ y.out = w.out /\ y.hid = w.hid /\ y.who = w.who /\ y.pc = pc
      BY <1>1 DEF Worker
    <2> HIDE DEF y
    <2>2. Holds(y, o)
      BY <1>2, <1>7, <2>1 DEF Holds
    <2>3. \A u : Owes(w, u) => Owes(y, u)
      BY <1>6, <1>7, <2>1 DEF Owes
    <2>4. Set(P, y)
      BY <1>7 DEF y
    <2> QED BY <1>3, <2>2, <2>3, <2>4
  <1>8. ASSUME w.pc \in Asking, NEW ok \in BOOLEAN, Set(P, Decide(P, w, ok)),
               RefreshComes(o) \/ Turbulent(w.who, o) \/ (ok <=> Views(w.who, o))
        PROVE  RowsFollow' /\ VerdictsHold'
    <2>1. w.out \subseteq w.out /\ w.hid = w.hid
      OBVIOUS
    <2> HIDE DEF w
    <2> QED BY <1>1, <1>4, <1>6, <1>8, <2>1
  <1>9. ASSUME w.pc \in Asking PROVE w.who # o
    BY <1>2, <1>9 DEF Holds
  <1>10. ASSUME ViewReverse(P) PROVE RowsFollow' /\ VerdictsHold'
    <2>1. w.pc \in Asking
      BY <1>10 DEF ViewReverse, At, Asking
    <2>2. \/ IsBanned(bans, o, w.who) /\ Set(P, Decide(P, w, FALSE))
          \/ Set(P, [w EXCEPT !.pc = "scope"])
      BY <1>10 DEF ViewReverse
    <2>3. CASE IsBanned(bans, o, w.who) /\ Set(P, Decide(P, w, FALSE))
      <3>1. Turbulent(w.who, o)
        BY <1>2, <2>3, NoBanBetween
      <3> HIDE DEF w
      <3> QED BY <1>8, <2>1, <2>3, <3>1
    <2> HIDE DEF w
    <2> QED BY <1>7, <2>1, <2>2, <2>3 DEF Asking
  <1>11. ASSUME ReadScope(P) PROVE RowsFollow' /\ VerdictsHold'
    <2>1. w.pc \in Asking
      BY <1>11 DEF ReadScope, At, Asking
    <2> DEFINE scope == privacy[o]["view"]
    <2>2. scope \in Scope
      BY <1>2, PrivacyTopic DEF Privacy, Access
    <2>3. \/ scope = "friends" /\ Set(P, [w EXCEPT !.pc = "areFriends"])
          \/ scope = "public" /\ Set(P, Decide(P, w, TRUE))
          \/ scope = "nobody" /\ Set(P, Decide(P, w, FALSE))
      <3>1. scope = "friends" => Set(P, [w EXCEPT !.pc = "areFriends"])
        BY <1>11 DEF ReadScope
      <3>2. scope # "friends" => Set(P, Decide(P, w, scope = "public"))
        BY <1>11 DEF ReadScope
      <3>3. scope = "public" => (scope = "public") = TRUE
        OBVIOUS
      <3>4. scope = "nobody" => (scope = "public") = FALSE
        OBVIOUS
      <3> QED BY <2>2, <3>1, <3>2, <3>3, <3>4 DEF Scope
    <2>4. Turbulent(w.who, o) \/ scope = "friends" \/ (scope = "public" <=> Views(w.who, o))
      BY <1>2, <1>9, <2>1, ViewsOfSteady
    <2> HIDE DEF w
    <2>5. CASE scope = "friends" /\ Set(P, [w EXCEPT !.pc = "areFriends"])
      BY <1>7, <2>1, <2>5 DEF Asking
    <2>6. CASE scope = "public" /\ Set(P, Decide(P, w, TRUE))
      BY <1>8, <2>1, <2>4, <2>6
    <2>7. CASE scope = "nobody" /\ Set(P, Decide(P, w, FALSE))
      BY <1>8, <2>1, <2>4, <2>7
    <2> QED BY <2>3, <2>5, <2>6, <2>7
  <1>12. ASSUME ReadFriends(P) PROVE RowsFollow' /\ VerdictsHold'
    <2> DEFINE ok == {w.who, o} \in friends
    <2>1. w.pc = "areFriends" /\ w.pc \in Asking
      BY <1>12 DEF ReadFriends, At, Asking
    <2>2. ok \in BOOLEAN
      OBVIOUS
    <2>3. Set(P, Decide(P, w, ok))
      BY <1>12 DEF ReadFriends
    <2>4. RefreshComes(o) \/ privacy[o]["view"] = "friends"
      BY <1>2, <2>1 DEF Holds
    <2>5. RefreshComes(o) \/ Turbulent(w.who, o) \/ (ok <=> Views(w.who, o))
      BY <1>2, <1>9, <2>1, <2>4, ViewsOfSteady
    <2> HIDE DEF w, ok
    <2> QED BY <1>8, <2>1, <2>2, <2>3, <2>5
  <1> QED BY <1>5, <1>10, <1>11, <1>12

\* The two UPDATEs write verdicts that hold, or that will be asked again.
LEMMA WritingStep ==
  ASSUME IInv, CalmInv, SettleInv, SetHidden("privacy") \/ SetVisible("privacy")
  PROVE  RowsFollow' /\ VerdictsHold'
  <1> USE DEF tables, requests
  <1> DEFINE P == "privacy"
             w == work[P]
  <1> PICK o : o = Msg(P).owner
    OBVIOUS
  <1>1. /\ w \in Worker /\ w.pc = "loop" /\ ~At(P, "idle")
        /\ UNCHANGED <<privacy, friends, bans, outbox, queue>>
    BY PrivacyTopic DEF SetHidden, SetVisible, At
  <1>2. Holds(w, o) /\ AtHand(o)
    BY <1>1, PrivacyTopic DEF SettleInv, VerdictsHold, AtHand
  <1>3. Msg(P)' = Msg(P)
    BY <1>1 DEF Msg
  <1>4. \A q : (RefreshComes(q)' <=> RefreshComes(q)) /\ (AtHand(q)' <=> AtHand(q))
               /\ (AtHand(q) => q = o)
    BY <1>1, <1>3 DEF RefreshComes, AtHand
  <1>5. \A u, q : Views(u, q)' <=> Views(u, q)
    BY <1>1 DEF Views
  <1>6. PICK users \in {w.hid, w.out}, hidden \in BOOLEAN, v \in Worker :
          /\ feed' = Refresh(o, users, hidden) /\ work'[P] = v
          /\ v.pc = w.pc /\ v.todo = w.todo /\ v.out \subseteq w.out /\ v.hid \subseteq w.hid
          /\ w.out \cup w.hid \subseteq v.out \cup v.hid \cup users
          /\ hidden => users = w.hid
          /\ ~hidden => users = w.out
    <2>1. CASE SetHidden(P)
      <3> DEFINE v == [w EXCEPT !.hid = {}]
      <3>1. v \in Worker /\ v.pc = w.pc /\ v.todo = w.todo /\ v.out = w.out /\ v.hid = {}
        BY <1>1 DEF Worker
      <3>2. feed' = Refresh(o, w.hid, TRUE) /\ work'[P] = v
        BY <2>1, PrivacyTopic DEF SetHidden, Set
      <3> HIDE DEF w, v
      <3> QED BY <3>1, <3>2
    <2>2. CASE SetVisible(P)
      <3> DEFINE v == [w EXCEPT !.out = {}]
      <3>1. v \in Worker /\ v.pc = w.pc /\ v.todo = w.todo /\ v.out = {} /\ v.hid = w.hid
        BY <1>1 DEF Worker
      <3>2. feed' = Refresh(o, w.out, FALSE) /\ work'[P] = v
        BY <2>2, PrivacyTopic DEF SetVisible, Set
      <3> HIDE DEF w, v
      <3> QED BY <3>1, <3>2
    <2> QED BY <2>1, <2>2
  <1>7. RowsFollow'
    <2> SUFFICES ASSUME NEW r \in feed', ~Turbulent(r.user, r.item.owner), ~RefreshComes(r.item.owner),
                        ~(AtHand(r.item.owner) /\ Owes(v, r.user))
                 PROVE  Follows(r)
      BY <1>4, <1>5, <1>6 DEF RowsFollow, Owes, Follows
    <2>1. PICK s \in feed : /\ s.user = r.user /\ s.item = r.item
                            /\ r.hidden = IF s.item.owner = o /\ s.user \in users THEN hidden ELSE s.hidden
      BY <1>6, RefreshKeeps
    <2>2. CASE s.item.owner = o /\ s.user \in users
      <3>1. hidden <=> ~Views(s.user, o)
        BY <1>2, <1>6, <2>1, <2>2 DEF Holds
      <3> QED BY <2>1, <2>2, <3>1 DEF Follows
    <2>3. CASE ~(s.item.owner = o /\ s.user \in users)
      <3>1. ~(AtHand(s.item.owner) /\ Owes(w, s.user))
        <4> SUFFICES ASSUME AtHand(s.item.owner), Owes(w, s.user) PROVE FALSE
          OBVIOUS
        <4>1. s.user \notin users
          BY <1>4, <2>3
        <4>2. Owes(v, s.user)
          BY <1>1, <1>6, <4>1 DEF Owes, Asking
        <4> QED BY <2>1, <4>2
      <3>2. Follows(s)
        BY <2>1, <3>1 DEF SettleInv, RowsFollow
      <3> QED BY <2>1, <2>3, <3>2 DEF Follows
    <2> QED BY <2>2, <2>3
  <1>8. VerdictsHold'
    <2>1. Holds(v, o)'
      BY <1>1, <1>2, <1>4, <1>5, <1>6 DEF Holds, Asking
    <2> QED BY <1>3, <1>6, <2>1 DEF VerdictsHold, Holds
  <1> QED BY <1>7, <1>8

\* Delivering, listing the wall's readers, and starting over after an outage.
LEMMA ListingStep ==
  ASSUME IInv, CalmInv, SettleInv, Deliver("privacy") \/ List("privacy") \/ Interrupt("privacy")
  PROVE  RowsFollow' /\ VerdictsHold'
  <1> USE DEF Reads
  <1> DEFINE P == "privacy"
             w == work[P]
  <1> PICK o : o = Msg(P).owner
    OBVIOUS
  <1>0. w \in Worker /\ P \notin Kind
    BY PrivacyTopic
  <1>1. CASE Deliver(P)
    <2> DEFINE v == [Idle EXCEPT !.pc = "list"]
    <2>1. Set(P, v) /\ UNCHANGED <<tables, requests, feed, queue>>
      BY <1>0, <1>1 DEF Deliver
    <2>2. v.pc = "list" /\ v.out = {} /\ v.hid = {}
      BY DEF Idle
    <2> HIDE DEF v
    <2>3. Holds(v, o) /\ \A u : Owes(v, u)
      BY <2>2 DEF Holds, Owes, Asking
    <2> QED BY <2>1, <2>3, WithinSettles
  <1>2. CASE Interrupt(P)
    <2>1. Set(P, Idle) /\ UNCHANGED <<tables, requests, feed, queue>>
      BY <1>2 DEF Interrupt, Requeued
    <2>2. Idle.pc = "idle" /\ \A u : Owes(Idle, u)
      BY DEF Idle, Owes
    <2> QED BY <2>1, <2>2, WithinSettles
  <1>3. CASE List(P)
    <2> DEFINE v == [w EXCEPT !.pc = "loop", !.todo = ViewersOf(o)]
    <2>1. Set(P, v) /\ UNCHANGED <<tables, requests, feed, queue>> /\ ~At(P, "idle")
      BY <1>3 DEF List, At
    <2>2. v.pc = "loop" /\ v.todo = ViewersOf(o) /\ v.out = w.out /\ v.hid = w.hid
      BY <1>0 DEF Worker
    <2> HIDE DEF v
    <2>3. Holds(w, o)
      BY <2>1 DEF SettleInv, VerdictsHold
    <2>4. Holds(v, o)
      BY <2>2, <2>3 DEF Holds, Asking
    <2>5. \A r \in feed : AtHand(r.item.owner) => Owes(v, r.user)
      BY <2>2 DEF AtHand, Owes, ViewersOf
    <2> QED BY <2>1, <2>4, <2>5, WithinSettles
  <1> QED BY <1>1, <1>2, <1>3

\* When the message goes, nothing is owed for it; the next one may be of the
\* same wall, and then all is.
LEMMA AckSettles ==
  ASSUME IInv, CalmInv, SettleInv, Ack("privacy")
  PROVE  RowsFollow' /\ VerdictsHold'
  <1> USE DEF tables, requests
  <1> DEFINE P == "privacy"
             w == work[P]
             Q == queue[P]
  <1>1. /\ w.pc = "loop" /\ w.todo = {} /\ w.out = {} /\ w.hid = {}
        /\ UNCHANGED <<privacy, friends, bans, outbox, feed>> /\ Q # << >>
    BY PrivacyTopic DEF Ack, At
  <1>2. queue'[P] = Tail(Q) /\ work'[P] = Idle
    BY PrivacyTopic DEF Ack, Set
  <1>3. Q \in Seq([owner: User])
    BY PrivacyTopic
  <1>4. /\ Len(Q) \in Nat /\ Len(Tail(Q)) = Len(Q) - 1
        /\ \A k \in 1..Len(Tail(Q)) : Tail(Q)[k] = Q[k + 1]
        /\ (Len(Q) > 1 => Tail(Q) # << >> /\ Head(Tail(Q)) = Q[2])
    <2>1. Len(Q) \in Nat /\ Len(Tail(Q)) = Len(Q) - 1 /\ \A k \in 1..Len(Tail(Q)) : Tail(Q)[k] = Q[k + 1]
      BY <1>1, <1>3, HeadTailProperties
    <2>2. Len(Q) > 1 => Tail(Q) # << >> /\ Tail(Q)[1] = Q[2]
      BY <2>1
    <2>3. Tail(Q) \in Seq([owner: User])
      BY <1>1, <1>3, HeadTailProperties
    <2>4. Tail(Q) # << >> => Head(Tail(Q)) = Tail(Q)[1]
      BY <2>3, HeadOf
    <2> QED BY <2>1, <2>2, <2>4
  <1>5. \A u : ~Owes(w, u) /\ Owes(Idle, u)
    BY <1>1 DEF Owes, Asking, Idle
  <1>6. ASSUME NEW o, RefreshComes(o) PROVE RefreshComes(o)' \/ AtHand(o)'
    <2>1. CASE \E m \in outbox : m.topic = P /\ m.event.owner = o
      BY <1>1, <2>1 DEF RefreshComes
    <2>2. ASSUME NEW k \in 2..Len(Q), Q[k].owner = o PROVE RefreshComes(o)' \/ AtHand(o)'
      <3>1. CASE k = 2
        <4>1. Msg(P)' = Q[2] /\ queue'[P] # << >>
          BY <1>2, <1>4, <2>2, <3>1 DEF Msg
        <4> QED BY <2>2, <3>1, <4>1 DEF AtHand
      <3>2. CASE k # 2
        <4>1. k - 1 \in 2..Len(Tail(Q)) /\ Tail(Q)[k - 1] = Q[k]
          BY <1>4, <2>2, <3>2
        <4> QED BY <1>2, <2>2, <4>1 DEF RefreshComes
      <3> QED BY <3>1, <3>2
    <2> QED BY <1>6, <2>1, <2>2 DEF RefreshComes
  <1>7. RowsFollow'
    <2> SUFFICES ASSUME NEW r \in feed, ~Turbulent(r.user, r.item.owner), ~RefreshComes(r.item.owner)',
                        ~AtHand(r.item.owner)'
                 PROVE  Follows(r)
      BY <1>1, <1>2, <1>5 DEF RowsFollow, Follows, Views, Owes
    <2> QED BY <1>5, <1>6 DEF SettleInv, RowsFollow
  <1>8. VerdictsHold'
    BY <1>2 DEF VerdictsHold, At, Idle
  <1> QED BY <1>7, <1>8

LEMMA SettleStep ==
  ASSUME IInv, CalmInv, SettleInv, [HNext]_hvars
  PROVE  SettleInv'
  <1>1. [Next]_vars
    BY DEF HNext, hvars
  <1>2. RowsFollow' /\ VerdictsHold'
    <2>1. CASE UNCHANGED vars \/ Web \/ Handle("ban") \/ Interrupt("ban")
      BY <1>1, <2>1, AsideStep
    <2>2. CASE Handle("privacy") \/ Interrupt("privacy")
      BY <2>2, PrivacyTopic, CalmWorker, ListingStep, AskingStep, WritingStep, AckSettles
    <2> QED BY <1>1, <2>1, <2>2, CalmWorker DEF Next
  <1> QED BY <1>1, <1>2, BansAreInputsStep DEF SettleInv

LEMMA SettleInvariance == HSpec /\ Calm /\ StartsSettled => []SettleInv
  BY InitSettles, SettleStep, Invariance, CalmInvariance, PTL DEF HSpec

\* Once no event is on its way, a row is hidden exactly when its reader may not
\* see the wall, however often walls changed during the handlers' reads and in
\* whatever order failures and redeliveries came, as long as nobody writes
\* meanwhile.  Pairs whose friendship or bans change are excepted, as the
\* property says: no event tells the worker of them.
THEOREM HiddenSettles == HSpec /\ Calm /\ StartsSettled => []HiddenFollowsCanView
  <1>1. SettleInv => HiddenFollowsCanView
    <2> SUFFICES ASSUME SettleInv, \A t \in Topic : Quiet(t),
                        NEW r \in feed, ~Turbulent(r.user, r.item.owner)
                 PROVE  Follows(r)
      BY DEF HiddenFollowsCanView, Follows, Views
    <2>1. queue["privacy"] = << >> /\ \A m \in outbox : m.topic # "privacy"
      BY DEF Quiet, Topic
    <2>2. ~RefreshComes(r.item.owner) /\ ~AtHand(r.item.owner)
      BY <2>1 DEF RefreshComes, AtHand
    <2> QED BY <2>2 DEF SettleInv, RowsFollow
  <1> QED BY <1>1, SettleInvariance, PTL
=============================================================================
