------------------------------ MODULE Newsfeed ------------------------------
(***************************************************************************)
(* The news feed: the web server writes posts, comments, bans and privacy  *)
(* to Postgres and publishes one event per change to RabbitMQ; the         *)
(* feed-builder worker consumes four topics, one goroutine each, and keeps *)
(* the table news_feed.  Every SQL statement is a transaction of its own,  *)
(* so a step of this specification is one statement, and the four handlers *)
(* and the web requests interleave between statements.                     *)
(***************************************************************************)
EXTENDS Naturals, Sequences, FiniteSets, Access

CONSTANTS
    User, NoUser,        \* user ids; the zero id of a handler between recipients
    PostInputs,          \* <<author, wall owner>> of the posts users try to write
    CommentInputs,       \* the users who write comments
    BanInputs,           \* <<banner, banned>> of the bans users issue and lift
    FriendInputs,        \* the pairs {a, b} that make and break friendship
    PrivacyInputs,       \* <<owner, privacy>> of the settings users save
    Deletions,           \* do users delete posts and comments?
    Lossy,               \* may a web request die between two of its statements?
    MaxItems,            \* bound: ids given out, per kind of item
    MaxRequests,         \* bound: web requests in flight
    MaxQueue,            \* bound: messages waiting in a queue
    MaxOutages,          \* bound: interruptions of the worker
    InitFriends, InitPrivacy, InitItems, InitFeed   \* what the database holds at the start

Kind == {"post", "comment"}
Topic == Kind \cup {"privacy", "ban"}

\* A post or a comment.  post and poster are the id and the author of the post
\* it belongs to (its own, for a post), owner is whose wall that post is on.
Item == [kind: Kind, id: Nat, post: Nat, poster: User, owner: User, author: User]

\* A web request that has been authorised and has not yet inserted its item.
Draft == [kind: Kind, post: Nat, poster: User, owner: User, author: User]

\* A row of news_feed.  The comment or post id is what UNIQUE ranges over.
Row == [user: User, item: Item, hidden: BOOLEAN]

\* The payload of a message carries an id; the record stands for it.
Event == [t \in Topic |->
            CASE t \in Kind      -> {i \in Item : i.kind = t}
              [] t = "privacy"   -> [owner: User]
              [] t = "ban"       -> [banner: User, banned: User]]

Step == {"idle", "load", "loadPost", "list", "loop", "rev", "view", "viewRev",
         "scope", "areFriends", "insertShown", "insertHidden", "purge"}

\* The local variables of a handler: the users still to look at, those kept
\* (recipients, or viewers to show to), those to hide from, and the current one.
Worker == [pc: Step, todo: SUBSET User, out: SUBSET User, hid: SUBSET User,
           who: User \cup {NoUser}]
Idle == [pc |-> "idle", todo |-> {}, out |-> {}, hid |-> {}, who |-> NoUser]

ASSUME InputsAssumption ==
    /\ NoUser \notin User
    /\ PostInputs \subseteq User \X User
    /\ CommentInputs \subseteq User
    /\ BanInputs \subseteq User \X User
    /\ FriendInputs \subseteq {{a, b} : a, b \in User}
    /\ PrivacyInputs \subseteq User \X Privacy
    /\ Deletions \in BOOLEAN /\ Lossy \in BOOLEAN
    /\ MaxItems \in Nat /\ MaxRequests \in Nat /\ MaxQueue \in Nat /\ MaxOutages \in Nat

\* The database starts as earlier requests left it: at most one older post, and
\* rows about it for users other than its author, one for each.
ASSUME StartAssumption ==
    /\ InitFriends \subseteq {{a, b} : a, b \in User}
    /\ InitPrivacy \in [User -> Privacy]
    /\ InitItems \subseteq Item
    /\ \A i \in InitItems : i.id = 0 /\ i.kind = "post" /\ i.post = 0 /\ i.poster = i.author
    /\ \A i, j \in InitItems : i = j
    /\ InitFeed \subseteq [user: User, item: InitItems, hidden: BOOLEAN]
    /\ \A r \in InitFeed : r.user # r.item.author
    /\ \A r, s \in InitFeed : r.user = s.user /\ r.item = s.item => r = s

VARIABLES
    items,       \* wall_posts and comments
    lastId,      \* the sequences of the two tables
    friends, bans, privacy,
    feed,        \* news_feed
    drafts,      \* posts and comments between the authorizer and the INSERT
    teardowns,   \* bans.Add calls between the teardown and the INSERT
    outbox,      \* events between the INSERT and Publish
    queue,       \* RabbitMQ: the queue of each topic, the unacked message at its head
    work,        \* feed-builder: the handler of each topic
    outages      \* interruptions so far

tables == <<items, lastId, friends, bans, privacy>>
requests == <<drafts, teardowns, outbox>>
vars == <<tables, feed, requests, queue, work, outages>>

Init ==
    /\ items = InitItems
    /\ lastId = [k \in Kind |-> 0]
    /\ friends = InitFriends
    /\ bans = {}
    /\ privacy = InitPrivacy
    /\ feed = InitFeed
    /\ drafts = {} /\ teardowns = {} /\ outbox = {}
    /\ queue = [t \in Topic |-> << >>]
    /\ work = [t \in Topic |-> Idle]
    /\ outages = 0

-----------------------------------------------------------------------------
(* The web server *)

HasRoom == Cardinality(drafts) + Cardinality(teardowns) + Cardinality(outbox) < MaxRequests

\* CreateTextPost and CreateGraffitiPost up to the verdict of the authorizer.
StartPost(a, o) ==
    /\ HasRoom
    /\ CanPost(bans, friends, privacy, a, o)
    /\ drafts' = drafts \cup
         {[kind |-> "post", post |-> 0, poster |-> a, owner |-> o, author |-> a]}
    /\ UNCHANGED <<tables, feed, teardowns, outbox, queue, work, outages>>

\* CreateComment up to the verdict of the authorizer.
StartComment(a, p) ==
    /\ HasRoom
    /\ p.kind = "post"
    /\ CanComment(bans, friends, privacy, a, p.owner)
    /\ drafts' = drafts \cup
         {[kind |-> "comment", post |-> p.id, poster |-> p.author, owner |-> p.owner, author |-> a]}
    /\ UNCHANGED <<tables, feed, teardowns, outbox, queue, work, outages>>

\* The item a draft becomes: the sequence gives its id.
NewItem(d) ==
    LET n == lastId[d.kind] + 1
    IN  [kind |-> d.kind, id |-> n, post |-> IF d.kind = "post" THEN n ELSE d.post,
         poster |-> d.poster, owner |-> d.owner, author |-> d.author]

PostExists(n) == \E p \in items : p.kind = "post" /\ p.id = n

\* posts.Create or comments.Create; the foreign key refuses a comment on a
\* post that is gone.  Publish follows as a step of its own.
InsertItem(d) ==
    /\ lastId[d.kind] < MaxItems
    /\ d.kind = "comment" => PostExists(d.post)
    /\ items' = items \cup {NewItem(d)}
    /\ lastId' = [lastId EXCEPT ![d.kind] = @ + 1]
    /\ drafts' = drafts \ {d}
    /\ outbox' = outbox \cup {[topic |-> d.kind, event |-> NewItem(d)]}
    /\ UNCHANGED <<friends, bans, privacy, feed, teardowns, queue, work, outages>>

\* The INSERT fails on the foreign key and the request ends in an error.
InsertRefused(d) ==
    /\ d.kind = "comment" /\ ~PostExists(d.post)
    /\ drafts' = drafts \ {d}
    /\ UNCHANGED <<tables, feed, teardowns, outbox, queue, work, outages>>

\* bans.Add up to the friendship's removal (requests are in module Relations).
StartBan(a, b) ==
    /\ HasRoom
    /\ a # b
    /\ friends' = friends \ {{a, b}}
    /\ teardowns' = teardowns \cup {<<a, b>>}
    /\ UNCHANGED <<items, lastId, bans, privacy, feed, drafts, outbox, queue, work, outages>>

InsertBan(a, b) ==
    /\ bans' = bans \cup {<<a, b>>}
    /\ teardowns' = teardowns \ {<<a, b>>}
    /\ outbox' = outbox \cup {[topic |-> "ban", event |-> [banner |-> a, banned |-> b]]}
    /\ UNCHANGED <<items, lastId, friends, privacy, feed, drafts, queue, work, outages>>

Unban(a, b) ==
    /\ <<a, b>> \in bans
    /\ bans' = bans \ {<<a, b>>}
    /\ UNCHANGED <<items, lastId, friends, privacy, feed, requests, queue, work, outages>>

\* The statement that makes a friendship.  Module Relations says when it may
\* run; a race with bans.Add lets it run at any moment, under a ban too.
AddFriendship(p) ==
    /\ p \notin friends
    /\ friends' = friends \cup {p}
    /\ UNCHANGED <<items, lastId, bans, privacy, feed, requests, queue, work, outages>>

RemoveFriendship(p) ==
    /\ p \in friends
    /\ friends' = friends \ {p}
    /\ UNCHANGED <<items, lastId, bans, privacy, feed, requests, queue, work, outages>>

\* privacy.Update; the settings form refuses view = nobody.
UpdatePrivacy(u, p) ==
    /\ HasRoom
    /\ p["view"] # "nobody"
    /\ privacy' = [privacy EXCEPT ![u] = p]
    /\ outbox' = outbox \cup {[topic |-> "privacy", event |-> [owner |-> u]]}
    /\ UNCHANGED <<items, lastId, friends, bans, feed, drafts, teardowns, queue, work, outages>>

\* q.Publish: the last statement of a request.
Publish(m) ==
    /\ Len(queue[m.topic]) < MaxQueue
    /\ outbox' = outbox \ {m}
    /\ queue' = [queue EXCEPT ![m.topic] = Append(@, m.event)]
    /\ UNCHANGED <<tables, feed, drafts, teardowns, work, outages>>

\* A request's context ends, the server stops, or Publish fails and is logged.
AbandonRequest ==
    /\ Lossy
    /\ \/ \E d \in drafts : drafts' = drafts \ {d} /\ UNCHANGED <<teardowns, outbox>>
       \/ \E p \in teardowns : teardowns' = teardowns \ {p} /\ UNCHANGED <<drafts, outbox>>
       \/ \E m \in outbox : outbox' = outbox \ {m} /\ UNCHANGED <<drafts, teardowns>>
    /\ UNCHANGED <<tables, feed, queue, work, outages>>

\* What ON DELETE CASCADE takes along.
CascadeToNothing(i) == {i}                           \* a slip, for the mutants
Cascade(i) == IF i.kind = "post" THEN {j \in items : j.post = i.id} ELSE {i}

\* DeletePost and DeleteComment: by the author or the wall's owner, one of whom
\* always exists; the foreign keys take the comments and the feed rows along.
DeleteItem(i) ==
    /\ Deletions
    /\ items' = items \ Cascade(i)
    /\ feed' = {r \in feed : r.item \notin Cascade(i)}
    /\ UNCHANGED <<lastId, friends, bans, privacy, requests, queue, work, outages>>

-----------------------------------------------------------------------------
(* The feed-builder *)

At(t, pc) == work[t].pc = pc
Msg(t) == Head(queue[t])
Set(t, w) == work' = [work EXCEPT ![t] = w]

\* What a handler leaves alone when it only reads.
Reads == UNCHANGED <<tables, feed, requests, queue, outages>>

\* The broker hands over the head of the queue; one message at a time.
ReadyWithoutMessage(t) == At(t, "idle")              \* a slip, for the mutants
Ready(t) == At(t, "idle") /\ queue[t] # << >>

Deliver(t) ==
    /\ Ready(t)
    /\ Set(t, [Idle EXCEPT !.pc = CASE t \in Kind -> "load" [] t = "privacy" -> "list" [] t = "ban" -> "purge"])
    /\ Reads

\* posts.ByID or comments.ByID.  A missing row is an error, the error a Nack,
\* and the broker puts the message back where it was: at the head.
Load(t) ==
    /\ At(t, "load")
    /\ Set(t, IF Msg(t) \notin items THEN Idle
              ELSE [work[t] EXCEPT !.pc = IF t = "post" THEN "list" ELSE "loadPost"])
    /\ Reads

LoadPost(t) ==
    /\ At(t, "loadPost")
    /\ Set(t, IF PostExists(Msg(t).post) THEN [work[t] EXCEPT !.pc = "list"] ELSE Idle)
    /\ Reads

FriendsOf(u) == {v \in User : v # u /\ {u, v} \in friends}

PostAudienceOfViewers(p) ==                          \* a slip, for the mutants
    IF p.author = p.owner
    THEN {u \in User \ {p.author} : CanView(bans, friends, privacy, u, p.owner)} ELSE {p.owner}
PostAudience(p) == IF p.author = p.owner THEN FriendsOf(p.author) ELSE {p.owner}

Commenters(c) == {d.author : d \in {i \in items : i.kind = "comment" /\ i.post = c.post}}

CommentAudienceAndAuthor(c) == {c.poster, c.owner} \cup Commenters(c)   \* a slip, for the mutants
CommentAudience(c) == ({c.poster, c.owner} \cup Commenters(c)) \ {c.author}

ViewersWhoSee(owner) == {r.user : r \in {s \in feed : s.item.owner = owner /\ ~s.hidden}}   \* a slip
ViewersOf(owner) == {r.user : r \in {s \in feed : s.item.owner = owner}}

\* ListFriendIDs, DistinctAuthorsByPost or DistinctViewersForOwner.
List(t) ==
    /\ At(t, "list")
    /\ Set(t, [work[t] EXCEPT !.pc = "loop",
                 !.todo = CASE t = "post"    -> PostAudience(Msg(t))
                            [] t = "comment" -> CommentAudience(Msg(t))
                            [] t = "privacy" -> ViewersOf(Msg(t).owner)])
    /\ Reads

\* mutuallyBanned, first read: has the recipient banned the author?
CheckBan(t, u) ==
    /\ t \in Kind /\ At(t, "loop") /\ u \in work[t].todo
    /\ Set(t, IF IsBanned(bans, u, Msg(t).author)
              THEN [work[t] EXCEPT !.todo = @ \ {u}]
              ELSE [work[t] EXCEPT !.todo = @ \ {u}, !.pc = "rev", !.who = u])
    /\ Reads

HasBannedRepeated(i, u) == IsBanned(bans, u, i.author)   \* a slip, for the mutants
HasBanned(i, u) == IsBanned(bans, i.author, u)

\* mutuallyBanned, second read: has the author banned the recipient?
CheckBanReverse(t) ==
    /\ At(t, "rev")
    /\ LET w == work[t] IN
       Set(t, IF HasBanned(Msg(t), w.who)
              THEN [w EXCEPT !.pc = "loop", !.who = NoUser]
              ELSE IF t = "post"
                   THEN [w EXCEPT !.pc = "loop", !.who = NoUser, !.out = @ \cup {w.who}]
                   ELSE [w EXCEPT !.pc = "view"])
    /\ Reads

\* Whose CanView comes next: posts first collect all recipients, comments go
\* on with the one just checked, privacy takes every viewer.
Viewing(t) ==
    CASE t = "post"    -> IF At(t, "loop") /\ work[t].todo = {} THEN work[t].out ELSE {}
      [] t = "comment" -> IF At(t, "view") THEN {work[t].who} ELSE {}
      [] t = "privacy" -> IF At(t, "loop") THEN work[t].todo ELSE {}
      [] OTHER         -> {}

\* What a handler does with CanView's verdict on w.who.
Decide(t, w, ok) ==
    IF t \in Kind
    THEN [w EXCEPT !.pc = IF ok THEN "insertShown" ELSE "insertHidden"]
    ELSE [w EXCEPT !.pc = "loop", !.who = NoUser,
                   !.out = IF ok THEN @ \cup {w.who} ELSE @,
                   !.hid = IF ok THEN @ ELSE @ \cup {w.who}]

\* CanView: the owner always can; otherwise the first of four reads.
StartView(t, u) ==
    /\ u \in Viewing(t)
    /\ LET w == [work[t] EXCEPT !.todo = @ \ {u}, !.out = @ \ {u}, !.who = u]
           owner == Msg(t).owner
       IN  Set(t, IF u = owner THEN Decide(t, w, TRUE)
                  ELSE IF IsBanned(bans, u, owner) THEN Decide(t, w, FALSE)
                  ELSE [w EXCEPT !.pc = "viewRev"])
    /\ Reads

ViewReverse(t) ==
    /\ At(t, "viewRev")
    /\ Set(t, IF IsBanned(bans, Msg(t).owner, work[t].who)
              THEN Decide(t, work[t], FALSE)
              ELSE [work[t] EXCEPT !.pc = "scope"])
    /\ Reads

ReadScope(t) ==
    /\ At(t, "scope")
    /\ LET scope == privacy[Msg(t).owner]["view"] IN
       Set(t, IF scope = "friends" THEN [work[t] EXCEPT !.pc = "areFriends"]
              ELSE Decide(t, work[t], scope = "public"))
    /\ Reads

ReadFriends(t) ==
    /\ At(t, "areFriends")
    /\ Set(t, Decide(t, work[t], {work[t].who, Msg(t).owner} \in friends))
    /\ Reads

HasIgnored(u, i) == FALSE                            \* a slip, for the mutants
Has(u, i) == \E r \in feed : r.user = u /\ r.item = i

NextUser(t) == [work[t] EXCEPT !.pc = "loop", !.who = NoUser]

\* ON CONFLICT DO NOTHING: the statement succeeds and the handler goes on.
ConflictIsAnError(t) == Idle                         \* a slip, for the mutants
OnConflict(t) == NextUser(t)

\* feed.Insert; the foreign keys refuse a row for an item that is gone, and the
\* handler ends in an error (Nack).
InsertRow(t) ==
    /\ At(t, "insertShown") \/ At(t, "insertHidden")
    /\ LET u == work[t].who
           row == [user |-> u, item |-> Msg(t), hidden |-> At(t, "insertHidden")]
       IN  \/ Msg(t) \in items /\ ~Has(u, Msg(t)) /\ feed' = feed \cup {row} /\ Set(t, NextUser(t))
           \/ Msg(t) \in items /\ Has(u, Msg(t)) /\ feed' = feed /\ Set(t, OnConflict(t))
           \/ Msg(t) \notin items /\ feed' = feed /\ Set(t, Idle)
    /\ UNCHANGED <<tables, requests, queue, outages>>

Refresh(owner, users, hidden) ==
    {IF r.item.owner = owner /\ r.user \in users THEN [r EXCEPT !.hidden = hidden] ELSE r : r \in feed}

\* SetHiddenForOwner, then SetVisibleForOwner, each when it has users.
SetHidden(t) ==
    /\ t = "privacy" /\ At(t, "loop") /\ work[t].todo = {} /\ work[t].hid # {}
    /\ feed' = Refresh(Msg(t).owner, work[t].hid, TRUE)
    /\ Set(t, [work[t] EXCEPT !.hid = {}])
    /\ UNCHANGED <<tables, requests, queue, outages>>

SetVisible(t) ==
    /\ t = "privacy" /\ At(t, "loop") /\ work[t].todo = {} /\ work[t].hid = {} /\ work[t].out # {}
    /\ feed' = Refresh(Msg(t).owner, work[t].out, FALSE)
    /\ Set(t, [work[t] EXCEPT !.out = {}])
    /\ UNCHANGED <<tables, requests, queue, outages>>

\* Does the row show user b to user a, as post author, wall owner or commenter?
Shows(r, a, b) == r.user = a /\ b \in {r.item.poster, r.item.owner, r.item.author}

BetweenOneSided(r, x, y) == Shows(r, x, y)           \* a slip, for the mutants
Between(r, x, y) == Shows(r, x, y) \/ Shows(r, y, x)

\* HandleBanCreated: one DELETE.
PurgeBan(t) ==
    /\ At(t, "purge")
    /\ feed' = {r \in feed : ~Between(r, Msg(t).banner, Msg(t).banned)}
    /\ Set(t, [work[t] EXCEPT !.pc = "loop"])
    /\ UNCHANGED <<tables, requests, queue, outages>>

\* The handler returned nil; the broker forgets the message.
Ack(t) ==
    /\ At(t, "loop") /\ work[t].todo = {} /\ work[t].out = {} /\ work[t].hid = {}
    /\ queue' = [queue EXCEPT ![t] = Tail(@)]
    /\ Set(t, Idle)
    /\ UNCHANGED <<tables, feed, requests, outages>>

\* What the broker does with the message of a handler that did not return nil.
Dropped(t) == [queue EXCEPT ![t] = Tail(@)]          \* a slip, for the mutants
Requeued(t) == queue

\* A statement fails (Nack) or the process stops (unacked): either way the
\* message is delivered again from the start, whatever was inserted stays.
Interrupt(t) ==
    /\ ~At(t, "idle") /\ outages < MaxOutages
    /\ outages' = outages + 1
    /\ queue' = Requeued(t)
    /\ Set(t, Idle)
    /\ UNCHANGED <<tables, feed, requests>>

-----------------------------------------------------------------------------

Handle(t) ==
    \/ Deliver(t) \/ Load(t) \/ LoadPost(t) \/ List(t)
    \/ CheckBanReverse(t) \/ ViewReverse(t) \/ ReadScope(t) \/ ReadFriends(t)
    \/ InsertRow(t) \/ SetHidden(t) \/ SetVisible(t) \/ PurgeBan(t) \/ Ack(t)
    \/ \E u \in User : CheckBan(t, u) \/ StartView(t, u)

Web ==
    \/ \E p \in PostInputs : StartPost(p[1], p[2])
    \/ \E a \in CommentInputs, p \in items : StartComment(a, p)
    \/ \E d \in drafts : InsertItem(d) \/ InsertRefused(d)
    \/ \E p \in BanInputs : StartBan(p[1], p[2]) \/ Unban(p[1], p[2])
    \/ \E p \in teardowns : InsertBan(p[1], p[2])
    \/ \E p \in FriendInputs : AddFriendship(p) \/ RemoveFriendship(p)
    \/ \E p \in PrivacyInputs : UpdatePrivacy(p[1], p[2])
    \/ \E m \in outbox : Publish(m)
    \/ AbandonRequest
    \/ \E i \in items : DeleteItem(i)

Next == Web \/ \E t \in Topic : Handle(t) \/ Interrupt(t)

Spec == Init /\ [][Next]_vars

\* Each goroutine is scheduled and Postgres answers; an event once committed
\* is published when no request is lost.  Users promise nothing.
FairSpec ==
    /\ Spec
    /\ \A t \in Topic : WF_vars(Handle(t))
    /\ WF_vars(\E m \in outbox : Publish(m))

-----------------------------------------------------------------------------
(* Properties *)

\* Every variable has its type; a handler at work has a message at the head of
\* its queue and only takes the steps of its own topic.
TypeOK ==
    /\ items \in SUBSET Item
    /\ lastId \in [Kind -> Nat]
    /\ friends \in SUBSET {{x, y} : x, y \in User}
    /\ bans \in SUBSET (User \X User)
    /\ privacy \in [User -> Privacy]
    /\ feed \in SUBSET Row
    /\ drafts \in SUBSET Draft
    /\ teardowns \in SUBSET (User \X User)
    /\ \A m \in outbox : m.topic \in Topic /\ m.event \in Event[m.topic]
    /\ queue = [t \in Topic |-> queue[t]] /\ \A t \in Topic : queue[t] \in Seq(Event[t])
    /\ work \in [Topic -> Worker]
    /\ \A t \in Topic : ~At(t, "idle") => queue[t] # << >>
    /\ outages \in Nat

\* No row outlives its post or comment, and no comment its post, although a
\* DELETE may run between any two statements of a fan-out (foreign keys of
\* wall_posts, comments and news_feed; MANUAL_TEST_NEWS 6.1 and 6.2).
RowsBelongToLiveItems ==
    /\ \A r \in feed : r.item \in items
    /\ \A i \in items : PostExists(i.post)

\* A user has one row per post and per comment, however often the event is
\* redelivered and whatever CanView said each time (MANUAL_TEST_NEWS 8.2).
OneRowPerItem == \A r, s \in feed : r.user = s.user /\ r.item = s.item => r = s

\* Nobody is told of what they wrote themselves (fanout_post.go:59,
\* fanout_comment.go:27; MANUAL_TEST_NEWS 1.3 and 2.2).
NobodyReadsThemselves == \A r \in feed : r.user # r.item.author

\* Nothing of topic t is on its way or being handled.
Quiet(t) == queue[t] = << >> /\ \A m \in outbox : m.topic # t

\* Once the ban's event is handled, the two see nothing of each other in their
\* feeds as long as the ban stands (HandleBanCreated; MANUAL_TEST_NEWS 4.1, 4.2).
BanPurgesFeeds ==
    Quiet("ban") => \A p \in bans, r \in feed : ~Shows(r, p[1], p[2]) /\ ~Shows(r, p[2], p[1])

\* A pair whose friendship or bans change.  No event tells the worker of a
\* friendship that breaks, so hidden_at says nothing for such a pair.
Turbulent(u, v) == {u, v} \in FriendInputs \/ {<<u, v>>, <<v, u>>} \cap BanInputs # {}

\* Once nothing is on its way, a row is hidden exactly when its reader may not
\* see the wall (HandleWallPrivacyChanged; MANUAL_TEST_NEWS 3.3 and 9.2).
HiddenFollowsCanView ==
    (\A t \in Topic : Quiet(t)) =>
        \A r \in feed : ~Turbulent(r.user, r.item.owner) =>
            (r.hidden <=> ~CanView(bans, friends, privacy, r.user, r.item.owner))

Waiting(t, n) == \E k \in 1..Len(queue[t]) : queue[t][k].id = n

\* Every post or comment event in a queue is handled in the end, in spite of
\* failing statements and restarts of the worker (MANUAL_TEST_NEWS 8.1).
EventsAreHandled == \A t \in Kind, n \in 1..MaxItems : Waiting(t, n) ~> ~Waiting(t, n)

OwnPost(n) == {p \in items : p.kind = "post" /\ p.id = n /\ p.author = p.owner}

\* A post on the author's own wall reaches the feed of every friend, unless it
\* is deleted meanwhile (MANUAL_TEST_NEWS 1.1).
FriendsGetPosts ==
    \A n \in 1..MaxItems :
        (Waiting("post", n) /\ OwnPost(n) # {}) ~>
            \A p \in OwnPost(n) : \A v \in FriendsOf(p.author) : Has(v, p)
=============================================================================
