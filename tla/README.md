# A TLA+ model of nastene

nastene is a small social network: users own walls, post and comment on them,
befriend and ban each other, and read a news feed. The program is two processes
over one Postgres database and one RabbitMQ broker:

```
 browser --HTTP--> nastene (web server) --SQL--> Postgres <--SQL-- feed-builder
                        |                                              ^
                        +--------publish--> RabbitMQ --4 topics--------+
```

The web server serves every request in a goroutine; no two of its statements
share a transaction unless a comment below says so. The feed-builder runs one
goroutine per topic. So the unit of atomicity of the whole system is **one SQL
statement**, and nearly everything that can go wrong goes wrong between two of
them. The specifications are written on that grain.

## 1. Inventory

| Component | Code | State | Operations | What makes it correct |
|---|---|---|---|---|
| Wall authorizer | `service/wall/authz.go` | none (reads `bans`, `friendships`, `wall_privacy`) | CanView, CanPost, CanComment | a ban in either direction refuses, else the scope decides |
| Feed builder | `cmd/feed-builder`, `service/newsfeed`, `repository/feed_repo.go` | `news_feed` | a handler per topic: post, comment, privacy, ban | one row per reader and item, none for the author, none across a ban; hidden rows follow the privacy; every event handled |
| Event transport | `events`, `pkg/q`, `pkg/rabbit` | the queues, the unacked message | Publish, deliver, Ack, Nack with requeue | in order, at least once, one message per topic at a time |
| Posts and comments | `service/wall/{wall,comments,graffiti}.go`, their repositories | `wall_posts`, `comments` | create, delete | authorised authors only; foreign keys take along what hangs on a deleted post |
| Wall privacy | `service/privacy`, `handler/settings.go` | `wall_privacy` | Update and its event | see the feed |
| Friends | `service/friends`, `repository/friend_repo.go` | `friendships`, `friend_requests` | SendRequest, Accept, CancelRequest, RejectRequest, Remove | friends only by consent of both; nothing under a ban |
| Bans | `service/bans`, `repository/ban_repo.go` | `bans` | Add (with its teardown and event), Remove | a ban ends friendship and requests and purges the feeds |
| Accounts | `service/auth`, `repository/user_repo.go`, `handler/auth.go` | `users`, default privacy | Register, Login | one user per e-mail, invites add up, defaults never undo what a user saved |
| Sessions | `session`, `repository/session_repo.go` | `sessions` | Issue, Revoke, Middleware, RequireAuth | a session acts for the one who opened it, and not after its end |
| Rate limits | `service/wall/wall.go` | none (counts rows) | checkPostLimit, checkCommentLimit | no more than the cap in an hour, but for requests side by side |
| News, wall and post pages | `service/news`, `service/wall/{wall,post}.go` | none | LoadFeed, LoadWall, LoadPost | only what the viewer may see, and no entry skipped |
| Profiles and media | `service/profile`, `storage/objectstore` | profile columns, objects | Get, update, avatar | a scope per field, no row without its object |
| Server, pages, configuration | `server`, `render`, `config`, `cmd/nastene` | the phase of the process | Run, Shutdown, routing, templates | a stop on SIGTERM loses no event of a request it waited for |

How they interact: services call repositories (SQL) and the authorizer; a
request that changed something publishes an event after its statement
committed, best-effort; the feed builder calls the same authorizer as the
pages. No component calls back into another, so all the coupling is through
the tables and the queues.

Behaviours that are hard here (each at its line in `PROJECT.json`, "hazards"):
ban checks made of two reads and a later insert, against a ban written and
purged by another goroutine; events redelivered after failures and restarts; a
post deleted in the middle of its fan-out; an event that can never be handled;
friendships accepted while a ban tears them down; requests that break off
between two statements; registrations that race for an invite or an e-mail;
sessions that end between their lookup and what is done with them; requests that
all count before any of them inserts; a process that stops between an INSERT and
its event; pages that read a table some statements before or after they ask whether the
reader may see it.

## 2. Modules

| Module | Models | Kind |
|---|---|---|
| `Access` | `wall.Authorizer` on one snapshot of the tables | operators |
| `Newsfeed` | web requests, broker and feed builder, statement by statement | specification |
| `FeedHistory` | Newsfeed and the auxiliary variables `shadow` and `circle`; BanSilence, PostsStayAmongFriends | specification |
| `FeedPromises` | Newsfeed and the auxiliary variable `purged`; PurgedStaysDeleted | specification |
| `FeedScenarios` | inputs and starting databases with three users | values |
| `Relations` | friends.Service and bans.Service, statement by statement | specification |
| `RelationsHistory` | Relations and the auxiliary variables `asked`, `under`; Consent, RefusedUnderBan | specification |
| `Relationship` | what those services promise: every call one step | abstract specification |
| `SerialCalls` | RelationsHistory, the auxiliary variable `serial` and the mapping to Relationship; CallsAreAtomic, BrokenOffCleanly | refinement |
| `Accounts` | registration from handler to transaction, privacy defaults, invites | specification |
| `Sessions` | Accounts with the sessions table, the middleware, login, logout, the settings page behind them | specification |
| `Posting` | the requests that write content, from the limit to the event, with the object store and the stop of the server | specification |
| `NewsPage` | news.Service.LoadFeed, page after page | specification |
| `Pages` | LoadWall, LoadPost and profile.Service.Get, statement by statement | specification |
| `NewsfeedProofs`, `FeedRowsProofs`, `RelationsProofs`, `AccountsProofs`, `SessionsProofs`, `PostingProofs`, `PagesProofs`, `NewsPageProofs` | theorems | proofs |
| `MC*` | the instances TLC checks | model checking |

A definition commented *a slip, for the mutants* is a plausible bug of the
definition below it. No specification uses it; it serves to show that a
property fails when the code has that bug.

### Newsfeed

`items`, `friends`, `bans`, `privacy` and `feed` are the tables. An item is a
post or a comment, with the columns its joins give: the post it belongs to and
that post's author and wall. `drafts`, `teardowns` and `outbox` are the web
requests in flight, by what they still have to do: insert the item they were
authorised for, insert the ban whose teardown they did, publish the event of
what they wrote. `queue[t]` is topic t's queue; the message being handled stays
at its head until it is acked, which is how the broker sees it with a prefetch
of one (`rabbit.go:53`). `work[t]` holds the local variables of the
handler of topic t, with `pc` naming the statement it executes next.

The actions are the statements in the order of the code:

| Actions | Code |
|---|---|
| StartPost, StartComment, InsertItem, InsertRefused, Publish | CreateTextPost, CreateGraffitiPost, CreateComment |
| DeleteItem | DeletePost, DeleteComment with the cascades of the schema |
| StartBan, InsertBan, Unban | bans.Add, bans.Remove |
| UpdatePrivacy | Settings.PostPrivacy, privacy.Update |
| AbandonRequest | a request that dies, or a Publish that fails and is logged |
| Deliver, Ack, Interrupt | q.Subscribe: delivery, Ack, Nack or a restart |
| Load, LoadPost, List | ByID, then ListFriendIDs, DistinctAuthorsByPost or DistinctViewersForOwner |
| CheckBan, CheckBanReverse | mutuallyBanned, one read per direction |
| StartView, ViewReverse, ReadScope, ReadFriends | CanView, read by read |
| InsertRow | feed.Insert with ON CONFLICT DO NOTHING and the foreign keys |
| SetHidden, SetVisible, PurgeBan | the statements of the privacy and ban handlers |

Abstractions, and why they lose nothing the properties speak of:

- The authorizer's verdict on a **post or comment being written** is one step.
  What a race there can do (an item by somebody banned meanwhile) is still in
  the model, for the draft waits between the verdict and the INSERT.
- Two requests in flight with the same content are one element of a set. They
  only differ in how many times the same thing happens, and a user may start
  the same request again.
- Friendships are made and broken at any time, by `AddFriendship` and
  `RemoveFriendship`; when the code does it is the subject of Relations, which
  shows that races let it happen under a ban too.
- Messages carry ids in the code and the record they stand for here; the row is
  read back by `Load`, which fails when it is gone.
- There is one feed-builder process. Rows carry no time, body or page position.

### Relations

`call[r]` is the service call HTTP request r is in: the operation, the two
users and the statement that comes next. `SendRequest` and `Accept` share the
statements they share in the code. With `Faults` a call may end between any two
statements, as a lost connection makes it. `CancelRequest`, `RejectRequest`,
`Remove` and `Unban` are one statement each and one step. Users of different
pairs never touch the same rows, so two users show every race of a pair.

`Relationship` is the abstract specification. `SerialCalls` maps the detailed
tables to it: a ban counts from its first DELETE, an acceptance from its
INSERT, the rest of the call only catches up. A call that breaks off takes back
what the mapping had credited it with and had not been written; every other
step has to be a step of Relationship. That is so for calls one after the
other, and only for them (two that cross are in the notes below): `serial` is
true as long as no two calls have been at work at once, and CallsAreAtomic and
BrokenOffCleanly speak of steps and states in which it is.

### Accounts

`users`, `requests` and `saved` are committed rows; `left` holds the counters of
invites with the writes of open transactions in it, because nobody reads a
counter except the UPDATE that first waits for the row. `reg[r]` is the
registration HTTP request r is in: `Begin*`, then `Create` (open registration,
one statement) or `Consume`, `InsertUser`, `Commit` (the transaction of
CreateWithInvite) and `SendRequest`; last come `EnsureDefaults` for the two
privacy tables and `Issue`, each a statement of its own. `Fail` ends a
registration anywhere and rolls an open transaction back.

What the model takes from Postgres: an UPDATE waits for the transaction that
holds its row and then evaluates its WHERE afresh; an INSERT of a unique value
waits for the transaction that inserted the same one and fails if that commits.
E-mails are compared as they are stored. `SaveSettings` is here because a user
can log in elsewhere as soon as the row is committed, before his registration
has written the defaults.

Left out: the form's checks (no state). Accounts knows nothing of sessions;
there Issue only ends the registration.

### Sessions

Sessions EXTENDS Accounts: its steps are those of Accounts, with a row of
`sessions` written by the last statement of a registration (`IssueNew`), and
those of the other requests, `visit[v]`, which leave the tables of Accounts
alone except for `Save`, the settings page behind RequireAuth. `Middleware` is
the lookup by token and then by id, one step because users are never deleted; a
request whose lookup fails goes on without a user, as in the code. `Revoke`
deletes by the cookie, whoever the middleware found. `Login` and `Refuse` are
the two ends of PostLogin: ByEmail takes the first row whose LOWER(email)
matches, so with two of them either.

A token that has expired has no row here: ByToken is the only reader of
`expires_at`, and DeleteExpired has no caller. Two auxiliary facts make the
properties sayable: `opened[t]`, who registered or gave his password for token t,
and `late`, that the session was over when the request was sent. Browsers are
not modelled; a request may carry any token that was ever given out, which is
more than browsers do. Passwords are told apart by their owners. TouchLastSeen,
CSRF tokens and the wording of errors are left out.

### Posting

`rows` holds wall_posts and comments in one set, with the author, the age in
ticks up to the hour, and the key of a picture; `avatar` is users.avatar_path,
`objects` the bucket. `req[r]` is the request a goroutine of the server is in,
once the authorizer has let it through: `Count` (the limit), `Save` (PutObject),
`Insert` or `Update`, `Publish`, each of which may fail (`Fail`,
`PublishFails`) or lose its answer. An object may be stored and its request not
know (`SaveUnanswered`). A statement whose answer is lost, with its connection or
because the client went away, leaves the request `adrift` (`Unanswered`): its
handler has returned an error, and Postgres commits the statement later (`Land`) or
never (`Founder`), whether or not the process still runs. So `Request` counts what
is at work, for the server or in Postgres. `Delete` frees quota and leaves the object, as DeletePost and
DeleteComment do. The count and the rows' created_at are of one clock. A random
name (6 or 12 random bytes) is one no object has yet.

`phase` is the process: serving; in Shutdown after SIGTERM (`draining`), which
ends when all requests have (`Drained`) or after ten seconds (`TimedOut`); then
the defers of `run` close the publisher (`mute`) and the pool (`closed`), and the
process ends, as it may at any time by a crash; `Start` begins anew with the
database and the bucket as they are. `hasty` is auxiliary: Run returned without
waiting. Also auxiliary are a row's `picture`, which its request brought, and
`owed`, that its event has still to be published; a fault (broker away, answer
lost, crash, hasty stop) clears `owed`, so what is left of it must be in the
hands of a request.

Publishing at most once and in which order is Newsfeed's subject (outbox); here
an event is only owed or not.

### NewsPage

`feed` is the reader's rows, newest first, and `sees` the owners whose walls
CanView grants him at the moment. A load reads `Limit + 1` rows at an offset,
asks CanView once for each owner on the page and shows the rows of those
granted. Rows come, seen or hidden as the fan-out's CanView had it, go, and are
hidden and shown again in between, and so do
permissions, which is how a friendship that ends without an event looks from
here. Two auxiliary variables: `could`, the owners granted at some moment of the
load, and `walk`, a walk from the first page along the next links, with the rows
it owes and whether a row went away in front of it.

### Pages

One reader, one owner, and an author who writes on the owner's wall. `load`
holds the local variables of Wall.Get (LoadWall, then profile.Service.Get) or
Wall.GetPost (LoadPost), and `pc` the statement that comes next. LoadWall
asks for permission and then reads; LoadPost and Get read and then ask. `Write`
is any statement of others that these reads may meet: bans, friendships, both
kinds of privacy, posts, comments, the profile text. `start`, `writes` and
`lasting` are auxiliary: what the page would have held when it was asked for,
how many statements overlapped it, and which reasons to refuse the reader have
held all along. `WallNow` and `PostNow` define a page read in one step.

A guest is a reader with no ban and no friend. The scopes of a profile are one
scope here, since each guards its own fields in the same way. The flags that
tell which buttons a page offers are left out, as every button's handler asks
again; so are avatars and the list of friends, which the same Visibility masks.

## 3. Runs

Passing:

| Run | Instance | Shows |
|---|---|---|
| `feed_safety` | 3 users, all walls public; a and b start as friends, c is a stranger; a posts on a's wall, b on a's wall, c comments; a bans and unbans b and they make and break friendship; deletions, lost requests, 1 interruption; 1 item per kind, 1 request in flight, queues of 1 | TypeOK, RowsBelongToLiveItems, OneRowPerItem, NobodyReadsThemselves, PostsStayAmongFriends, BanSilence in every interleaving |
| `feed_settles` | an old post with rows of two readers; a changes the privacy both ways and bans b, the post may be deleted; 2 requests, queues of 2, 1 interruption | BanPurgesFeeds and HiddenFollowsCanView once the events are handled, provided nobody posts meanwhile |
| `feed_liveness` | a posts, b comments, a has two friends; lost requests; 3 interruptions anywhere | FriendsGetPosts, EventsAreHandled under the fairness below |
| `relations_consent` | 2 users, 2 requests at once, faults | TypeOK, NobodyAlone, Consent, RefusedUnderBan; and while calls come one after the other, CallsAreAtomic: every step that is not a call breaking off is a step of Relationship, and BrokenOffCleanly: whatever statement calls break off at, no ban stands beside a friendship or a request, and requests do not cross |
| `accounts` | a founder, 2 ids for new users, 2 spellings of one e-mail (one is the founder's), 1 invite each, 2 requests at a time, both may register, with and without invite, one may log in, out or save; 2 sessions | TypeOK, InvitesAddUp, OneAccountPerEmail, LoginEntersOwn, SettingsStand, OnlyOwnersAct, and RegistrationsEnd under the fairness below |
| `posting` | a user, 3 ids, 2 keys, 2 pictures, 2 requests at a time, caps of 1, an hour of one tick; ids, keys, pictures and requests symmetric | TypeOK, CapHoldsUpToRaces, PicturesAreTheirOwn, EventsOnlyLostToFaults |
| `news_page` | 2 owners, pages of 2, 3 rows ever inserted | TypeOK, ShowsOnlyViewable, NothingSkipped |
| `pages` | 1 post and 2 comments at a time, 2 texts, 2 statements of others during a load; comments and texts symmetric | TypeOK, PartsOfOneMoment, LastingRefusal |

Violated, each a disagreement of the code with what the repository says of it:

| Run | Property | What happens |
|---|---|---|
| `feed_ban_race` | BanPurgesFeeds | the post handler reads "no ban", the ban is written and its purge runs in the other goroutine, then the row is inserted: it stays, although `MANUAL_TEST_NEWS.md:52` expects it gone |
| `feed_redelivery` | PurgedStaysDeleted | a post's handler inserts, is interrupted before the Ack; ban, purge, unban; the redelivered event inserts the row again. `listeners.go:16` calls redelivery safe, `bans/service.go:7` says "feed entries stay deleted" |
| `feed_poison` | FriendsGetPosts | a post is deleted before its event is handled; `posts.ByID` fails, the Nack requeues at the head, the prefetch is one: no later post reaches anybody |
| `relations_ban_race` | BannedAreNotFriends | Accept has found its request; a ban tears everything down and is written; Accept inserts the friendship. `bans/service.go:3` promises otherwise |

Feed runs say `CHECK_DEADLOCK FALSE`: the inputs are finite, and users who have
posted all the model allows may simply stop. The relations runs keep the check:
Relations has no state in which nobody can do anything.

### Bounds

- `MaxItems` bounds the ids per kind. One post and one comment on it meet in
  every way two items can, for rows of different items never touch the same
  statement except in PurgeBan and Refresh, which `feed_settles` and
  `feed_ban_race` exercise; `feed_poison` needs two.
- `MaxRequests` bounds the web requests in flight. The worker's four goroutines
  interleave freely with it. Two at a time in `feed_settles` give privacy and
  ban events in any order.
- `MaxQueue` bounds the messages waiting in a topic. A full queue only holds a
  request back at Publish.
- `MaxOutages` bounds interruptions of a handler. One suffices for a redelivery
  after any prefix of the handler; `feed_liveness` takes three.
- Three users are the least with a stranger or a second recipient next to the
  pair under a ban. In `feed_safety` the stranger sees the wall, for all are
  public, and must not get the post on it; b may part with a before, during and
  after the fan-out and become a friend again.
- Two registrations at a time meet in every way two transactions can hold rows
  one wants of the other: the inviter's row and the index entry of the e-mail.
  `Room` starts a registration only while an id is left for it. One user saves
  settings: users do not share rows of these tables. Two spellings of one e-mail
  are the least with a login under the other spelling and with twins, and only
  one registration can succeed with them; chains of invites are covered by the
  theorems, which know no bound. `MaxAtWork` bounds the requests at the server at
  once, `TokenLeft` starts a request only while a session is left for it, so that
  no registration is stuck for want of a token; the end of a session by the clock
  meets a request in every way a second visitor's logout would.
- In `posting` two requests and caps of one pass the cap by one, as far as two
  can, be they served or adrift; a third id leaves room for a row after both. Two keys let two uploads of
  one avatar race; `Hour = 1` has rows that count and rows that do not.
- `MaxRows = 3` with pages of two is the least feed with a second page, with
  and without the row that only tells that there is one.
- `MaxWrites = 2` statements during a load, between any two of its reads. What
  came earlier is in the state the load starts from, and writes between two
  loads are not bounded.
- `InitItems`, `InitFeed`, `InitFriends` and `InitPrivacy` start a run from a
  database earlier requests left, so that a run about settings need not build
  it. StartAssumption says what such a database looks like.

### Fairness

`FairSpec` assumes weak fairness of each topic's handler (its goroutine is
scheduled, the broker delivers, Postgres answers) and of Publish (a request
that committed goes on, unless it is lost). Interruptions are bounded,
that is, the worker is not restarted for ever. Users promise nothing: no
request has to be started or continued. So the liveness properties speak of
events that are in a queue.

Accounts assumes weak fairness of each registration once begun (the handler
runs on) and strong fairness of the statements that wait for a lock: Postgres
queues those who wait for a row, so nobody is passed over for ever. Nothing says
that a transaction commits; it may fail instead.

### Seen and kept as notes only

- The privacy handler may refresh `hidden_at` between another handler's CanView
  and its insert; the row keeps the old verdict until the next change of
  privacy. LoadFeed asks CanView again, which stops a row wrongly shown. It does
  not bring back a row wrongly hidden: that one stays invisible.
- `MANUAL_TEST_NEWS.md:37` sets the wall's view to nobody; `settings.go:72` refuses
  that value. The model follows the code: a wall is public or for friends.
- `fanout_comment.go:12` speaks of *earlier* commenters; DistinctAuthorsByPost
  takes all at the moment the event is handled, later ones included.
- `MANUAL_TEST_NEWS.md:43` calls it an important invariant that the feed is put
  together by the friendships of the moment a post is created. The code does not
  keep it: ListFriendIDs (`fanout_post.go:53`) reads the friendships when the event
  is handled. Somebody befriended between the INSERT and that moment gets the post,
  somebody parted with in between does not, and with a queue that stands still,
  as in `feed_poison`, the two moments may be far apart. What the code does keep is
  PostsStayAmongFriends: a post of the author's own wall reaches only people who
  were his friends at some moment while it was under way, hence nobody he had
  parted with before it, no stranger on a public wall, and nobody befriended after
  its fan-out.
- Two friend requests that cross are both inserted and both wait; the next
  SendRequest or Accept of either user resolves them. `relations_consent`
  shows that calls one after the other never cross.
- LoadWall lists the posts after CanView (and after CanPost and CanComment). An
  owner who closes the wall and then writes shows the post to a reader whose
  page was asked for before. LoadPost, which reads the post first, does not.
- profile.Service.Get reads the row first and asks then. An owner who takes a
  text down and then opens its scope shows the old text to a reader whose page
  was asked for before. PartsOfOneMoment holds because each of these takes two
  statements; it is stated for one, and LastingRefusal for any number.
- The page of a post leaves out comments by people the reader has banned, the
  page of the wall does not.
- Two accounts may have e-mails that differ in case only (users.email is unique
  with case, ByEmail compares without); Login then finds one of them, and the
  other's owner may be refused with the right password. LoginEntersOwn says that
  nobody else is.
- A request sent before its user logged out may act after it, for the middleware
  has found its user already; OnlyOwnersAct asks for a session that stood when the
  request was sent.
- Requests side by side pass the hourly cap, by at most their number less one, where
  a request whose client has gone counts until Postgres has done with its INSERT
  (CapHoldsUpToRaces).
- A stop that takes longer than ten seconds, and a ListenAndServe that fails, close
  the publisher under requests still at work: their rows stand and their events
  are lost. A stop within the ten seconds loses none (EventsOnlyLostToFaults).

## 4. Proofs

Proved by TLAPS for every value of the constants, under the named assumptions
InputsAssumption and StartAssumption (Newsfeed), RelationsAssumption
(Relations), AccountsAssumption (Accounts), SessionsAssumption (Sessions),
PostingAssumption (Posting), NewsPageAssumption (NewsPage) and PagesAssumption
(Pages), which TLC evaluates on every run of these modules.

**NewsfeedProofs** (of `HSpec`, FeedHistory): `TypesHold`, `NoSelfNotification`
(NobodyReadsThemselves) and `BansSilence` (BanSilence). BanSilence is not
inductive: that a row may be inserted depends on what its handler learnt some
statements ago. The inductive invariant `IInv` adds

- `HandlersAreSound`: for every topic, whoever is in the worker's local
  variables is not the author of the message, and for each recipient past the
  first or the second ban read the corresponding direction of the ban did not
  shadow the item. Shadows only vanish (`LearntMonotone`), because an item
  that exists gains no new shadow: so what a handler learnt stays true until
  it uses it, however late that is. This is the argument why two reads that
  are not in one transaction suffice for items written under the ban.
- `ItemsAreKnown`: every item in a table, an event or a queue has an id below
  the sequence, hence a new item is in no row, no queue and no shadow.
- `ShadowOfBans`: a shadow belongs to a ban that stands.

The lemmas go action by action: handlers that only read (`HandlerInv`,
`BanReadInv`, `ViewInv`, `LoadInv`, `ListInv`), handlers that write
(`InsertRowInv`, `UpdateInv`, `AckInv`), web requests (`RequestInv`,
`InsertItemInv`, `DeleteItemInv`, `PublishInv`).

**FeedRowsProofs** (of `HSpec`, on top of NewsfeedProofs): `RowsAreLive`
(RowsBelongToLiveItems), `RowsAreUnique` (OneRowPerItem) and `StrangersAreSpared`
(PostsStayAmongFriends). `RowsInv` adds `PostsAreTheirOwn`, a post's `post` is its
own id: without it a DELETE could take a post and leave a comment on it.
`ReachInv` adds `FriendsAreNoted`, the friends of an author whose post is under way
are in `circle`, and `FanOutIsInvited`: all the fan-out of a post holds in its local
variables, whichever statement it is at, are users it may reach. They were listed as
friends while the event was at the head of its queue, so they were noted
(`ListedAreNoted`), and `circle` only grows (`CircleGrows`): the friendship may break
before the row is inserted, and the row be inserted again on a redelivery.

Two more theorems of that module speak of a feed that comes to rest, and have
hypotheses besides HSpec. `Calm`: nobody writes posts or comments and no request
is lost (PostInputs and CommentInputs are empty, Lossy is FALSE). Without it
BanPurgesFeeds is false, as `feed_ban_race` shows: a fan-out under way has the
last word. `feed_settles` is an instance of it.

- `BansPurgeFeeds` (BanPurgesFeeds). `BansArePurged` says, while the events are
  still on their way, what it is they owe: a row across a standing ban has the
  ban's event in the outbox, in the queue, or at its head with the DELETE not
  yet run. An event that is redelivered after its DELETE owes nothing and does
  no harm.
- `HiddenSettles` (HiddenFollowsCanView), for a database in which `hidden_at` is
  right to begin with (`StartsSettled`). A row may be wrong while an event of its
  wall waits (`RefreshComes`) or while the handler has still to write its verdict
  (`AtHand`, `Owes`); else it `Follows`. The verdicts a handler has collected may
  be out of date only if another event waits behind (`Holds`): UPDATE of the
  wall and its event come in this order, so a handler that read the old scope is
  always followed by another one. A pair outside `Turbulent` has no ban and a
  constant friendship, so its verdict turns on the scope alone (`ViewsOfSteady`),
  and four reads are as good as one.

**RelationsProofs** (of `HSpec`, RelationsHistory): `TypesHold`,
`ConsentHolds` (Consent), `NobodyIsAlone` (NobodyAlone) and `BanRefusesRequests`
(RefusedUnderBan), for any number of users and concurrent requests. `IInv` adds
`StepsOfOps` (a call is at a statement of its operation), `ConsentInCalls` (a
call past its lookup of the request carries the consent of both) and
`HeldUnderBan` (a call begun under a standing ban is before the read that
refuses it).

Then, of `SSpec` (SerialCalls), `BreakingOffIsClean` (BrokenOffCleanly) and the
refinement of Relationship, `SerialCallsAreAtomic` (CallsAreAtomic). `SInv` says
that as long as `serial` is true one call at most is at work (`OneIsBusy`), the
tables hold no contradiction (`Exclusive`), and what the call has read or deleted
so far is still so (`KnowsOfRequest`, `KnowsOfBan`), for nobody else writes. With one
call at work the mapped tables are the tables but for what that call has still to
write (`Mapped`); then each statement of each operation is a stutter or the whole
step of Relationship (`AdvanceIsAtomic`): the first DELETE of a ban, the INSERT of
an acceptance or of a request.

**AccountsProofs** (of `Spec`, Accounts): `TypesHold`, `InvitesAreConserved`
(InvitesAddUp), `EmailsAreUnique` (OneAccountPerEmail) and
`OnlyUsersChangeSettings` (SettingsStand), for any number of users and
registrations in flight; finitely many of both, because InvitesAddUp counts
them. The inductive invariant `IInv` adds `PendingRowsAreNew` (the row an open
transaction has inserted has an e-mail and an id no other row has, committed or
pending, which is what the indexes see to), `WorkIsKnown` (a registration at
work has an e-mail, and past its INSERT an id), `InvitersExist` (whoever invited
somebody has a row), and that users is finite. Without PendingRowsAreNew two
open transactions could commit the same e-mail. InvitesAddUp is a sum over
three sets, so the actions that move an invite (`ConsumeInv`, `RollbackInv`,
`CommitInv`) each count the sets they move it between.

**SessionsProofs** (of `SSpec`, Sessions): `ImplementsAccounts` (SSpec implies
Spec of Accounts, step by step, so all of AccountsProofs holds of Sessions),
`SessionsActForTheirOwners` (OnlyOwnersAct) and `TwinsAloneAreRefused`
(LoginEntersOwn). `SInv` adds to `IInv` of Accounts: `RowsAreTheirs`, a row's user
is the one it was opened for; `VisitsAreTheirs`, the user a request has found
opened its token, and a request that was late has a token without a row, which
stays so because a token once given is never given again, and therefore finds
nobody; `LoginsAreKnown`, a login's sender has an account whose e-mail folds to
the one he typed, which no step takes away. A changed scope means a SaveSettings
(`OnlySavingMatters`, from AccountsProofs), of all steps only Save does one, and
Save acts for the user its request has found.

**PostingProofs** (of `Spec`, Posting): `TypesHold`, `CapHolds`
(CapHoldsUpToRaces), `PicturesStand` (PicturesAreTheirOwn) and `StopsAreGraceful`
(EventsOnlyLostToFaults), for every cap, any number of requests, users and
keys. The cap is not inductive as it stands, for what a request may insert was
decided at its count: `IInv` sets a place aside for each request that was
admitted (`RoomForAll`), the ones adrift included, and says that recent rows and
places together stay within the bound; a request that counts sees less than the cap in rows, and
the other places are at most one for each other request. `Shown` and `Uploads`
tie rows, avatars and requests between Save and their statement to objects
nobody writes again. `WaitedFor`: while the publisher is closed and the stop was
not hasty, no request is at work; that is what Drained waited for.

**PagesProofs** (of `Spec`, Pages): `TypesHold` and `RefusalsLast`
(LastingRefusal), for any number of statements between two reads. LastingRefusal
only speaks of a page that is made; `IInv` says what a request has learnt on the
way there. `LastingHold`: a reason in `lasting` holds now, so a check that
finds it false finds it absent from `lasting`. `WallChecked`, `BioChecked` and
`AuthorChecked`: a request past a check has none of the reasons of that check in
`lasting`. As reasons only leave `lasting`, no statement of others can undo
this (`WriteInv`), and that is why checks spread over several statements suffice
against a reason that lasts.

`PagesOfOneMoment` (PartsOfOneMoment) needs to know what a request has read so far
and when. `Moment`: as long as one statement at most has overlapped the request,
there is a state of the tables a (a `World`) in which it began, a and the tables of
now are `OneApart`, and everything the request has learnt is true of one of the
two (`Seen`): each direction of the ban, the scope and the friendship, each comment
kept or dropped. That verdict by verdict the reads come from one of two states
would not make a page of one moment; that the two are one statement apart does,
since a statement of others changes either one ban, or the friendships, or one
scope, or rows (`OpenAtOnce`, `BioOpenAtOnce`, `WallAtOnce`, `ThreadAtOnce`).

**NewsPageProofs** (of `Spec`, NewsPage): `NewsPageTypes` (TypeOK),
`PagesShowOnlyViewable` (ShowsOnlyViewable) and `WalksSkipNothing` (NothingSkipped),
for any number of owners and rows and any page size. The code counts positions
(LIMIT, OFFSET), the promise is about rows, so `WInv` works on ids: the feed's ids
descend (`NewestFirst`), hence a visible row's position is its `Place`, the number
of visible ids not below its own (`RankIsPlace`). An arrival in front moves
everything back, never forward (`PlaceGrows`), and what goes away or is hidden
behind the offset moves nothing (`PlaceKept`). `OwedIsAhead`: what a walk still owes
is on the page being made or behind the next offset. `OwedIsGranted`: an owed row on
the page being made is of a wall CanView is still asked about or has granted.

Only model-checked: liveness under fairness (FriendsGetPosts, EventsAreHandled,
RegistrationsEnd), which is out of the prover's reach. BansPurgeFeeds and
HiddenSettles prove their properties for constants as in `Calm` only; for others
TLC refutes BanPurgesFeeds.

## 5. What is left

Worth adding next, in this order:

1. The list of friends and the avatars of Pages, each masked by a Visibility of
   its own.
2. An abstract specification of the feed (what each reader may find in it) and
   the refinement by Newsfeed, where the findings allow it.
3. last_seen_at (TouchLastSeen) and what Get shows of it.

Not modelled, and why: templates, routing, configuration and start-up keep no
state; passwords, tokens and cookies are library calls; text lengths and
formats decide whether a request starts and nothing else; a message that does
not unmarshal cannot occur between two programs that share the types.
