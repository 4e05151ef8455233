------------------------------ MODULE Posting ------------------------------
(***************************************************************************)
(* The web server's requests that write content, from the count of the     *)
(* hourly limit to the event: text posts, graffiti, comments and avatars,  *)
(* over two tables, users.avatar_path and the object store; and the life   *)
(* of the process that serves them: SIGTERM, the ten seconds of Shutdown,  *)
(* the deferred closing of publisher and pool, crash and restart.          *)
(*                                                                         *)
(* A request starts here once the authorizer has let it through (Access,   *)
(* Newsfeed); a step is one SQL statement, one PutObject or one Publish.   *)
(***************************************************************************)
EXTENDS Naturals, FiniteSets

CONSTANTS
    User, None,
    Id,          \* rows of wall_posts and comments
    Key,         \* names of objects
    Picture,     \* what they show
    Request,     \* the HTTP requests at work at the same time, for the server or in Postgres
    Cap,         \* RATE_LIMIT_{POSTS,COMMENTS}_PER_HOUR: at most so many; 0 is no limit
    Hour         \* an hour in ticks

Table == {"posts", "comments"}
Op == {"text", "graffiti", "comment", "avatar"}
Drawn == {"graffiti", "avatar"}                      \* requests that bring a picture
TableOf(op) == IF op = "comment" THEN "comments" ELSE "posts"

\* The statement a request executes next; adrift, its handler has returned and
\* Postgres still has its INSERT or UPDATE.
Step == {"idle", "count", "save", "insert", "update", "publish", "adrift"}

\* The process: serving, in Shutdown, after it, with the publisher closed, with
\* the pool closed too, not running.
Phase == {"serving", "draining", "stopped", "mute", "closed", "down"}

\* Ages of an hour and more are all one.
Age == 0 .. Hour

\* A row of either table. Two columns are auxiliary: the picture its request
\* brought, and whether the topic is still owed its event, which is so until it
\* is published or a fault takes it.
Row == [id: Id, table: Table, author: User, key: Key \cup {None}, age: Age,
        picture: Picture \cup {None}, owed: BOOLEAN]

Post == [op: Op \cup {"none"}, me: User \cup {None}, picture: Picture \cup {None},
         key: Key \cup {None}, id: Id \cup {None}, pc: Step]
Idle == [op |-> "none", me |-> None, picture |-> None, key |-> None, id |-> None, pc |-> "idle"]

NoAvatar == [key |-> None, picture |-> None]

ASSUME PostingAssumption ==
    /\ None \notin User \cup Key \cup Picture \cup Id
    /\ Cap \in [Table -> Nat] /\ Hour \in Nat
    /\ IsFiniteSet(Request)

VARIABLES
    rows,        \* wall_posts and comments
    avatar,      \* users.avatar_path, and the picture it was uploaded with
    objects,     \* the bucket: a picture per key
    req,         \* the requests at work
    phase,
    hasty        \* auxiliary: the process stopped without waiting for its requests

vars == <<rows, avatar, objects, req, phase, hasty>>

Init ==
    /\ rows = {}
    /\ avatar = [u \in User |-> NoAvatar]
    /\ objects = [k \in Key |-> None]
    /\ req = [r \in Request |-> Idle]
    /\ phase = "serving" /\ hasty = FALSE

At(r, pc) == req[r].pc = pc
Quiet == \A r \in Request : At(r, "idle") \/ At(r, "adrift")
Goto(r, pc) == req' = [req EXCEPT ![r].pc = pc]
Return(r) == req' = [req EXCEPT ![r] = Idle]

PoolOpen == phase \in {"serving", "draining", "stopped", "mute"}
PublisherOpen == phase \in {"serving", "draining", "stopped"}

-----------------------------------------------------------------------------
(* CreateTextPost, CreateGraffitiPost, CreateComment, UpdateAvatar *)

\* Shutdown closes the listener and the idle connections; one that was just
\* accepted may still bring its request. A Run that returned early closes none.
Begin(r, op, u, p) ==
    /\ phase \in {"serving", "draining"} \/ (hasty /\ phase # "down")
    /\ At(r, "idle")
    /\ (p = None) = (op \notin Drawn)
    /\ req' = [req EXCEPT ![r] = [Idle EXCEPT !.op = op, !.me = u, !.picture = p,
                                              !.pc = IF op = "avatar" THEN "save" ELSE "count"]]
    /\ UNCHANGED <<rows, avatar, objects, phase, hasty>>

\* CountByAuthorSince: what the author wrote within the hour and still exists.
Recent(t, u) == {x \in rows : x.table = t /\ x.author = u /\ x.age < Hour}

OverLimit(t, u) == Cap[t] > 0 /\ Cardinality(Recent(t, u)) > Cap[t]   \* a slip, for the mutants
AtLimit(t, u) == Cap[t] > 0 /\ Cardinality(Recent(t, u)) >= Cap[t]

\* checkPostLimit, checkCommentLimit.
Count(r) ==
    /\ At(r, "count") /\ PoolOpen
    /\ IF AtLimit(TableOf(req[r].op), req[r].me) THEN Return(r)
       ELSE Goto(r, IF req[r].op \in Drawn THEN "save" ELSE "insert")
    /\ UNCHANGED <<rows, avatar, objects, phase, hasty>>

\* randomName, randomSuffix: a name no object has.
AnyKey == Key                                        \* a slip, for the mutants
FreshKey == {k \in Key : objects[k] = None}

Save(r) ==
    /\ At(r, "save")
    /\ \E k \in FreshKey :
         /\ objects' = [objects EXCEPT ![k] = req[r].picture]
         /\ req' = [req EXCEPT ![r].key = k,
                               ![r].pc = IF req[r].op = "avatar" THEN "update" ELSE "insert"]
    /\ UNCHANGED <<rows, avatar, phase, hasty>>

\* The object is stored and the answer lost: nothing will refer to it.
SaveUnanswered(r) ==
    /\ At(r, "save")
    /\ \E k \in FreshKey : objects' = [objects EXCEPT ![k] = req[r].picture]
    /\ Return(r)
    /\ UNCHANGED <<rows, avatar, phase, hasty>>

\* The id of the next row: one no row has and no request is about to publish.
AnyId == Id                                          \* a slip, for the mutants
FreshId == Id \ ({x.id : x \in rows} \cup {req[r].id : r \in Request})

NewRow(r, i, owed) ==
    [id |-> i, table |-> TableOf(req[r].op), author |-> req[r].me, key |-> req[r].key,
     age |-> 0, picture |-> req[r].picture, owed |-> owed]

Insert(r) ==
    /\ At(r, "insert") /\ PoolOpen
    /\ \E i \in FreshId :
         /\ rows' = rows \cup {NewRow(r, i, TRUE)}
         /\ req' = [req EXCEPT ![r].id = i, ![r].pc = "publish"]
    /\ UNCHANGED <<avatar, objects, phase, hasty>>

ShowPicture(r) ==
    avatar' = [avatar EXCEPT ![req[r].me] = [key |-> req[r].key, picture |-> req[r].picture]]

Update(r) ==
    /\ At(r, "update") /\ PoolOpen
    /\ ShowPicture(r)
    /\ Return(r)
    /\ UNCHANGED <<rows, objects, phase, hasty>>

\* The answer is lost with the connection or with the client: the service returns
\* an error and publishes nothing, and Postgres has the statement.
Unanswered(r) ==
    /\ At(r, "insert") \/ At(r, "update")
    /\ PoolOpen
    /\ Goto(r, "adrift")
    /\ UNCHANGED <<rows, avatar, objects, phase, hasty>>

\* The statement commits, now or when the process is long gone, or is cancelled.
Land(r) ==
    /\ At(r, "adrift")
    /\ \/ req[r].op = "avatar" /\ ShowPicture(r) /\ rows' = rows
       \/ /\ req[r].op # "avatar" /\ avatar' = avatar
          /\ \E i \in FreshId : rows' = rows \cup {NewRow(r, i, FALSE)}
    /\ Return(r)
    /\ UNCHANGED <<objects, phase, hasty>>

Founder(r) ==
    /\ At(r, "adrift")
    /\ Return(r)
    /\ UNCHANGED <<rows, avatar, objects, phase, hasty>>

\* The rows once nothing more is owed of row i.
Settled(i) == {IF x.id = i THEN [x EXCEPT !.owed = FALSE] ELSE x : x \in rows}

\* Publish is not bound to the request's context, and its error is only logged.
Publish(r) ==
    /\ At(r, "publish")
    /\ rows' = IF PublisherOpen \/ hasty THEN Settled(req[r].id) ELSE rows
    /\ Return(r)
    /\ UNCHANGED <<avatar, objects, phase, hasty>>

\* The broker cannot be reached.
PublishFails(r) ==
    /\ At(r, "publish")
    /\ rows' = Settled(req[r].id)
    /\ Return(r)
    /\ UNCHANGED <<avatar, objects, phase, hasty>>

\* A statement or PutObject fails, or the client goes away.
Fail(r) ==
    /\ req[r].pc \in {"count", "save", "insert", "update"}
    /\ Return(r)
    /\ UNCHANGED <<rows, avatar, objects, phase, hasty>>

\* DeletePost and DeleteComment, one by one or with the post a comment hangs on.
\* The object stays.
Delete(i) ==
    /\ PoolOpen
    /\ \E x \in rows : x.id = i /\ rows' = rows \ {x}
    /\ UNCHANGED <<avatar, objects, req, phase, hasty>>

Tick ==
    /\ rows' = {[x EXCEPT !.age = IF x.age = Hour THEN x.age ELSE x.age + 1] : x \in rows}
    /\ UNCHANGED <<avatar, objects, req, phase, hasty>>

-----------------------------------------------------------------------------
(* The process *)

Pass(from, to) == phase = from /\ phase' = to /\ UNCHANGED <<rows, avatar, objects, req>>

Terminate == Pass("serving", "draining") /\ hasty' = hasty

\* Shutdown returns: every handler has, or the ten seconds are over.
AtOnce == Pass("draining", "stopped") /\ hasty' = hasty   \* a slip, for the mutants
Drained == Quiet /\ Pass("draining", "stopped") /\ hasty' = hasty
TimedOut == ~Quiet /\ Pass("draining", "stopped") /\ hasty' = TRUE

\* ListenAndServe failed: Run returns without Shutdown.
ListenFails == Pass("serving", "stopped") /\ hasty' = TRUE

\* The defers of run, last first.
ClosePublisher == Pass("stopped", "mute") /\ hasty' = hasty
ClosePool == Pass("mute", "closed") /\ hasty' = hasty

\* The requests die with the process, and what they had still to publish; what
\* Postgres has of them it keeps.
Die(excused) ==
    /\ phase' = "down"
    /\ req' = [r \in Request |-> IF At(r, "adrift") THEN req[r] ELSE Idle]
    /\ rows' = {[x EXCEPT !.owed = @ /\ ~excused] : x \in rows}
    /\ UNCHANGED <<avatar, objects, hasty>>

Exit == phase = "closed" /\ Die(hasty)
Crash == phase # "down" /\ Die(TRUE)

Start == Pass("down", "serving") /\ hasty' = FALSE

-----------------------------------------------------------------------------

Advance(r) ==
    \/ Count(r) \/ Save(r) \/ SaveUnanswered(r) \/ Insert(r) \/ Update(r)
    \/ Unanswered(r) \/ Land(r) \/ Founder(r)
    \/ Publish(r) \/ PublishFails(r) \/ Fail(r)

Process ==
    \/ Terminate \/ Drained \/ TimedOut \/ ListenFails \/ ClosePublisher \/ ClosePool
    \/ Exit \/ Crash \/ Start

Next ==
    \/ \E r \in Request :
         \/ Advance(r)
         \/ \E op \in Op, u \in User, p \in Picture \cup {None} : Begin(r, op, u, p)
    \/ \E i \in Id : Delete(i)
    \/ Tick
    \/ Process

Spec == Init /\ [][Next]_vars

-----------------------------------------------------------------------------
(* Properties *)

TypeOK ==
    /\ rows \in SUBSET Row
    /\ \A x, y \in rows : x.id = y.id => x = y
    /\ avatar \in [User -> [key: Key \cup {None}, picture: Picture \cup {None}]]
    /\ objects \in [Key -> Picture \cup {None}]
    /\ req \in [Request -> Post]
    /\ phase \in Phase /\ hasty \in BOOLEAN

\* An author passes the hourly cap by less than the requests at work at once, those
\* included whose handler has returned and whose INSERT Postgres still has, whatever
\* deletions, lost answers, restarts and the passing of time do to the rows that are
\* counted (checkPostLimit and checkCommentLimit count first, the INSERT follows some
\* statements later, wall.go:73).
CapHoldsUpToRaces ==
    \A t \in Table, u \in User :
        Cap[t] > 0 => Cardinality(Recent(t, u)) + 1 <= Cap[t] + Cardinality(Request)

\* Whatever a row or a profile refers to is in the store and is the picture that
\* request brought, however uploads race, break off or are repeated: nobody
\* writes an object twice, and the row comes after its object (graffiti.go:58,
\* service.go:249).
PicturesAreTheirOwn ==
    /\ \A x \in rows : x.key # None => objects[x.key] = x.picture
    /\ \A u \in User : avatar[u].key # None => objects[avatar[u].key] = avatar[u].picture

\* A stop on SIGTERM that ends within its ten seconds costs no event: what was
\* inserted and not published is still owed by a request, or was lost to a fault
\* (Server.Run returns after Shutdown, and only then main closes the publisher).
EventsOnlyLostToFaults ==
    \A x \in rows : x.owed => \E r \in Request : At(r, "publish") /\ req[r].id = x.id
=============================================================================
