------------------------------- MODULE Pages -------------------------------
(***************************************************************************)
(* The page of a user, GET /id{n}, and the page of a post: LoadWall,       *)
(* LoadPost and profile.Service.Get, statement by statement, for one       *)
(* reader and one owner, while others write.  LoadWall asks first and      *)
(* reads the posts then, LoadPost and Get read first and ask then; both    *)
(* put together what they read at several moments.                         *)
(* The flags of a page (which buttons it offers), avatars and lists of     *)
(* friends are left out, and so are offsets (see NewsPage).                *)
(***************************************************************************)
EXTENDS Access, Naturals

CONSTANTS
    Viewer, Owner,   \* who reads, and whose wall and profile it is
    Author,          \* somebody else, who writes on the wall too
    Post, Comment,   \* ids
    Text,            \* what Owner may say about himself
    NoText,          \* a field that is masked
    MaxWrites        \* bound: statements of others during one request

ASSUME PagesAssumption ==
    /\ Viewer # Owner /\ Viewer # Author /\ Owner # Author
    /\ NoText \notin Text /\ MaxWrites \in Nat

ViewScope == Scope \ {"nobody"}
ProfileScope == {"everyone", "friends", "nobody"}

PostRow == [id: Post, author: {Owner, Author}]
CommentRow == [id: Comment, post: Post, author: {Owner, Author}]

VARIABLES
    bans, friends,
    viewScope,       \* wall_privacy.view_scope of Owner
    bioScope,        \* profile_privacy.bio_scope of Owner
    text,            \* users.bio of Owner
    posts, comments, \* of the wall of Owner
    load,            \* the request of Viewer
    start,           \* auxiliary: what the page would have held when load began
    writes,          \* auxiliary: the statements of others since
    lasting          \* auxiliary: the reasons to refuse that have held ever since

access == <<bans, friends, viewScope, bioScope>>
tables == <<access, text, posts, comments>>
aux == <<start, writes, lasting>>
vars == <<tables, load, aux>>

Empty == [posts |-> {}, comments |-> {}, text |-> NoText]

\* pc names the statement that comes next; row is the post asked for, todo the
\* authors still to ask about, the rest what the page shows so far.
Idle == [page |-> "none", pc |-> "idle", row |-> {}, todo |-> {},
         posts |-> {}, comments |-> {}, text |-> NoText]

Step == {"idle", "banned", "bannedBack", "scope", "areFriends", "author", "list", "comments",
         "filter", "owner", "seeBannedBack", "seeBanned", "seeScope", "seeFriends", "show"}

Load == [page: {"none", "wall", "post"}, pc: Step, row: SUBSET PostRow, todo: SUBSET {Owner, Author},
         posts: SUBSET PostRow, comments: SUBSET CommentRow, text: Text \cup {NoText}]

Init ==
    /\ bans = {} /\ friends = {}
    /\ viewScope = "friends" /\ bioScope = "friends"
    /\ text \in Text /\ posts = {} /\ comments = {}
    /\ load = Idle /\ start = Empty /\ writes = 0 /\ lasting = {}

At(pc) == load.pc = pc
Goto(pc) == load' = [load EXCEPT !.pc = pc]
Ids(rows) == {x.id : x \in rows}

-----------------------------------------------------------------------------
(* What a page holds when everything is read at once *)

WallOpen == CanView(bans, friends, [u \in {Owner} |-> [view |-> viewScope]], Viewer, Owner)

BioOpen ==
    /\ ~MutuallyBanned(bans, Viewer, Owner)
    /\ bioScope = "everyone" \/ (bioScope = "friends" /\ {Viewer, Owner} \in friends)

Muted(u) == IsBanned(bans, Viewer, u)

WallNow ==
    [posts |-> IF WallOpen THEN posts ELSE {}, comments |-> comments,
     text |-> IF BioOpen THEN text ELSE NoText]

PostNow(p) ==
    [posts |-> IF p \in posts /\ WallOpen /\ ~Muted(p.author) THEN {p} ELSE {},
     comments |-> {c \in comments : c.post = p.id /\ ~Muted(c.author)}, text |-> NoText]

PageNow == IF load.page = "wall" THEN WallNow ELSE PostNow(CHOOSE p \in load.row : TRUE)

\* Each of these, as long as it lasts, keeps something from Viewer.
Reason == {"banned", "bannedBack", "muted", "strangerToWall", "strangerToBio", "nobodyToBio"}

Holds(r) ==
    CASE r = "banned" -> <<Viewer, Owner>> \in bans
      [] r = "bannedBack" -> <<Owner, Viewer>> \in bans
      [] r = "muted" -> <<Viewer, Author>> \in bans
      [] r = "strangerToWall" -> {Viewer, Owner} \notin friends /\ viewScope # "public"
      [] r = "strangerToBio" -> {Viewer, Owner} \notin friends /\ bioScope # "everyone"
      [] r = "nobodyToBio" -> bioScope = "nobody"

-----------------------------------------------------------------------------
(* The request *)

Open(page, row, now) ==
    /\ At("idle")
    /\ load' = [Idle EXCEPT !.page = page, !.pc = "banned", !.row = row]
    /\ start' = now /\ writes' = 0 /\ lasting' = {r \in Reason : Holds(r)}
    /\ UNCHANGED tables

OpenWall == Open("wall", {}, WallNow)

\* posts.ByID
OpenPost(p) == p \in posts /\ Open("post", {p}, PostNow(p))

\* ErrForbidden, or the wall without its posts; the profile comes all the same.
Refuse ==
    load' = IF load.page = "post" THEN [load EXCEPT !.pc = "show"]
            ELSE [load EXCEPT !.pc = "owner"]

Grant == Goto(IF load.page = "post" THEN "author" ELSE "list")

ReadBanned ==
    /\ At("banned")
    /\ IF IsBanned(bans, Viewer, Owner) THEN Refuse ELSE Goto("bannedBack")
    /\ UNCHANGED <<tables, aux>>

BannedAgain == IsBanned(bans, Viewer, Owner)         \* a slip, for the mutants
BannedBack == IsBanned(bans, Owner, Viewer)

ReadBannedBack ==
    /\ At("bannedBack")
    /\ IF BannedBack THEN Refuse ELSE Goto("scope")
    /\ UNCHANGED <<tables, aux>>

\* The third scope, nobody, is one the settings form refuses for view.
ReadScope ==
    /\ At("scope")
    /\ \/ viewScope = "public" /\ Grant
       \/ viewScope = "friends" /\ Goto("areFriends")
    /\ UNCHANGED <<tables, aux>>

ReadFriends ==
    /\ At("areFriends")
    /\ IF {Viewer, Owner} \in friends THEN Grant ELSE Refuse
    /\ UNCHANGED <<tables, aux>>

\* LoadPost: has the reader banned the author of the post?
ReadAuthor ==
    /\ At("author")
    /\ IF \E p \in load.row : Muted(p.author) THEN Refuse
       ELSE load' = [load EXCEPT !.pc = "comments", !.posts = load.row]
    /\ UNCHANGED <<tables, aux>>

\* LoadWall
ListByWall ==
    /\ At("list")
    /\ load' = [load EXCEPT !.pc = "comments", !.posts = posts]
    /\ UNCHANGED <<tables, aux>>

Thread == {c \in comments : c.post \in Ids(load.posts)}
CommentsThemselves == Ids(Thread)                    \* a slip, for the mutants
Commenters == {c.author : c \in Thread}

ListByPosts ==
    /\ At("comments")
    /\ load' = [load EXCEPT !.comments = Thread,
                  !.pc = IF load.page = "post" THEN "filter" ELSE "owner",
                  !.todo = IF load.page = "post" THEN Commenters ELSE {}]
    /\ UNCHANGED <<tables, aux>>

\* LoadPost asks once for each author of comments.
CommentsKept(u) == load.comments                     \* a slip, for the mutants
CommentsAfter(u) == IF Muted(u) THEN {c \in load.comments : c.author # u} ELSE load.comments

ReadCommentAuthor(u) ==
    /\ At("filter") /\ u \in load.todo
    /\ load' = [load EXCEPT !.todo = @ \ {u}, !.comments = CommentsAfter(u)]
    /\ UNCHANGED <<tables, aux>>

-----------------------------------------------------------------------------
(* profile.Service.Get, for the page of a user *)

ReadOwner ==
    /\ At("owner")
    /\ load' = [load EXCEPT !.pc = "seeBannedBack", !.text = text]
    /\ UNCHANGED <<tables, aux>>

Mask == load' = [load EXCEPT !.pc = "show", !.text = NoText]

\* Visibility asks about the two bans in the other order.
SeeBannedBack ==
    /\ At("seeBannedBack")
    /\ IF BannedBack THEN Mask ELSE Goto("seeBanned")
    /\ UNCHANGED <<tables, aux>>

SeeBanned ==
    /\ At("seeBanned")
    /\ IF IsBanned(bans, Viewer, Owner) THEN Mask ELSE Goto("seeScope")
    /\ UNCHANGED <<tables, aux>>

SeeScope ==
    /\ At("seeScope")
    /\ \/ bioScope = "everyone" /\ Goto("show")
       \/ bioScope = "friends" /\ Goto("seeFriends")
       \/ bioScope = "nobody" /\ Mask
    /\ UNCHANGED <<tables, aux>>

SeeFriends ==
    /\ At("seeFriends")
    /\ IF {Viewer, Owner} \in friends THEN Goto("show") ELSE Mask
    /\ UNCHANGED <<tables, aux>>

Return == load' = Idle /\ start' = Empty /\ writes' = 0 /\ lasting' = {} /\ UNCHANGED tables

Made == At("show") \/ (At("filter") /\ load.todo = {})
Show == Made /\ Return

\* A statement fails: an error page.
Fail == ~At("idle") /\ Return

-----------------------------------------------------------------------------
(* What others write meanwhile, a statement each *)

Noted ==
    /\ At("idle") \/ writes < MaxWrites
    /\ writes' = IF At("idle") THEN 0 ELSE writes + 1
    /\ lasting' = {r \in lasting : Holds(r)'}
    /\ UNCHANGED <<load, start>>

SetAccess ==
    \/ /\ \E b \in {<<Viewer, Owner>>, <<Owner, Viewer>>, <<Viewer, Author>>} :
            bans' \in {bans \cup {b}, bans \ {b}} \ {bans}
       /\ UNCHANGED <<friends, viewScope, bioScope>>
    \/ /\ friends' = {{Viewer, Owner}} \ friends
       /\ UNCHANGED <<bans, viewScope, bioScope>>
    \/ /\ viewScope' \in ViewScope \ {viewScope}
       /\ UNCHANGED <<bans, friends, bioScope>>
    \/ /\ bioScope' \in ProfileScope \ {bioScope}
       /\ UNCHANGED <<bans, friends, viewScope>>

\* Ids are never used again; for the request an id is new if it does not know it.
InsertPost(u) ==
    /\ \E i \in Post \ (Ids(posts) \cup Ids(load.row \cup load.posts)) : posts' = posts \cup {[id |-> i, author |-> u]}
    /\ UNCHANGED <<text, comments>>

InsertComment(u) ==
    /\ \E i \in Comment \ (Ids(comments) \cup Ids(load.comments)), p \in posts :
         comments' = comments \cup {[id |-> i, post |-> p.id, author |-> u]}
    /\ UNCHANGED <<text, posts>>

DeletePost(p) ==
    /\ posts' = posts \ {p}
    /\ comments' = {c \in comments : c.post # p.id}
    /\ text' = text

DeleteComment(c) == comments' = comments \ {c} /\ UNCHANGED <<text, posts>>

UpdateProfile == text' \in Text \ {text} /\ UNCHANGED <<posts, comments>>

Write ==
    \/ SetAccess /\ UNCHANGED <<text, posts, comments>> /\ Noted
    \/ /\ \/ \E u \in {Owner, Author} : InsertPost(u) \/ InsertComment(u)
          \/ \E p \in posts : DeletePost(p)
          \/ \E c \in comments : DeleteComment(c)
          \/ UpdateProfile
       /\ UNCHANGED access /\ Noted

-----------------------------------------------------------------------------

Next ==
    \/ OpenWall \/ \E p \in posts : OpenPost(p)
    \/ ReadBanned \/ ReadBannedBack \/ ReadScope \/ ReadFriends
    \/ ReadAuthor \/ ListByWall \/ ListByPosts
    \/ \E u \in {Owner, Author} : ReadCommentAuthor(u)
    \/ ReadOwner \/ SeeBannedBack \/ SeeBanned \/ SeeScope \/ SeeFriends
    \/ Show \/ Fail
    \/ Write

Spec == Init /\ [][Next]_vars

-----------------------------------------------------------------------------
(* Properties *)

TypeOK ==
    /\ bans \subseteq {Viewer, Owner} \X {Viewer, Owner, Author} /\ friends \subseteq {{Viewer, Owner}}
    /\ viewScope \in ViewScope /\ bioScope \in ProfileScope /\ text \in Text
    /\ posts \subseteq PostRow /\ comments \subseteq CommentRow
    /\ load \in Load /\ lasting \subseteq Reason /\ writes \in 0..MaxWrites

\* Every part of a page that one statement of somebody else overlaps, at most,
\* is what that part was before it or after it, as if the reads and the checks
\* had been one step (LoadWall, LoadPost, profile.Service.Get).
PartsOfOneMoment ==
    Made /\ writes <= 1 =>
        /\ load.posts \in {start.posts, PageNow.posts}
        /\ load.posts # {} => load.comments \in {start.comments, PageNow.comments}
        /\ load.text \in {start.text, PageNow.text}

\* However many statements overlap the page: what was refused for one and the
\* same reason all the time is not on it.  A ban in either direction keeps wall
\* and profile from the reader, and his ban of an author that author's posts and
\* comments on the page of a post (Authorizer.CanView, Visibility, LoadPost).
LastingRefusal ==
    Made =>
        /\ lasting \cap {"banned", "bannedBack", "strangerToWall"} # {} => load.posts = {}
        /\ lasting \cap {"banned", "bannedBack", "strangerToBio", "nobodyToBio"} # {} => load.text = NoText
        /\ load.page = "post" /\ "muted" \in lasting
             => \A x \in load.posts \cup load.comments : x.author # Author
=============================================================================
