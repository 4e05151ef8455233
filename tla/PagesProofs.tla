---------------------------- MODULE PagesProofs ----------------------------
(***************************************************************************)
(* Theorems about Pages for any ids, texts and number of statements that   *)
(* overlap a request.                                                      *)
(***************************************************************************)
EXTENDS Pages, TLAPS

WallReason == {"banned", "bannedBack", "strangerToWall"}
BioReason == {"banned", "bannedBack", "strangerToBio", "nobodyToBio"}

\* A reason that has held ever since the request began holds now.
LastingHold == \A r \in lasting : Holds(r)

\* A request that has got past a check of the wall has seen it granted, so what
\* was checked has not been a lasting reason to refuse.
WallChecked ==
    /\ At("bannedBack") => "banned" \notin lasting
    /\ At("scope") \/ At("areFriends") => lasting \cap {"banned", "bannedBack"} = {}
    /\ \/ load.pc \in {"author", "list", "comments", "filter"}
       \/ load.posts # {}
       => lasting \cap WallReason = {}

\* The same for the profile, whose text is read before the checks.
BioChecked ==
    /\ load.text # NoText => load.pc \in {"seeBannedBack", "seeBanned", "seeScope", "seeFriends", "show"}
    /\ At("seeBanned") => "bannedBack" \notin lasting
    /\ At("seeScope") => lasting \cap {"banned", "bannedBack"} = {}
    /\ At("seeFriends") => lasting \cap {"banned", "bannedBack", "nobodyToBio"} = {}
    /\ At("show") /\ load.text # NoText => lasting \cap BioReason = {}

\* The page of a post under a lasting ban of Author: his comments are only still
\* there while he is to be asked about.
AuthorChecked ==
    load.page = "post" /\ "muted" \in lasting =>
        /\ \A p \in load.posts : p.author # Author
        /\ \A c \in load.comments : c.author = Author => At("filter") /\ Author \in load.todo

\* Which page is at which statement.
PageAtStep ==
    /\ At("idle") <=> load.page = "none"
    /\ load.pc \in {"list", "owner"} => load.page = "wall"
    /\ load.pc \in {"author", "filter"} => load.page = "post"

IInv == TypeOK /\ LastingHold /\ WallChecked /\ BioChecked /\ AuthorChecked /\ PageAtStep

Checked == WallChecked /\ BioChecked /\ AuthorChecked /\ PageAtStep

-----------------------------------------------------------------------------

LEMMA InitInv == Init => IInv
  <1> SUFFICES ASSUME Init PROVE IInv
    OBVIOUS
  <1> USE PagesAssumption DEF Init
  <1>1. TypeOK
    BY DEF TypeOK, Idle, Load, Step, ViewScope, Scope, ProfileScope
  <1>2. LastingHold
    BY DEF LastingHold
  <1>3. WallChecked /\ BioChecked /\ AuthorChecked /\ PageAtStep
    BY DEF WallChecked, BioChecked, AuthorChecked, PageAtStep, At, Idle
  <1> QED BY <1>1, <1>2, <1>3 DEF IInv

\* A request begins, or ends.
LEMMA OpenInv ==
  ASSUME IInv, NEW page \in {"wall", "post"}, NEW row \in SUBSET PostRow, NEW now,
         Open(page, row, now)
  PROVE  IInv'
  <1> USE PagesAssumption DEF IInv, Open
  <1>1. load' = [page |-> page, pc |-> "banned", row |-> row, todo |-> {},
                 posts |-> {}, comments |-> {}, text |-> NoText]
    BY DEF Idle
  <1>2. TypeOK'
    BY <1>1 DEF TypeOK, Load, Step, tables, access, Reason
  <1>3. LastingHold'
    BY DEF LastingHold, Holds, tables, access
  <1>4. Checked'
    <2> HIDE DEF IInv, Open
    <2>1. /\ load'.pc = "banned" /\ load'.page = page /\ load'.page # "none"
          /\ load'.posts = {} /\ load'.comments = {} /\ load'.text = NoText
      BY <1>1
    <2>2. WallChecked' /\ BioChecked'
      BY <2>1 DEF WallChecked, BioChecked, At
    <2>3. AuthorChecked' /\ PageAtStep'
      BY <2>1 DEF AuthorChecked, PageAtStep, At
    <2> QED BY <2>2, <2>3 DEF Checked
  <1> QED BY <1>2, <1>3, <1>4 DEF Checked

LEMMA ReturnInv == ASSUME IInv, Return PROVE IInv'
  <1> USE PagesAssumption DEF IInv, Return
  <1>1. load' = Idle /\ lasting' = {} /\ writes' = 0
    OBVIOUS
  <1>2. TypeOK'
    BY <1>1 DEF TypeOK, Load, Step, Idle, tables, access
  <1>3. LastingHold' /\ Checked'
    BY <1>1 DEF LastingHold, Checked, WallChecked, BioChecked, AuthorChecked, PageAtStep, At, Idle
  <1> QED BY <1>2, <1>3 DEF Checked

\* A statement of the request itself only changes load.
LEMMA StepInv ==
  ASSUME IInv, load' \in Load, UNCHANGED <<tables, aux>>, Checked'
  PROVE  IInv'
  <1>1. TypeOK'
    BY DEF IInv, TypeOK, tables, access, aux
  <1>2. LastingHold'
    BY DEF IInv, LastingHold, Holds, tables, access, aux
  <1> QED BY <1>1, <1>2 DEF IInv, Checked

\* A statement that only moves on to the next one.
LEMMA GotoInv ==
  ASSUME IInv, NEW pc \in Step, Goto(pc), UNCHANGED <<tables, aux>>,
         ~At("idle"), pc \notin {"idle", "list", "owner", "author", "filter"},
         ~At("filter"),
         pc = "bannedBack" => "banned" \notin lasting,
         pc \in {"scope", "areFriends"} => lasting \cap {"banned", "bannedBack"} = {},
         pc = "comments" => lasting \cap WallReason = {},
         load.text # NoText =>
            /\ pc \in {"seeBannedBack", "seeBanned", "seeScope", "seeFriends", "show"}
            /\ pc = "show" => lasting \cap BioReason = {},
         pc = "seeBanned" => "bannedBack" \notin lasting,
         pc = "seeScope" => lasting \cap {"banned", "bannedBack"} = {},
         pc = "seeFriends" => lasting \cap {"banned", "bannedBack", "nobodyToBio"} = {}
  PROVE  IInv'
  <1> USE PagesAssumption DEF IInv
  <1>1. load \in Load /\ load' = [load EXCEPT !.pc = pc]
    BY DEF TypeOK, Goto
  <1>2. load' \in Load
    BY <1>1 DEF Load
  <1>3. load'.pc = pc /\ load'.page = load.page /\ load'.posts = load.posts
        /\ load'.comments = load.comments /\ load'.text = load.text /\ load'.todo = load.todo
    BY <1>1 DEF Load
  <1>4. lasting' = lasting
    BY DEF aux
  <1>5. WallChecked'
    BY <1>3, <1>4 DEF WallChecked, At
  <1>6. BioChecked'
    BY <1>3, <1>4 DEF BioChecked, At
  <1>7. AuthorChecked' /\ PageAtStep'
    BY <1>3, <1>4 DEF AuthorChecked, PageAtStep, At
  <1> QED BY <1>2, <1>5, <1>6, <1>7, StepInv DEF Checked

-----------------------------------------------------------------------------
(* The checks of the wall *)

\* The request goes on to the profile, or to the end of the page of a post.
LEMMA RefuseInv ==
  ASSUME IInv, UNCHANGED <<tables, aux>>, Refuse,
         load.pc \in {"banned", "bannedBack", "areFriends", "author"}
  PROVE  IInv'
  <1> USE PagesAssumption DEF IInv
  <1>1. load \in Load /\ load.text = NoText /\ load.page \in {"wall", "post"}
    BY DEF TypeOK, BioChecked, PageAtStep, At, Load
  <1>2. load' \in Load
    BY <1>1 DEF Refuse, Load, Step
  <1>3. /\ load'.page = load.page /\ load'.posts = load.posts /\ load'.text = NoText
        /\ load'.comments = load.comments
        /\ load'.pc = IF load.page = "post" THEN "show" ELSE "owner"
    BY <1>1 DEF Refuse, Load
  <1>4. Checked'
    BY <1>1, <1>3 DEF Checked, WallChecked, BioChecked, AuthorChecked, PageAtStep, At, aux
  <1> QED BY <1>2, <1>4, StepInv

LEMMA GrantInv ==
  ASSUME IInv, UNCHANGED <<tables, aux>>, Grant, load.pc \in {"scope", "areFriends"},
         "strangerToWall" \notin lasting
  PROVE  IInv'
  <1> USE PagesAssumption DEF IInv
  <1>1. load \in Load /\ load.text = NoText /\ load.page \in {"wall", "post"}
    BY DEF TypeOK, BioChecked, PageAtStep, At, Load
  <1>2. load' \in Load
    BY <1>1 DEF Grant, Goto, Load, Step
  <1>3. /\ load'.page = load.page /\ load'.posts = load.posts /\ load'.text = NoText
        /\ load'.comments = load.comments
        /\ load'.pc = IF load.page = "post" THEN "author" ELSE "list"
    BY <1>1 DEF Grant, Goto, Load
  <1>4. lasting \cap WallReason = {} /\ lasting' = lasting
    BY DEF WallChecked, WallReason, At, aux
  <1>5. WallChecked' /\ BioChecked'
    BY <1>1, <1>3, <1>4 DEF WallChecked, BioChecked, At
  <1>6. AuthorChecked' /\ PageAtStep'
    BY <1>1, <1>3, <1>4 DEF AuthorChecked, PageAtStep, At
  <1> QED BY <1>2, <1>5, <1>6, StepInv DEF Checked

LEMMA WallInv == ASSUME IInv, ReadBanned \/ ReadBannedBack \/ ReadScope \/ ReadFriends PROVE IInv'
  <1> USE PagesAssumption
  <1>1. load \in Load /\ LastingHold /\ WallChecked /\ BioChecked
    BY DEF IInv, TypeOK
  <1>2. load.pc \in {"banned", "bannedBack", "scope", "areFriends"} => load.text = NoText
    BY <1>1 DEF BioChecked
  <1>3. CASE ReadBanned
    <2>1. CASE IsBanned(bans, Viewer, Owner)
      BY <1>3, <2>1, RefuseInv DEF ReadBanned, At
    <2>2. CASE ~IsBanned(bans, Viewer, Owner)
      <3>1. "banned" \notin lasting
        BY <1>1, <2>2 DEF LastingHold, Holds, IsBanned
      <3> QED BY <1>2, <1>3, <2>2, <3>1, GotoInv DEF ReadBanned, At, Step
    <2> QED BY <2>1, <2>2
  <1>4. CASE ReadBannedBack
    <2>1. CASE BannedBack
      BY <1>4, <2>1, RefuseInv DEF ReadBannedBack, At
    <2>2. CASE ~BannedBack
      <3>1. "bannedBack" \notin lasting
        BY <1>1, <2>2 DEF LastingHold, Holds, IsBanned, BannedBack
      <3>2. lasting \cap {"banned", "bannedBack"} = {}
        BY <1>1, <1>4, <3>1 DEF WallChecked, ReadBannedBack, At
      <3> QED BY <1>2, <1>4, <2>2, <3>2, GotoInv DEF ReadBannedBack, At, Step
    <2> QED BY <2>1, <2>2
  <1>5. CASE ReadScope
    <2>1. CASE viewScope = "public" /\ Grant
      <3>1. "strangerToWall" \notin lasting
        BY <1>1, <2>1 DEF LastingHold, Holds
      <3> QED BY <1>5, <2>1, <3>1, GrantInv DEF ReadScope, At
    <2>2. CASE Goto("areFriends")
      BY <1>1, <1>2, <1>5, <2>2, GotoInv DEF ReadScope, At, Step, WallChecked
    <2> QED BY <1>5, <2>1, <2>2 DEF ReadScope
  <1>6. CASE ReadFriends
    <2>1. CASE {Viewer, Owner} \in friends
      <3>1. "strangerToWall" \notin lasting
        BY <1>1, <2>1 DEF LastingHold, Holds
      <3> QED BY <1>6, <2>1, <3>1, GrantInv DEF ReadFriends, At
    <2>2. CASE {Viewer, Owner} \notin friends
      BY <1>6, <2>2, RefuseInv DEF ReadFriends, At
    <2> QED BY <2>1, <2>2
  <1> QED BY <1>3, <1>4, <1>5, <1>6

-----------------------------------------------------------------------------
(* The posts and the comments *)

LEMMA ReadAuthorInv == ASSUME IInv, ReadAuthor PROVE IInv'
  <1> USE PagesAssumption DEF IInv
  <1>1. load \in Load /\ At("author") /\ load.page = "post" /\ load.text = NoText
    BY DEF TypeOK, BioChecked, PageAtStep, ReadAuthor, At
  <1>2. CASE \E p \in load.row : Muted(p.author)
    BY <1>1, <1>2, RefuseInv DEF ReadAuthor, At
  <1>3. CASE ~\E p \in load.row : Muted(p.author)
    <2>1. load' = [load EXCEPT !.pc = "comments", !.posts = load.row]
      BY <1>3 DEF ReadAuthor
    <2>2. load' \in Load
      BY <1>1, <2>1 DEF Load, Step
    <2>3. /\ load'.pc = "comments" /\ load'.page = "post" /\ load'.posts = load.row
          /\ load'.comments = load.comments /\ load'.text = NoText /\ lasting' = lasting
      BY <1>1, <2>1 DEF Load, ReadAuthor, aux
    <2>4. "muted" \in lasting => \A p \in load.row : p.author # Author
      BY <1>3 DEF LastingHold, Holds, Muted, IsBanned
    <2>5. AuthorChecked'
      BY <1>1, <2>3, <2>4 DEF AuthorChecked, At
    <2>6. WallChecked' /\ BioChecked' /\ PageAtStep'
      BY <1>1, <2>3 DEF WallChecked, BioChecked, PageAtStep, At
    <2> QED BY <2>2, <2>5, <2>6, StepInv DEF Checked, ReadAuthor
  <1> QED BY <1>2, <1>3

LEMMA ListByWallInv == ASSUME IInv, ListByWall PROVE IInv'
  <1> USE PagesAssumption DEF IInv
  <1>1. load \in Load /\ At("list") /\ load.page = "wall" /\ load.text = NoText /\ posts \subseteq PostRow
    BY DEF TypeOK, BioChecked, PageAtStep, ListByWall, At
  <1>2. load' = [load EXCEPT !.pc = "comments", !.posts = posts]
    BY DEF ListByWall
  <1>3. load' \in Load
    BY <1>1, <1>2 DEF Load, Step
  <1>4. load'.pc = "comments" /\ load'.page = "wall" /\ load'.text = NoText /\ lasting' = lasting
    BY <1>1, <1>2 DEF Load, ListByWall, aux
  <1>5. Checked'
    BY <1>1, <1>4 DEF Checked, WallChecked, BioChecked, AuthorChecked, PageAtStep, At
  <1> QED BY <1>3, <1>5, StepInv DEF ListByWall

LEMMA ListByPostsInv == ASSUME IInv, ListByPosts PROVE IInv'
  <1> USE PagesAssumption DEF IInv
  <1>1. /\ load \in Load /\ At("comments") /\ load.page \in {"wall", "post"} /\ load.text = NoText
        /\ Thread \subseteq CommentRow /\ Commenters \subseteq {Owner, Author}
    BY DEF TypeOK, Load, BioChecked, PageAtStep, ListByPosts, At, Thread, Commenters, CommentRow
  <1>2. load' = [load EXCEPT !.comments = Thread,
                   !.pc = IF load.page = "post" THEN "filter" ELSE "owner",
                   !.todo = IF load.page = "post" THEN Commenters ELSE {}]
    BY DEF ListByPosts
  <1>3. load' \in Load
    BY <1>1, <1>2 DEF Load, Step
  <1>4. /\ load'.page = load.page /\ load'.text = NoText /\ load'.posts = load.posts
        /\ load'.comments = Thread /\ lasting' = lasting
        /\ load'.pc = IF load.page = "post" THEN "filter" ELSE "owner"
        /\ load.page = "post" => load'.todo = Commenters
    BY <1>1, <1>2 DEF Load, ListByPosts, aux
  <1>5. WallChecked' /\ BioChecked' /\ PageAtStep'
    BY <1>1, <1>4 DEF WallChecked, BioChecked, PageAtStep, At
  <1>6. AuthorChecked'
    <2>1. \A c \in Thread : c.author = Author => Author \in Commenters
      BY DEF Commenters
    <2> QED BY <1>4, <2>1 DEF AuthorChecked, At
  <1> QED BY <1>3, <1>5, <1>6, StepInv DEF Checked, ListByPosts

LEMMA ReadCommentAuthorInv ==
  ASSUME IInv, NEW u \in {Owner, Author}, ReadCommentAuthor(u)
  PROVE  IInv'
  <1> USE PagesAssumption DEF IInv
  <1>1. load \in Load /\ At("filter") /\ load.page = "post" /\ load.text = NoText
    BY DEF TypeOK, BioChecked, PageAtStep, ReadCommentAuthor, At
  <1>2. load' = [load EXCEPT !.todo = @ \ {u}, !.comments = CommentsAfter(u)]
    BY DEF ReadCommentAuthor
  <1>3. CommentsAfter(u) \subseteq load.comments
    BY DEF CommentsAfter
  <1>4. load' \in Load
    BY <1>1, <1>2, <1>3 DEF Load
  <1>5. /\ load'.pc = "filter" /\ load'.page = "post" /\ load'.text = NoText /\ load'.posts = load.posts
        /\ load'.comments = CommentsAfter(u) /\ load'.todo = load.todo \ {u} /\ lasting' = lasting
    BY <1>1, <1>2 DEF Load, ReadCommentAuthor, aux, At
  <1>6. WallChecked' /\ BioChecked' /\ PageAtStep'
    BY <1>1, <1>5 DEF WallChecked, BioChecked, PageAtStep, At
  <1>7. AuthorChecked'
    <2>1. "muted" \in lasting /\ u = Author => \A c \in CommentsAfter(u) : c.author # Author
      BY DEF LastingHold, Holds, CommentsAfter, Muted, IsBanned
    <2>2. CASE u = Author
      BY <1>1, <1>5, <2>1, <2>2 DEF AuthorChecked, At
    <2>3. CASE u # Author
      BY <1>1, <1>3, <1>5, <2>3 DEF AuthorChecked, At
    <2> QED BY <2>2, <2>3
  <1> QED BY <1>4, <1>6, <1>7, StepInv DEF Checked, ReadCommentAuthor

-----------------------------------------------------------------------------
(* The profile *)

LEMMA ReadOwnerInv == ASSUME IInv, ReadOwner PROVE IInv'
  <1> USE PagesAssumption DEF IInv
  <1>1. load \in Load /\ At("owner") /\ load.page = "wall" /\ text \in Text
    BY DEF TypeOK, PageAtStep, ReadOwner, At
  <1>2. load' = [load EXCEPT !.pc = "seeBannedBack", !.text = text]
    BY DEF ReadOwner
  <1>3. load' \in Load
    BY <1>1, <1>2 DEF Load, Step
  <1>4. /\ load'.pc = "seeBannedBack" /\ load'.page = "wall" /\ load'.posts = load.posts
        /\ lasting' = lasting
    BY <1>1, <1>2 DEF Load, ReadOwner, aux
  <1>5. Checked'
    BY <1>1, <1>4 DEF Checked, WallChecked, BioChecked, AuthorChecked, PageAtStep, At
  <1> QED BY <1>3, <1>5, StepInv DEF ReadOwner

LEMMA MaskInv ==
  ASSUME IInv, Mask, UNCHANGED <<tables, aux>>,
         load.pc \in {"seeBannedBack", "seeBanned", "seeScope", "seeFriends"}
  PROVE  IInv'
  <1> USE PagesAssumption DEF IInv
  <1>1. load \in Load /\ load' = [load EXCEPT !.pc = "show", !.text = NoText]
    BY DEF TypeOK, Mask
  <1>2. load' \in Load
    BY <1>1 DEF Load, Step
  <1>3. /\ load'.pc = "show" /\ load'.page = load.page /\ load'.posts = load.posts
        /\ load'.comments = load.comments /\ load'.text = NoText /\ lasting' = lasting
    BY <1>1 DEF Load, aux
  <1>4. Checked'
    BY <1>3 DEF Checked, WallChecked, BioChecked, AuthorChecked, PageAtStep, At
  <1> QED BY <1>2, <1>4, StepInv

LEMMA BioInv == ASSUME IInv, SeeBannedBack \/ SeeBanned \/ SeeScope \/ SeeFriends PROVE IInv'
  <1> USE PagesAssumption
  <1>1. LastingHold /\ BioChecked
    BY DEF IInv
  <1>2. CASE SeeBannedBack
    <2>1. CASE BannedBack
      BY <1>2, <2>1, MaskInv DEF SeeBannedBack, At
    <2>2. CASE ~BannedBack
      <3>1. "bannedBack" \notin lasting
        BY <1>1, <2>2 DEF LastingHold, Holds, IsBanned, BannedBack
      <3> QED BY <1>2, <2>2, <3>1, GotoInv DEF SeeBannedBack, At, Step
    <2> QED BY <2>1, <2>2
  <1>3. CASE SeeBanned
    <2>1. CASE IsBanned(bans, Viewer, Owner)
      BY <1>3, <2>1, MaskInv DEF SeeBanned, At
    <2>2. CASE ~IsBanned(bans, Viewer, Owner)
      <3>1. "banned" \notin lasting
        BY <1>1, <2>2 DEF LastingHold, Holds, IsBanned
      <3>2. lasting \cap {"banned", "bannedBack"} = {}
        BY <1>1, <1>3, <3>1 DEF BioChecked, SeeBanned, At
      <3> QED BY <1>3, <2>2, <3>2, GotoInv DEF SeeBanned, At, Step
    <2> QED BY <2>1, <2>2
  <1>4. CASE SeeScope
    <2>1. lasting \cap {"banned", "bannedBack"} = {}
      BY <1>1, <1>4 DEF BioChecked, SeeScope, At
    <2>2. CASE bioScope = "everyone" /\ Goto("show")
      <3>1. lasting \cap BioReason = {}
        BY <1>1, <2>1, <2>2 DEF LastingHold, Holds, BioReason
      <3> QED BY <1>4, <2>2, <3>1, GotoInv DEF SeeScope, At, Step
    <2>3. CASE bioScope = "friends" /\ Goto("seeFriends")
      <3>1. lasting \cap {"banned", "bannedBack", "nobodyToBio"} = {}
        BY <1>1, <2>1, <2>3 DEF LastingHold, Holds
      <3> QED BY <1>4, <2>3, <3>1, GotoInv DEF SeeScope, At, Step
    <2>4. CASE Mask
      BY <1>4, <2>4, MaskInv DEF SeeScope, At
    <2> QED BY <1>4, <2>2, <2>3, <2>4 DEF SeeScope
  <1>5. CASE SeeFriends
    <2>1. CASE {Viewer, Owner} \in friends
      <3>1. lasting \cap BioReason = {}
        BY <1>1, <1>5, <2>1 DEF LastingHold, Holds, BioChecked, BioReason, SeeFriends, At
      <3> QED BY <1>5, <2>1, <3>1, GotoInv DEF SeeFriends, At, Step
    <2>2. CASE {Viewer, Owner} \notin friends
      BY <1>5, <2>2, MaskInv DEF SeeFriends, At
    <2> QED BY <2>1, <2>2
  <1> QED BY <1>2, <1>3, <1>4, <1>5

-----------------------------------------------------------------------------
(* The statements of others: reasons only ever leave lasting, and what a *)
(* request has learnt stays true.                                        *)

LEMMA WriteInv == ASSUME IInv, Write PROVE IInv'
  <1> USE PagesAssumption DEF IInv
  <1>1. Noted
    BY DEF Write
  <1>2. /\ bans' \subseteq {Viewer, Owner} \X {Viewer, Owner, Author}
        /\ friends' \subseteq {{Viewer, Owner}}
        /\ viewScope' \in ViewScope /\ bioScope' \in ProfileScope
    BY DEF Write, SetAccess, access, TypeOK
  <1>3. text' \in Text /\ posts' \subseteq PostRow /\ comments' \subseteq CommentRow
    <2>1. CASE UNCHANGED <<text, posts, comments>>
      BY <2>1 DEF TypeOK
    <2>2. CASE \E u \in {Owner, Author} : InsertPost(u) \/ InsertComment(u)
      BY <2>2 DEF TypeOK, InsertPost, InsertComment, PostRow, CommentRow
    <2>3. CASE \E p \in posts : DeletePost(p)
      BY <2>3 DEF TypeOK, DeletePost
    <2>4. CASE \E c \in comments : DeleteComment(c)
      BY <2>4 DEF TypeOK, DeleteComment
    <2>5. CASE UpdateProfile
      BY <2>5 DEF TypeOK, UpdateProfile
    <2> QED BY <2>1, <2>2, <2>3, <2>4, <2>5 DEF Write
  <1>4. load' = load /\ lasting' \subseteq lasting /\ writes' \in 0..MaxWrites
    BY <1>1 DEF Noted, TypeOK
  <1>5. TypeOK'
    BY <1>2, <1>3, <1>4 DEF TypeOK
  <1>6. LastingHold'
    BY <1>1 DEF LastingHold, Noted, Holds
  <1>7. WallChecked' /\ BioChecked'
    BY <1>4 DEF WallChecked, BioChecked, At
  <1>8. AuthorChecked' /\ PageAtStep'
    BY <1>4 DEF AuthorChecked, PageAtStep, At
  <1> QED BY <1>5, <1>6, <1>7, <1>8

LEMMA NextInv == ASSUME IInv, [Next]_vars PROVE IInv'
  <1>1. CASE OpenWall
    BY <1>1, OpenInv DEF OpenWall
  <1>2. ASSUME NEW p \in posts, OpenPost(p) PROVE IInv'
    <2>1. {p} \in SUBSET PostRow
      BY DEF IInv, TypeOK
    <2> QED BY <1>2, <2>1, OpenInv DEF OpenPost
  <1>3. CASE ReadBanned \/ ReadBannedBack \/ ReadScope \/ ReadFriends
    BY <1>3, WallInv
  <1>4. CASE ReadAuthor \/ ListByWall \/ ListByPosts
    BY <1>4, ReadAuthorInv, ListByWallInv, ListByPostsInv
  <1>5. ASSUME NEW u \in {Owner, Author}, ReadCommentAuthor(u) PROVE IInv'
    BY <1>5, ReadCommentAuthorInv
  <1>6. CASE ReadOwner
    BY <1>6, ReadOwnerInv
  <1>7. CASE SeeBannedBack \/ SeeBanned \/ SeeScope \/ SeeFriends
    BY <1>7, BioInv
  <1>8. CASE Show \/ Fail
    BY <1>8, ReturnInv DEF Show, Fail
  <1>9. CASE Write
    BY <1>9, WriteInv
  <1>10. CASE UNCHANGED vars
    BY <1>10 DEF vars, tables, access, aux, IInv, TypeOK, LastingHold, Holds, WallChecked, BioChecked,
       AuthorChecked, PageAtStep, At
  <1> QED BY <1>1, <1>2, <1>3, <1>4, <1>5, <1>6, <1>7, <1>8, <1>9, <1>10 DEF Next

\* The inductive invariant of Pages.
THEOREM Invariance == Spec => []IInv
  BY InitInv, NextInv, PTL DEF Spec

\* Types of the tables, of the request at work and of the auxiliary variables.
THEOREM TypesHold == Spec => []TypeOK
  <1>1. IInv => TypeOK
    BY DEF IInv
  <1> QED BY <1>1, Invariance, PTL

\* What was refused to the reader for one and the same reason all the while is
\* not on a page, however many statements the checks are spread over and however
\* many statements of others fall between them (CanView, Visibility, LoadPost).
THEOREM RefusalsLast == Spec => []LastingRefusal
  <1>1. ASSUME IInv, Made PROVE LastingRefusal
    <2>1. load.posts # {} => lasting \cap WallReason = {}
      BY <1>1 DEF IInv, WallChecked
    <2>2. load.text # NoText => lasting \cap BioReason = {}
      BY <1>1 DEF IInv, BioChecked, Made, At
    <2>3. load.page = "post" /\ "muted" \in lasting
            => \A x \in load.posts \cup load.comments : x.author # Author
      BY <1>1 DEF IInv, AuthorChecked, Made, At
    <2> QED BY <2>1, <2>2, <2>3 DEF LastingRefusal, WallReason, BioReason
  <1>2. IInv => LastingRefusal
    BY <1>1 DEF LastingRefusal
  <1> QED BY <1>2, Invariance, PTL

-----------------------------------------------------------------------------
(* A page of one moment.  start keeps what the page would have held when   *)
(* the request began, not the tables themselves; the invariant says that   *)
(* there are tables before the one statement that overlaps the request,    *)
(* one write apart from those of now, such that whatever the request has   *)
(* read and met so far it has read in the ones or in the others.           *)

World == [bans: SUBSET ({Viewer, Owner} \X {Viewer, Owner, Author}),
          friends: SUBSET {{Viewer, Owner}}, viewScope: ViewScope, bioScope: ProfileScope,
          text: Text, posts: SUBSET PostRow, comments: SUBSET CommentRow]

Now == [bans |-> bans, friends |-> friends, viewScope |-> viewScope, bioScope |-> bioScope,
        text |-> text, posts |-> posts, comments |-> comments]

MutedIn(w, u) == <<Viewer, u>> \in w.bans
HeldOff(w) == <<Owner, Viewer>> \in w.bans
Befriended(w) == {Viewer, Owner} \in w.friends

OpenIn(w) ==
    /\ ~MutedIn(w, Owner) /\ ~HeldOff(w)
    /\ w.viewScope = "friends" => Befriended(w)

BioOpenIn(w) ==
    /\ ~MutedIn(w, Owner) /\ ~HeldOff(w)
    /\ w.bioScope # "nobody" /\ (w.bioScope = "friends" => Befriended(w))

\* What the page of the request holds in w.
PostsIn(w) ==
    IF load.page = "wall" THEN IF OpenIn(w) THEN w.posts ELSE {}
    ELSE {p \in load.row \cap w.posts : OpenIn(w) /\ ~MutedIn(w, p.author)}

CommentsIn(w) ==
    IF load.page = "wall" THEN w.comments
    ELSE {c \in w.comments : c.post \in Ids(load.row) /\ ~MutedIn(w, c.author)}

TextIn(w) == IF load.page = "wall" /\ BioOpenIn(w) THEN w.text ELSE NoText

\* At most one statement lies between a and b.
SameRows(a, b) == a.posts = b.posts /\ a.comments = b.comments
OneApart(a, b) ==
    \/ /\ SameRows(a, b) /\ a.text = b.text
       /\ \/ /\ \E e \in {Viewer, Owner} \X {Viewer, Owner, Author} : a.bans \ {e} = b.bans \ {e}
             /\ a.friends = b.friends /\ a.viewScope = b.viewScope /\ a.bioScope = b.bioScope
          \/ a.bans = b.bans /\ a.viewScope = b.viewScope /\ a.bioScope = b.bioScope
          \/ a.bans = b.bans /\ a.friends = b.friends /\ a.bioScope = b.bioScope
          \/ a.bans = b.bans /\ a.friends = b.friends /\ a.viewScope = b.viewScope
    \/ /\ a.bans = b.bans /\ a.friends = b.friends /\ a.viewScope = b.viewScope /\ a.bioScope = b.bioScope
       /\ SameRows(a, b) \/ a.text = b.text

WallCheck == {"banned", "bannedBack", "scope", "areFriends", "author", "list"}
BioCheck == {"seeBannedBack", "seeBanned", "seeScope", "seeFriends"}

\* What the checks of the wall have met, and then what was read under them.
WallSeen(W) ==
    /\ load.pc \in WallCheck => load.posts = {}
    /\ load.pc \in {"bannedBack", "scope", "areFriends"} => \E w \in W : ~MutedIn(w, Owner)
    /\ load.pc \in {"scope", "areFriends"} => \E w \in W : ~HeldOff(w)
    /\ load.pc = "areFriends" => \E w \in W : w.viewScope = "friends"
    /\ load.pc \in {"author", "list"} => \E w \in W : OpenIn(w)
    /\ load.pc = "comments" =>
         IF load.page = "post" THEN load.posts = load.row ELSE \E w \in W : load.posts = w.posts
    /\ load.pc \notin WallCheck => \E w \in W : load.posts = PostsIn(w)
    /\ load.page = "post" /\ load.pc = "show" => load.posts = {}
    /\ load.page = "wall" /\ load.pc \in BioCheck \cup {"owner", "show"} /\ load.posts # {}
         => \E w \in W : load.comments = w.comments

\* M are the authors whose comments the page of a post has dropped.
FilterSeen(W) ==
    At("filter") =>
        \E w \in W, M \in SUBSET {Owner, Author} :
            /\ load.comments = {c \in w.comments : c.post \in Ids(load.row) /\ c.author \notin M}
            /\ \A u \in M : \E x \in W : MutedIn(x, u)
            /\ \A u \in {Owner, Author} \ (M \cup load.todo) :
                  \/ \E x \in W : ~MutedIn(x, u)
                  \/ \A c \in load.comments : c.author # u

BioSeen(W) ==
    /\ load.pc \in BioCheck => load.page = "wall" /\ \E w \in W : load.text = w.text
    /\ load.pc \in {"seeBanned", "seeScope", "seeFriends"} => \E w \in W : ~HeldOff(w)
    /\ load.pc \in {"seeScope", "seeFriends"} => \E w \in W : ~MutedIn(w, Owner)
    /\ load.pc = "seeFriends" => \E w \in W : w.bioScope = "friends"
    /\ load.pc = "show" => \E w \in W : load.text = TextIn(w)

Seen(W) == WallSeen(W) /\ FilterSeen(W) /\ BioSeen(W)

\* The request began in a.
BeganIn(a) ==
    /\ start = [posts |-> PostsIn(a), comments |-> CommentsIn(a), text |-> TextIn(a)]
    /\ load.page = "post" => load.row \subseteq a.posts
    /\ writes = 0 => a = Now
    /\ OneApart(a, Now)
    /\ \A c \in comments : c.post \in Ids(a.posts)

RowAsked ==
    /\ load.page = "wall" => load.row = {}
    /\ load.page = "post" => \E p \in PostRow : load.row = {p}

\* Comments hang on posts (ON DELETE CASCADE).
CommentsHang == \A c \in comments : c.post \in Ids(posts)

Moment == ~At("idle") /\ writes <= 1 => \E a \in World : BeganIn(a) /\ Seen({a, Now})

MInv == IInv /\ RowAsked /\ CommentsHang /\ Moment

LEMMA NowIsAWorld == ASSUME TypeOK PROVE Now \in World
  BY DEF TypeOK, Now, World

\* The verdicts of the model, asked of the tables of now.
LEMMA Verdicts ==
  ASSUME IInv
  PROVE  /\ WallOpen <=> OpenIn(Now)
         /\ BioOpen <=> BioOpenIn(Now)
         /\ \A u \in {Owner, Author} : Muted(u) <=> MutedIn(Now, u)
  <1>1. /\ viewScope \in {"public", "friends"} /\ bioScope \in ProfileScope
        /\ Viewer # Owner /\ Viewer # Author
    BY PagesAssumption DEF IInv, TypeOK, ViewScope, Scope
  <1>2. WallOpen <=> OpenIn(Now)
    BY <1>1 DEF WallOpen, CanView, Can, MutuallyBanned, ScopeSatisfied, IsBanned, OpenIn, Now,
                MutedIn, HeldOff, Befriended
  <1>3. BioOpen <=> BioOpenIn(Now)
    BY <1>1 DEF BioOpen, MutuallyBanned, IsBanned, BioOpenIn, Now, MutedIn, HeldOff, Befriended,
                ProfileScope
  <1>4. \A u \in {Owner, Author} : Muted(u) <=> MutedIn(Now, u)
    BY <1>1 DEF Muted, IsBanned, MutedIn, Now
  <1> QED BY <1>2, <1>3, <1>4

\* The page of the tables of now.
LEMMA PageIsPageIn ==
  ASSUME IInv, RowAsked, ~At("idle")
  PROVE  /\ PageNow.posts = PostsIn(Now) /\ PageNow.comments = CommentsIn(Now)
         /\ PageNow.text = TextIn(Now)
  <1>1. load.page \in {"wall", "post"} /\ posts \subseteq PostRow /\ comments \subseteq CommentRow
    BY DEF IInv, TypeOK, PageAtStep, Load, At
  <1>2. WallOpen <=> OpenIn(Now)
    BY Verdicts
  <1>3. BioOpen <=> BioOpenIn(Now)
    BY Verdicts
  <1>4. \A u \in {Owner, Author} : Muted(u) <=> MutedIn(Now, u)
    BY Verdicts
  <1>5. CASE load.page = "wall"
    BY <1>2, <1>3, <1>5 DEF PageNow, WallNow, PostsIn, CommentsIn, TextIn, Now
  <1>6. CASE load.page = "post"
    <2>1. PICK p \in PostRow : load.row = {p}
      BY <1>6 DEF RowAsked
    <2>2. PageNow = PostNow(p)
      BY <1>6, <2>1 DEF PageNow
    <2>3. p.author \in {Owner, Author} /\ \A c \in comments : c.author \in {Owner, Author}
      BY <1>1 DEF PostRow, CommentRow
    <2>4. Ids(load.row) = {p.id}
      BY <2>1 DEF Ids
    <2>5. PageNow.posts = PostsIn(Now)
      BY <1>2, <1>4, <1>6, <2>1, <2>2, <2>3 DEF PostNow, PostsIn, Now
    <2>6. PageNow.comments = CommentsIn(Now)
      BY <1>4, <1>6, <2>2, <2>3, <2>4 DEF PostNow, CommentsIn, Now
    <2>7. PageNow.text = TextIn(Now)
      BY <1>6, <2>2 DEF PostNow, TextIn
    <2> QED BY <2>5, <2>6, <2>7
  <1> QED BY <1>1, <1>5, <1>6

-----------------------------------------------------------------------------
(* What one statement can change: whoever met nothing but grants, some met  *)
(* before it and some after, would have met grants alone at one of the two  *)
(* moments; and so for refusals.                                            *)

\* Two bans read at different moments.
LEMMA OneBan ==
  ASSUME NEW a \in World, NEW b \in World, OneApart(a, b), NEW e, NEW f,
         e \notin a.bans \/ e \notin b.bans, f \notin a.bans \/ f \notin b.bans
  PROVE  \/ e \notin a.bans /\ f \notin a.bans
         \/ e \notin b.bans /\ f \notin b.bans
  BY DEF OneApart

LEMMA OpenAtOnce ==
  ASSUME NEW a \in World, NEW b \in World, OneApart(a, b),
         \E w \in {a, b} : ~MutedIn(w, Owner), \E w \in {a, b} : ~HeldOff(w),
         \/ \E w \in {a, b} : w.viewScope = "public"
         \/ \E w \in {a, b} : Befriended(w)
  PROVE  \E w \in {a, b} : OpenIn(w)
  <1>1. \/ ~MutedIn(a, Owner) /\ ~HeldOff(a)
        \/ ~MutedIn(b, Owner) /\ ~HeldOff(b)
    BY OneBan DEF MutedIn, HeldOff
  <1>2. a.viewScope \in {"public", "friends"} /\ b.viewScope \in {"public", "friends"}
    BY DEF World, ViewScope, Scope
  <1>3. CASE a.bans = b.bans
    BY <1>1, <1>2, <1>3 DEF OpenIn, MutedIn, HeldOff
  <1>4. CASE a.bans # b.bans
    <2>1. a.friends = b.friends /\ a.viewScope = b.viewScope
      BY <1>4 DEF OneApart
    <2> QED BY <1>1, <1>2, <2>1 DEF OpenIn, Befriended
  <1> QED BY <1>3, <1>4

\* Strangers at one moment, a wall for friends at one.
LEMMA ShutAtOnce ==
  ASSUME NEW a \in World, NEW b \in World, OneApart(a, b),
         \E w \in {a, b} : w.viewScope = "friends", \E w \in {a, b} : ~Befriended(w)
  PROVE  \E w \in {a, b} : ~OpenIn(w)
  <1>1. a.friends = b.friends \/ a.viewScope = b.viewScope
    BY DEF OneApart
  <1> QED BY <1>1 DEF OpenIn, Befriended

LEMMA BioOpenAtOnce ==
  ASSUME NEW a \in World, NEW b \in World, OneApart(a, b),
         \E w \in {a, b} : ~MutedIn(w, Owner), \E w \in {a, b} : ~HeldOff(w),
         \/ \E w \in {a, b} : w.bioScope = "everyone"
         \/ (\E w \in {a, b} : w.bioScope = "friends") /\ \E w \in {a, b} : Befriended(w)
  PROVE  \E w \in {a, b} : BioOpenIn(w)
  <1>1. \/ ~MutedIn(a, Owner) /\ ~HeldOff(a)
        \/ ~MutedIn(b, Owner) /\ ~HeldOff(b)
    BY OneBan DEF MutedIn, HeldOff
  <1>2. CASE a.bans = b.bans
    <2>1. a.friends = b.friends \/ a.bioScope = b.bioScope
      BY DEF OneApart
    <2>2. ~MutedIn(a, Owner) /\ ~HeldOff(a) /\ ~MutedIn(b, Owner) /\ ~HeldOff(b)
      BY <1>1, <1>2 DEF MutedIn, HeldOff
    <2> QED BY <2>1, <2>2 DEF BioOpenIn, Befriended
  <1>3. CASE a.bans # b.bans
    <2>1. a.friends = b.friends /\ a.bioScope = b.bioScope
      BY <1>3 DEF OneApart
    <2> QED BY <1>1, <2>1 DEF BioOpenIn, Befriended
  <1> QED BY <1>2, <1>3

LEMMA BioShutAtOnce ==
  ASSUME NEW a \in World, NEW b \in World, OneApart(a, b),
         \E w \in {a, b} : w.bioScope = "friends", \E w \in {a, b} : ~Befriended(w)
  PROVE  \E w \in {a, b} : ~BioOpenIn(w)
  <1>1. a.friends = b.friends \/ a.bioScope = b.bioScope
    BY DEF OneApart
  <1> QED BY <1>1 DEF BioOpenIn, Befriended

\* Where the tables of the page differ, the permissions do not.
LEMMA SameVerdicts ==
  ASSUME NEW a \in World, NEW b \in World, OneApart(a, b),
         ~SameRows(a, b) \/ a.text # b.text
  PROVE  /\ OpenIn(a) <=> OpenIn(b)
         /\ BioOpenIn(a) <=> BioOpenIn(b)
         /\ \A u : MutedIn(a, u) <=> MutedIn(b, u)
  <1>1. a.bans = b.bans /\ a.friends = b.friends /\ a.viewScope = b.viewScope /\ a.bioScope = b.bioScope
    BY DEF OneApart
  <1> QED BY <1>1 DEF OpenIn, BioOpenIn, MutedIn, HeldOff, Befriended

\* Posts read at one moment under a verdict of another.
LEMMA WallAtOnce ==
  ASSUME NEW a \in World, NEW b \in World, OneApart(a, b), load.page = "wall",
         \E w \in {a, b} : OpenIn(w), NEW P, P = a.posts \/ P = b.posts
  PROVE  \E w \in {a, b} : P = PostsIn(w)
  <1>1. CASE a.posts = b.posts
    BY <1>1 DEF PostsIn
  <1>2. CASE a.posts # b.posts
    <2>1. OpenIn(a) <=> OpenIn(b)
      BY <1>2, SameVerdicts DEF SameRows
    <2> QED BY <2>1 DEF PostsIn
  <1> QED BY <1>1, <1>2

\* The post asked for, under the verdicts on its wall and on its author.
LEMMA PostAtOnce ==
  ASSUME NEW a \in World, NEW b \in World, OneApart(a, b), load.page = "post",
         NEW p \in PostRow, load.row = {p}, p \in a.posts,
         \E w \in {a, b} : OpenIn(w), \E w \in {a, b} : ~MutedIn(w, p.author)
  PROVE  \E w \in {a, b} : load.row = PostsIn(w)
  <1>1. \A w \in {a, b} : p \in w.posts /\ OpenIn(w) /\ ~MutedIn(w, p.author) => load.row = PostsIn(w)
    BY DEF PostsIn
  <1>2. CASE p \notin b.posts
    <2>1. /\ OpenIn(a) <=> OpenIn(b)
          /\ \A u : MutedIn(a, u) <=> MutedIn(b, u)
      BY <1>2, SameVerdicts DEF SameRows
    <2> QED BY <1>1, <2>1
  <1>3. CASE p \in b.posts /\ a.bans = b.bans
    <2>1. \A u : MutedIn(a, u) <=> MutedIn(b, u)
      BY <1>3 DEF MutedIn
    <2> QED BY <1>1, <1>3, <2>1
  <1>4. CASE p \in b.posts /\ a.bans # b.bans
    <2>1. a.friends = b.friends /\ a.viewScope = b.viewScope
      BY <1>4 DEF OneApart
    <2>2. PICK e : a.bans \ {e} = b.bans \ {e}
      BY <1>4 DEF OneApart
    <2>3. \/ OpenIn(a) /\ ~MutedIn(a, p.author)
          \/ OpenIn(b) /\ ~MutedIn(b, p.author)
      BY <2>1, <2>2 DEF OpenIn, MutedIn, HeldOff, Befriended
    <2> QED BY <1>1, <1>4, <2>3
  <1> QED BY <1>2, <1>3, <1>4

\* The comments of a post, each kept or dropped on what was read of its author.
LEMMA ThreadAtOnce ==
  ASSUME NEW a \in World, NEW b \in World, OneApart(a, b), load.page = "post",
         At("filter"), load.todo = {}, FilterSeen({a, b})
  PROVE  \E w \in {a, b} : load.comments = CommentsIn(w)
  <1>0. PICK C : C = load.comments
    OBVIOUS
  <1>1. PICK v \in {a, b}, M \in SUBSET {Owner, Author} :
            /\ C = {c \in v.comments : c.post \in Ids(load.row) /\ c.author \notin M}
            /\ \A u \in M : \E x \in {a, b} : MutedIn(x, u)
            /\ \A u \in {Owner, Author} \ (M \cup load.todo) :
                  (\E x \in {a, b} : ~MutedIn(x, u)) \/ \A c \in C : c.author # u
    BY <1>0 DEF FilterSeen
  <1>2. \A u \in {Owner, Author} \ M : (\E x \in {a, b} : ~MutedIn(x, u)) \/ \A c \in C : c.author # u
    BY <1>1
  <1> DEFINE T(w) == {c \in w.comments : c.post \in Ids(load.row)}
  <1>3. \A w \in {a, b} : \A c \in w.comments : c.author \in {Owner, Author}
    BY DEF World, CommentRow
  <1>4. \A w \in {a, b} : CommentsIn(w) = {c \in T(w) : ~MutedIn(w, c.author)}
    BY DEF CommentsIn
  <1>5. C = {c \in T(v) : c.author \notin M}
    BY <1>1
  <1>6. CASE a.bans = b.bans
    <2>1. \A u \in {Owner, Author} : MutedIn(a, u) <=> MutedIn(b, u)
      BY <1>6 DEF MutedIn
    <2>2. \A c \in T(v) : c.author \notin M <=> ~MutedIn(v, c.author)
      BY <1>1, <1>2, <1>3, <1>5, <2>1
    <2>3. C = CommentsIn(v)
      BY <1>4, <1>5, <2>2
    <2> QED BY <1>0, <2>3
  <1>7. CASE a.bans # b.bans
    <2>1. a.comments = b.comments
      BY <1>7 DEF OneApart, SameRows
    <2>2. PICK e : a.bans \ {e} = b.bans \ {e}
      BY <1>7 DEF OneApart
    <2>3. T(a) = T(v) /\ T(b) = T(v)
      BY <2>1
    <2>4. \E w \in {a, b} : \A c \in T(v) : c.author \notin M <=> ~MutedIn(w, c.author)
      <3>1. Owner # Author
        BY PagesAssumption
      <3>2. PICK u0 \in {Owner, Author} : \A u \in {Owner, Author} \ {u0} : <<Viewer, u>> # e
        BY <3>1
      <3>3. \A u \in {Owner, Author} \ {u0} : MutedIn(a, u) <=> MutedIn(b, u)
        BY <2>2, <3>2 DEF MutedIn
      <3>4. \A u \in {Owner, Author} \ {u0} : \A w \in {a, b} : \A c \in T(v) :
               c.author = u => (c.author \notin M <=> ~MutedIn(w, c.author))
        BY <1>1, <1>2, <1>5, <3>3
      <3>5. \E w \in {a, b} : \A c \in T(v) :
               c.author = u0 => (c.author \notin M <=> ~MutedIn(w, c.author))
        BY <1>1, <1>2, <1>5
      <3> QED BY <1>3, <3>4, <3>5
    <2>5. PICK w \in {a, b} : \A c \in T(v) : c.author \notin M <=> ~MutedIn(w, c.author)
      BY <2>4
    <2>6. C = CommentsIn(w)
      BY <1>4, <1>5, <2>3, <2>5
    <2> QED BY <1>0, <2>6
  <1> QED BY <1>0, <1>6, <1>7

LEMMA TextAtOnce ==
  ASSUME NEW a \in World, NEW b \in World, OneApart(a, b), load.page = "wall",
         \E w \in {a, b} : BioOpenIn(w), NEW t, t = a.text \/ t = b.text
  PROVE  \E w \in {a, b} : t = TextIn(w)
  <1>1. CASE a.text = b.text
    BY <1>1 DEF TextIn
  <1>2. CASE a.text # b.text
    <2>1. BioOpenIn(a) <=> BioOpenIn(b)
      BY <1>2, SameVerdicts
    <2> QED BY <2>1 DEF TextIn
  <1> QED BY <1>1, <1>2

-----------------------------------------------------------------------------
(* The statements of the request: what they read, they read in b, now *)

Between(a, b) == b = Now /\ OneApart(a, b) /\ BeganIn(a) /\ Seen({a, b})

\* What the page would hold depends on nothing else of the request.
LEMMA SamePage ==
  ASSUME load'.page = load.page, load'.row = load.row, NEW w
  PROVE  PostsIn(w)' = PostsIn(w) /\ CommentsIn(w)' = CommentsIn(w) /\ TextIn(w)' = TextIn(w)
  BY DEF PostsIn, CommentsIn, TextIn, OpenIn, BioOpenIn, MutedIn, HeldOff, Befriended, Ids

\* Before the profile is read, and on the page of a post, there is no text.
LEMMA NoTextYet ==
  ASSUME IInv
  PROVE  /\ load \in Load /\ load.page \in {"none", "wall", "post"}
         /\ load.pc \notin BioCheck \cup {"show"} => load.text = NoText
  BY DEF IInv, TypeOK, Load, BioChecked, BioCheck

LEMMA RefuseSeen ==
  ASSUME MInv, NEW a \in World, NEW b \in World, Between(a, b), Refuse,
         load.pc \in {"banned", "bannedBack", "areFriends", "author"},
         \E w \in {a, b} : PostsIn(w) = {}
  PROVE  Seen({a, b})' /\ load'.page = load.page /\ load'.row = load.row
  <1>1. load \in Load /\ load.page \in {"wall", "post"} /\ load.text = NoText /\ load.posts = {}
    BY NoTextYet DEF MInv, IInv, PageAtStep, At, BioCheck, Between, Seen, WallSeen, WallCheck
  <1>2. /\ load'.page = load.page /\ load'.row = load.row /\ load'.posts = {} /\ load'.text = NoText
        /\ load'.pc = IF load.page = "post" THEN "show" ELSE "owner"
    BY <1>1 DEF Refuse, Load
  <1>3. \A w : PostsIn(w)' = PostsIn(w) /\ TextIn(w)' = TextIn(w)
    BY <1>2, SamePage
  <1>4. WallSeen({a, b})'
    BY <1>2, <1>3 DEF WallSeen, WallCheck, BioCheck
  <1>5. BioSeen({a, b})' /\ FilterSeen({a, b})'
    <2>1. load.page = "post" => TextIn(a) = NoText
      BY DEF TextIn
    <2> QED BY <1>1, <1>2, <1>3, <2>1 DEF BioSeen, FilterSeen, BioCheck, At
  <1> QED BY <1>2, <1>4, <1>5 DEF Seen

\* A statement that only moves on within the checks of the wall.
LEMMA WallGoto ==
  ASSUME MInv, NEW a \in World, NEW b \in World, Between(a, b), load.pc \in WallCheck,
         NEW pc \in WallCheck \ {"banned"}, Goto(pc),
         pc \in {"bannedBack", "scope", "areFriends"} => \E w \in {a, b} : ~MutedIn(w, Owner),
         pc \in {"scope", "areFriends"} => \E w \in {a, b} : ~HeldOff(w),
         pc = "areFriends" => \E w \in {a, b} : w.viewScope = "friends",
         pc \in {"author", "list"} => \E w \in {a, b} : OpenIn(w)
  PROVE  Seen({a, b})' /\ load'.page = load.page /\ load'.row = load.row
  <1>1. load \in Load /\ load.posts = {}
    BY NoTextYet DEF MInv, Between, Seen, WallSeen
  <1>2. /\ load'.page = load.page /\ load'.row = load.row /\ load'.posts = {} /\ load'.pc = pc
    BY <1>1 DEF Goto, Load
  <1>3. WallSeen({a, b})'
    BY <1>2 DEF WallSeen, WallCheck, BioCheck, OpenIn, MutedIn, HeldOff, Befriended
  <1>4. BioSeen({a, b})' /\ FilterSeen({a, b})'
    BY <1>2 DEF BioSeen, FilterSeen, BioCheck, WallCheck, At
  <1> QED BY <1>2, <1>3, <1>4 DEF Seen

LEMMA WallChecksSeen ==
  ASSUME MInv, NEW a \in World, NEW b \in World, Between(a, b),
         ReadBanned \/ ReadBannedBack \/ ReadScope \/ ReadFriends
  PROVE  Seen({a, b})' /\ load'.page = load.page /\ load'.row = load.row
  <1>1. /\ b = Now /\ OneApart(a, b) /\ WallSeen({a, b}) /\ Viewer # Owner
        /\ b.viewScope = viewScope /\ b.bans = bans /\ b.friends = friends
    BY PagesAssumption DEF Between, Seen, Now
  <1>2. \A w \in {a, b} : ~OpenIn(w) => PostsIn(w) = {}
    BY DEF PostsIn
  <1>3. CASE ReadBanned
    <2>1. CASE IsBanned(bans, Viewer, Owner)
      <3>1. ~OpenIn(b)
        BY <1>1, <2>1 DEF OpenIn, MutedIn, IsBanned
      <3> QED BY <1>2, <1>3, <2>1, <3>1, RefuseSeen DEF ReadBanned, At
    <2>2. CASE ~IsBanned(bans, Viewer, Owner)
      <3>1. ~MutedIn(b, Owner)
        BY <1>1, <2>2 DEF MutedIn, IsBanned
      <3> QED BY <1>3, <2>2, <3>1, WallGoto DEF ReadBanned, At, WallCheck
    <2> QED BY <2>1, <2>2
  <1>4. CASE ReadBannedBack
    <2>1. CASE BannedBack
      <3>1. ~OpenIn(b)
        BY <1>1, <2>1 DEF OpenIn, HeldOff, BannedBack, IsBanned
      <3> QED BY <1>2, <1>4, <2>1, <3>1, RefuseSeen DEF ReadBannedBack, At
    <2>2. CASE ~BannedBack
      <3>1. ~HeldOff(b)
        BY <1>1, <2>2 DEF HeldOff, BannedBack, IsBanned
      <3>2. \E w \in {a, b} : ~MutedIn(w, Owner)
        BY <1>1, <1>4 DEF WallSeen, ReadBannedBack, At
      <3> QED BY <1>4, <2>2, <3>1, <3>2, WallGoto DEF ReadBannedBack, At, WallCheck
    <2> QED BY <2>1, <2>2
  <1>5. CASE ReadScope
    <2>1. (\E w \in {a, b} : ~MutedIn(w, Owner)) /\ (\E w \in {a, b} : ~HeldOff(w)) /\ load.pc = "scope"
      BY <1>1, <1>5 DEF WallSeen, ReadScope, At
    <2>2. CASE viewScope = "public" /\ Grant
      <3>1. \E w \in {a, b} : OpenIn(w)
        BY <1>1, <2>1, <2>2, OpenAtOnce
      <3>2. CASE load.page = "post"
        BY <2>1, <2>2, <3>1, <3>2, WallGoto DEF Grant, WallCheck
      <3>3. CASE load.page # "post"
        BY <2>1, <2>2, <3>1, <3>3, WallGoto DEF Grant, WallCheck
      <3> QED BY <3>2, <3>3
    <2>3. CASE viewScope = "friends" /\ Goto("areFriends")
      <3>1. \E w \in {a, b} : w.viewScope = "friends"
        BY <1>1, <2>3
      <3> QED BY <2>1, <2>3, <3>1, WallGoto DEF WallCheck
    <2> QED BY <1>5, <2>2, <2>3 DEF ReadScope
  <1>6. CASE ReadFriends
    <2>1. /\ \E w \in {a, b} : ~MutedIn(w, Owner)
          /\ \E w \in {a, b} : ~HeldOff(w)
          /\ \E w \in {a, b} : w.viewScope = "friends"
          /\ load.pc = "areFriends"
      BY <1>1, <1>6 DEF WallSeen, ReadFriends, At
    <2>2. CASE {Viewer, Owner} \in friends
      <3>0. Befriended(b) /\ Grant
        BY <1>1, <1>6, <2>2 DEF Befriended, ReadFriends
      <3>1. \E w \in {a, b} : OpenIn(w)
        BY <1>1, <2>1, <3>0, OpenAtOnce
      <3>2. CASE load.page = "post"
        BY <2>1, <3>0, <3>1, <3>2, WallGoto DEF Grant, WallCheck
      <3>3. CASE load.page # "post"
        BY <2>1, <3>0, <3>1, <3>3, WallGoto DEF Grant, WallCheck
      <3> QED BY <3>2, <3>3
    <2>3. CASE {Viewer, Owner} \notin friends
      <3>1. ~Befriended(b) /\ Refuse
        BY <1>1, <1>6, <2>3 DEF Befriended, ReadFriends
      <3>2. \E w \in {a, b} : ~OpenIn(w)
        BY <1>1, <2>1, <3>1, ShutAtOnce
      <3> QED BY <1>2, <2>1, <3>1, <3>2, RefuseSeen
    <2> QED BY <2>2, <2>3
  <1> QED BY <1>3, <1>4, <1>5, <1>6

LEMMA ReadAuthorSeen ==
  ASSUME MInv, NEW a \in World, NEW b \in World, Between(a, b), ReadAuthor
  PROVE  Seen({a, b})' /\ load'.page = load.page /\ load'.row = load.row
  <1>1. /\ b = Now /\ OneApart(a, b) /\ WallSeen({a, b}) /\ b.bans = bans
        /\ load \in Load /\ load.pc = "author" /\ load.page = "post" /\ load.text = NoText
        /\ load.posts = {}
    BY NoTextYet DEF Between, Seen, Now, WallSeen, WallCheck, BioCheck, MInv, IInv, PageAtStep,
                     ReadAuthor, At
  <1>2. PICK p \in PostRow : load.row = {p}
    BY <1>1 DEF MInv, RowAsked
  <1>3. p \in a.posts /\ p.author \in {Owner, Author} /\ Muted(p.author) = MutedIn(b, p.author)
    BY <1>1, <1>2, PagesAssumption DEF Between, BeganIn, PostRow, Muted, IsBanned, MutedIn
  <1>4. CASE Muted(p.author)
    <2>1. PostsIn(b) = {}
      BY <1>1, <1>2, <1>3, <1>4 DEF PostsIn
    <2> QED BY <1>1, <1>2, <1>4, <2>1, RefuseSeen DEF ReadAuthor
  <1>5. CASE ~Muted(p.author)
    <2>1. load' = [load EXCEPT !.pc = "comments", !.posts = load.row]
      BY <1>2, <1>5 DEF ReadAuthor
    <2>2. /\ load'.page = load.page /\ load'.row = load.row /\ load'.posts = load.row
          /\ load'.pc = "comments"
      BY <1>1, <2>1 DEF Load
    <2>3. PICK w \in {a, b} : load.row = PostsIn(w)
      <3>1. \E w \in {a, b} : OpenIn(w)
        BY <1>1 DEF WallSeen
      <3> QED BY <1>1, <1>2, <1>3, <1>5, <3>1, PostAtOnce
    <2>4. PostsIn(w)' = PostsIn(w)
      BY <2>2, SamePage
    <2>5. WallSeen({a, b})'
      BY <1>1, <2>2, <2>3, <2>4 DEF WallSeen, WallCheck, BioCheck
    <2>6. BioSeen({a, b})' /\ FilterSeen({a, b})'
      BY <2>2 DEF BioSeen, FilterSeen, BioCheck, At
    <2> QED BY <2>2, <2>5, <2>6 DEF Seen
  <1> QED BY <1>4, <1>5

LEMMA ListByWallSeen ==
  ASSUME MInv, NEW a \in World, NEW b \in World, Between(a, b), ListByWall
  PROVE  Seen({a, b})' /\ load'.page = load.page /\ load'.row = load.row
  <1>1. /\ b = Now /\ OneApart(a, b) /\ WallSeen({a, b}) /\ b.posts = posts
        /\ load \in Load /\ load.pc = "list" /\ load.page = "wall"
    BY NoTextYet DEF Between, Seen, Now, MInv, IInv, PageAtStep, ListByWall, At
  <1>2. load' = [load EXCEPT !.pc = "comments", !.posts = posts]
    BY DEF ListByWall
  <1>3. /\ load'.page = load.page /\ load'.row = load.row /\ load'.posts = posts
        /\ load'.pc = "comments"
    BY <1>1, <1>2 DEF Load
  <1>4. PICK w \in {a, b} : posts = PostsIn(w)
    <2>1. \E w \in {a, b} : OpenIn(w)
      BY <1>1 DEF WallSeen
    <2> QED BY <1>1, <2>1, WallAtOnce
  <1>5. PostsIn(w)' = PostsIn(w)
    BY <1>3, SamePage
  <1>6. WallSeen({a, b})'
    BY <1>1, <1>3, <1>4, <1>5 DEF WallSeen, WallCheck, BioCheck
  <1>7. BioSeen({a, b})' /\ FilterSeen({a, b})'
    BY <1>3 DEF BioSeen, FilterSeen, BioCheck, At
  <1> QED BY <1>3, <1>6, <1>7 DEF Seen

LEMMA ListByPostsSeen ==
  ASSUME MInv, NEW a \in World, NEW b \in World, Between(a, b), ListByPosts
  PROVE  Seen({a, b})' /\ load'.page = load.page /\ load'.row = load.row
  <1>1. /\ b = Now /\ OneApart(a, b) /\ WallSeen({a, b}) /\ b.posts = posts /\ b.comments = comments
        /\ load \in Load /\ load.pc = "comments" /\ load.page \in {"wall", "post"}
        /\ CommentsHang /\ \A c \in comments : c.post \in Ids(a.posts)
    BY NoTextYet DEF Between, BeganIn, Seen, Now, MInv, IInv, PageAtStep, ListByPosts, At
  <1>2. load' = [load EXCEPT !.comments = Thread,
                   !.pc = IF load.page = "post" THEN "filter" ELSE "owner",
                   !.todo = IF load.page = "post" THEN Commenters ELSE {}]
    BY DEF ListByPosts
  <1>3. /\ load'.page = load.page /\ load'.row = load.row /\ load'.posts = load.posts
        /\ load'.comments = Thread
        /\ load'.pc = IF load.page = "post" THEN "filter" ELSE "owner"
        /\ load'.todo = IF load.page = "post" THEN Commenters ELSE {}
    BY <1>1, <1>2 DEF Load
  <1>4. \A w : PostsIn(w)' = PostsIn(w)
    BY <1>3, SamePage
  <1>5. load.page = "wall" => Thread = b.comments
    <2>1. load.page = "wall" => load.posts = a.posts \/ load.posts = b.posts
      BY <1>1 DEF WallSeen
    <2> QED BY <1>1, <2>1 DEF CommentsHang, Thread
  <1>6. WallSeen({a, b})'
    BY <1>1, <1>3, <1>4, <1>5 DEF WallSeen, WallCheck, BioCheck
  <1>7. FilterSeen({a, b})'
    <2> SUFFICES ASSUME load.page = "post" PROVE FilterSeen({a, b})'
      BY <1>1, <1>3 DEF FilterSeen, At
    <2> DEFINE N == {}
    <2>1. Thread = {c \in b.comments : c.post \in Ids(load.row) /\ c.author \notin N}
      BY <1>1 DEF WallSeen, Thread
    <2>2. \A u \in {Owner, Author} \ (N \cup Commenters) : \A c \in Thread : c.author # u
      BY DEF Commenters
    <2>3. \A u \in N : \E x \in {a, b} : MutedIn(x, u)
      OBVIOUS
    <2>4. N \in SUBSET {Owner, Author}
      OBVIOUS
    <2> HIDE DEF N
    <2>5. load'.comments = {c \in b.comments : c.post \in Ids(load'.row) /\ c.author \notin N}
      BY <1>3, <2>1
    <2>6. \A u \in {Owner, Author} \ (N \cup load'.todo) : \A c \in load'.comments : c.author # u
      BY <1>3, <2>2
    <2> QED BY <2>3, <2>4, <2>5, <2>6 DEF FilterSeen, MutedIn, Ids
  <1>8. BioSeen({a, b})'
    BY <1>3 DEF BioSeen, BioCheck
  <1> QED BY <1>3, <1>6, <1>7, <1>8 DEF Seen

LEMMA ReadCommentAuthorSeen ==
  ASSUME MInv, NEW a \in World, NEW b \in World, Between(a, b),
         NEW u \in {Owner, Author}, ReadCommentAuthor(u)
  PROVE  Seen({a, b})' /\ load'.page = load.page /\ load'.row = load.row
  <1>1. /\ b = Now /\ WallSeen({a, b}) /\ FilterSeen({a, b}) /\ b.bans = bans
        /\ load \in Load /\ load.pc = "filter" /\ load.page = "post" /\ u \in load.todo
        /\ Muted(u) = MutedIn(b, u)
    BY NoTextYet, PagesAssumption DEF Between, Seen, Now, MInv, IInv, PageAtStep, ReadCommentAuthor,
                   At, Muted, IsBanned, MutedIn
  <1>2. load' = [load EXCEPT !.todo = @ \ {u}, !.comments = CommentsAfter(u)]
    BY DEF ReadCommentAuthor
  <1>3. /\ load'.page = load.page /\ load'.row = load.row /\ load'.posts = load.posts
        /\ load'.pc = "filter" /\ load'.todo = load.todo \ {u} /\ load'.comments = CommentsAfter(u)
    BY <1>1, <1>2 DEF Load
  <1>4. \A w : PostsIn(w)' = PostsIn(w)
    BY <1>3, SamePage
  <1>5. WallSeen({a, b})'
    BY <1>1, <1>3, <1>4 DEF WallSeen, WallCheck, BioCheck
  <1>6. BioSeen({a, b})'
    BY <1>3 DEF BioSeen, BioCheck
  <1>7. PICK w \in {a, b}, M \in SUBSET {Owner, Author} :
            /\ load.comments = {c \in w.comments : c.post \in Ids(load.row) /\ c.author \notin M}
            /\ \A x \in M : \E y \in {a, b} : MutedIn(y, x)
            /\ \A x \in {Owner, Author} \ (M \cup load.todo) :
                  \/ \E y \in {a, b} : ~MutedIn(y, x)
                  \/ \A c \in load.comments : c.author # x
    BY <1>1 DEF FilterSeen, At
  <1>8. CASE Muted(u)
    <2> DEFINE N == M \cup {u}
    <2>1. load'.comments = {c \in w.comments : c.post \in Ids(load'.row) /\ c.author \notin N}
      BY <1>3, <1>7, <1>8 DEF CommentsAfter
    <2>2. \A x \in N : \E y \in {a, b} : MutedIn(y, x)
      BY <1>1, <1>7, <1>8
    <2>3. \A x \in {Owner, Author} \ (N \cup load'.todo) :
                  \/ \E y \in {a, b} : ~MutedIn(y, x)
                  \/ \A c \in load'.comments : c.author # x
      BY <1>3, <1>7, <1>8 DEF CommentsAfter
    <2>4. N \in SUBSET {Owner, Author}
      OBVIOUS
    <2> HIDE DEF N
    <2>5. FilterSeen({a, b})'
      BY <2>1, <2>2, <2>3, <2>4 DEF FilterSeen, Ids, MutedIn
    <2> QED BY <1>3, <1>5, <1>6, <2>5 DEF Seen
  <1>9. CASE ~Muted(u)
    <2>1. load'.comments = {c \in w.comments : c.post \in Ids(load'.row) /\ c.author \notin M}
      BY <1>3, <1>7, <1>9 DEF CommentsAfter
    <2>2. \A x \in {Owner, Author} \ (M \cup load'.todo) :
                  \/ \E y \in {a, b} : ~MutedIn(y, x)
                  \/ \A c \in load'.comments : c.author # x
      BY <1>1, <1>3, <1>7, <1>9 DEF CommentsAfter
    <2>3. FilterSeen({a, b})'
      BY <1>7, <2>1, <2>2 DEF FilterSeen, Ids, MutedIn
    <2> QED BY <1>3, <1>5, <1>6, <2>3 DEF Seen
  <1> QED BY <1>8, <1>9

\* The statements of the profile leave the posts and the comments alone.
LEMMA BioStep ==
  ASSUME MInv, NEW a \in World, NEW b \in World, Between(a, b),
         load.pc \in BioCheck \cup {"owner"}, load.page = "wall",
         load'.pc \in BioCheck \cup {"show"}, load'.page = load.page, load'.row = load.row,
         load'.posts = load.posts, load'.comments = load.comments,
         BioSeen({a, b})'
  PROVE  Seen({a, b})'
  <1>1. \A w : PostsIn(w)' = PostsIn(w)
    BY SamePage
  <1>2. WallSeen({a, b})'
    BY <1>1 DEF Between, Seen, WallSeen, WallCheck, BioCheck
  <1> QED BY <1>2 DEF Seen, FilterSeen, At, BioCheck

LEMMA ReadOwnerSeen ==
  ASSUME MInv, NEW a \in World, NEW b \in World, Between(a, b), ReadOwner
  PROVE  Seen({a, b})' /\ load'.page = load.page /\ load'.row = load.row
  <1>1. b.text = text /\ load \in Load /\ load.pc = "owner" /\ load.page = "wall"
    BY NoTextYet DEF Between, Now, MInv, IInv, PageAtStep, ReadOwner, At
  <1>2. load' = [load EXCEPT !.pc = "seeBannedBack", !.text = text]
    BY DEF ReadOwner
  <1>3. /\ load'.page = load.page /\ load'.row = load.row /\ load'.posts = load.posts
        /\ load'.comments = load.comments /\ load'.pc = "seeBannedBack" /\ load'.text = text
    BY <1>1, <1>2 DEF Load
  <1>4. BioSeen({a, b})'
    BY <1>1, <1>3 DEF BioSeen, BioCheck
  <1> QED BY <1>1, <1>3, <1>4, BioStep DEF BioCheck

LEMMA BioChecksSeen ==
  ASSUME MInv, NEW a \in World, NEW b \in World, Between(a, b),
         SeeBannedBack \/ SeeBanned \/ SeeScope \/ SeeFriends
  PROVE  Seen({a, b})' /\ load'.page = load.page /\ load'.row = load.row

  <1>1. /\ OneApart(a, b) /\ BioSeen({a, b}) /\ Viewer # Owner
        /\ b.bioScope = bioScope /\ b.bans = bans /\ b.friends = friends
        /\ load \in Load /\ load.pc \in BioCheck /\ bioScope \in ProfileScope
        /\ load.page = "wall" /\ \E w \in {a, b} : load.text = w.text
    BY PagesAssumption DEF Between, Seen, Now, MInv, IInv, TypeOK, BioCheck, SeeBannedBack,
                           SeeBanned, SeeScope, SeeFriends, At, BioSeen
  <1>2. ASSUME Mask, \E w \in {a, b} : ~BioOpenIn(w)
        PROVE  Seen({a, b})' /\ load'.page = load.page /\ load'.row = load.row
    <2>1. /\ load'.page = load.page /\ load'.row = load.row /\ load'.posts = load.posts
          /\ load'.comments = load.comments /\ load'.pc = "show" /\ load'.text = NoText
      BY <1>1, <1>2 DEF Mask, Load
    <2>2. PICK w \in {a, b} : TextIn(w) = NoText
      BY <1>2 DEF TextIn
    <2>3. TextIn(w)' = TextIn(w)
      BY <2>1, SamePage
    <2>4. BioSeen({a, b})'
      BY <2>1, <2>2, <2>3 DEF BioSeen, BioCheck
    <2> QED BY <1>1, <2>1, <2>4, BioStep
  <1>3. ASSUME NEW pc \in BioCheck \ {"seeBannedBack"}, Goto(pc),
               pc \in {"seeBanned", "seeScope", "seeFriends"} => \E w \in {a, b} : ~HeldOff(w),
               pc \in {"seeScope", "seeFriends"} => \E w \in {a, b} : ~MutedIn(w, Owner),
               pc = "seeFriends" => \E w \in {a, b} : w.bioScope = "friends"
        PROVE  Seen({a, b})' /\ load'.page = load.page /\ load'.row = load.row
    <2>1. /\ load'.page = load.page /\ load'.row = load.row /\ load'.posts = load.posts
          /\ load'.comments = load.comments /\ load'.pc = pc /\ load'.text = load.text
      BY <1>1, <1>3 DEF Goto, Load
    <2>2. BioSeen({a, b})'
      BY <1>1, <1>3, <2>1 DEF BioSeen, BioCheck, HeldOff, MutedIn
    <2> QED BY <1>1, <2>1, <2>2, BioStep
  <1>4. ASSUME Goto("show"), \E w \in {a, b} : BioOpenIn(w)
        PROVE  Seen({a, b})' /\ load'.page = load.page /\ load'.row = load.row
    <2>1. /\ load'.page = load.page /\ load'.row = load.row /\ load'.posts = load.posts
          /\ load'.comments = load.comments /\ load'.pc = "show" /\ load'.text = load.text
      BY <1>1, <1>4 DEF Goto, Load
    <2>2. load.text = a.text \/ load.text = b.text
      BY <1>1
    <2>3. PICK w \in {a, b} : load.text = TextIn(w)
      BY <1>1, <1>4, <2>2, TextAtOnce
    <2>4. TextIn(w)' = TextIn(w)
      BY <2>1, SamePage
    <2>5. BioSeen({a, b})'
      BY <2>1, <2>3, <2>4 DEF BioSeen, BioCheck
    <2> QED BY <1>1, <2>1, <2>5, BioStep
  <1>5. CASE SeeBannedBack
    <2>1. CASE BannedBack
      <3>1. ~BioOpenIn(b)
        BY <1>1, <2>1 DEF BioOpenIn, HeldOff, BannedBack, IsBanned
      <3> QED BY <1>2, <1>5, <2>1, <3>1 DEF SeeBannedBack
    <2>2. CASE ~BannedBack
      <3>1. ~HeldOff(b)
        BY <1>1, <2>2 DEF HeldOff, BannedBack, IsBanned
      <3> QED BY <1>3, <1>5, <2>2, <3>1 DEF SeeBannedBack, BioCheck
    <2> QED BY <2>1, <2>2
  <1>6. CASE SeeBanned
    <2>1. CASE IsBanned(bans, Viewer, Owner)
      <3>1. ~BioOpenIn(b)
        BY <1>1, <2>1 DEF BioOpenIn, MutedIn, IsBanned
      <3> QED BY <1>2, <1>6, <2>1, <3>1 DEF SeeBanned
    <2>2. CASE ~IsBanned(bans, Viewer, Owner)
      <3>1. ~MutedIn(b, Owner) /\ \E w \in {a, b} : ~HeldOff(w)
        BY <1>1, <1>6, <2>2 DEF MutedIn, IsBanned, BioSeen, SeeBanned, At
      <3> QED BY <1>3, <1>6, <2>2, <3>1 DEF SeeBanned, BioCheck
    <2> QED BY <2>1, <2>2
  <1>7. CASE SeeScope
    <2>1. (\E w \in {a, b} : ~HeldOff(w)) /\ (\E w \in {a, b} : ~MutedIn(w, Owner))
      BY <1>1, <1>7 DEF BioSeen, SeeScope, At
    <2>2. CASE bioScope = "everyone" /\ Goto("show")
      <3>1. b.bioScope = "everyone"
        BY <1>1, <2>2
      <3>2. \E w \in {a, b} : BioOpenIn(w)
        BY <1>1, <2>1, <3>1, BioOpenAtOnce
      <3> QED BY <1>4, <2>2, <3>2
    <2>3. CASE bioScope = "friends" /\ Goto("seeFriends")
      BY <1>1, <1>3, <2>1, <2>3 DEF BioCheck
    <2>4. CASE bioScope = "nobody" /\ Mask
      <3>1. ~BioOpenIn(b)
        BY <1>1, <2>4 DEF BioOpenIn
      <3> QED BY <1>2, <2>4, <3>1
    <2> QED BY <1>7, <2>2, <2>3, <2>4 DEF SeeScope
  <1>8. CASE SeeFriends
    <2>1. /\ \E w \in {a, b} : ~HeldOff(w)
          /\ \E w \in {a, b} : ~MutedIn(w, Owner)
          /\ \E w \in {a, b} : w.bioScope = "friends"
      BY <1>1, <1>8 DEF BioSeen, SeeFriends, At
    <2>2. CASE {Viewer, Owner} \in friends
      <3>1. Befriended(b)
        BY <1>1, <2>2 DEF Befriended
      <3>2. \E w \in {a, b} : BioOpenIn(w)
        BY <1>1, <2>1, <3>1, BioOpenAtOnce
      <3> QED BY <1>4, <1>8, <2>2, <3>2 DEF SeeFriends
    <2>3. CASE {Viewer, Owner} \notin friends
      <3>1. ~Befriended(b)
        BY <1>1, <2>3 DEF Befriended
      <3>2. \E w \in {a, b} : ~BioOpenIn(w)
        BY <1>1, <2>1, <3>1, BioShutAtOnce
      <3> QED BY <1>2, <1>8, <2>3, <3>2 DEF SeeFriends
    <2> QED BY <2>2, <2>3
  <1> QED BY <1>5, <1>6, <1>7, <1>8

-----------------------------------------------------------------------------
(* The invariant of moments is inductive *)

LEMMA ReadsKeepMoment ==
  ASSUME MInv, UNCHANGED <<tables, aux>>, ~At("idle"),
         load'.page = load.page, load'.row = load.row,
         \A a, b \in World : Between(a, b) => Seen({a, b})'
  PROVE  RowAsked' /\ CommentsHang' /\ Moment'
  <1>1. RowAsked' /\ CommentsHang'
    BY DEF MInv, RowAsked, CommentsHang, tables, Ids
  <1>2. ASSUME writes <= 1, NEW a \in World, BeganIn(a), Seen({a, Now})
        PROVE  BeganIn(a)' /\ Seen({a, Now})'
    <2>1. PICK b \in World : b = Now
      BY NowIsAWorld DEF MInv, IInv
    <2>2. Now' = b
      BY <2>1 DEF Now, tables, access
    <2>3. Between(a, b)
      BY <1>2, <2>1 DEF Between, BeganIn
    <2>4. Seen({a, b})'
      BY <2>3
    <2>5. PostsIn(a)' = PostsIn(a) /\ CommentsIn(a)' = CommentsIn(a) /\ TextIn(a)' = TextIn(a)
      BY SamePage
    <2>6. BeganIn(a)'
      <3>1. /\ start' = start /\ writes' = writes /\ comments' = comments
        BY DEF aux, tables
      <3> QED BY <1>2, <2>1, <2>2, <2>5, <3>1 DEF BeganIn, Ids
    <2> QED BY <2>2, <2>4, <2>6 DEF Seen, WallSeen, FilterSeen, BioSeen
  <1>3. Moment'
    <2>1. writes' = writes
      BY DEF aux
    <2> QED BY <1>2, <2>1 DEF MInv, Moment
  <1> QED BY <1>1, <1>3

LEMMA OpenMoment ==
  ASSUME MInv, NEW page \in {"wall", "post"}, NEW row, NEW now, Open(page, row, now),
         page = "wall" => row = {} /\ now = WallNow,
         page = "post" => \E p \in posts : row = {p} /\ now = PostNow(p)
  PROVE  RowAsked' /\ CommentsHang' /\ Moment'
  <1>1. /\ load' = [page |-> page, pc |-> "banned", row |-> row, todo |-> {},
                    posts |-> {}, comments |-> {}, text |-> NoText]
        /\ start' = now /\ writes' = 0 /\ UNCHANGED tables
    BY DEF Open, Idle
  <1>2. /\ load'.page = page /\ load'.pc = "banned" /\ load'.row = row /\ load'.posts = {}
        /\ posts \subseteq PostRow /\ comments \subseteq CommentRow
    BY <1>1 DEF MInv, IInv, TypeOK
  <1>3. RowAsked' /\ CommentsHang'
    BY <1>1, <1>2 DEF MInv, RowAsked, CommentsHang, tables, Ids
  <1>4. PICK b \in World : b = Now
    BY NowIsAWorld DEF MInv, IInv
  <1>5. Now' = b /\ b.posts = posts /\ b.comments = comments /\ b.text = text
    BY <1>1, <1>4 DEF Now, tables, access
  <1>6. /\ WallOpen <=> OpenIn(b)
        /\ BioOpen <=> BioOpenIn(b)
        /\ \A u \in {Owner, Author} : Muted(u) <=> MutedIn(b, u)
    BY <1>4, Verdicts DEF MInv
  <1>7. now = [posts |-> PostsIn(b)', comments |-> CommentsIn(b)', text |-> TextIn(b)']
    <2>0. /\ OpenIn(b)' <=> OpenIn(b)
          /\ BioOpenIn(b)' <=> BioOpenIn(b)
          /\ \A u : MutedIn(b, u)' <=> MutedIn(b, u)
      BY DEF OpenIn, BioOpenIn, MutedIn, HeldOff, Befriended
    <2>1. CASE page = "wall"
      BY <1>2, <1>5, <1>6, <2>0, <2>1 DEF WallNow, PostsIn, CommentsIn, TextIn
    <2>2. CASE page = "post"
      <3>1. PICK p \in posts : row = {p} /\ now = PostNow(p)
        BY <2>2
      <3>2. p.author \in {Owner, Author} /\ \A c \in comments : c.author \in {Owner, Author}
        BY <1>2 DEF PostRow, CommentRow
      <3>3. Ids(load'.row) = {p.id}
        BY <1>2, <3>1 DEF Ids
      <3>4. PostsIn(b)' = IF OpenIn(b) /\ ~MutedIn(b, p.author) THEN {p} ELSE {}
        BY <1>2, <1>5, <2>0, <2>2, <3>1 DEF PostsIn
      <3>5. CommentsIn(b)' = {c \in comments : c.post = p.id /\ ~MutedIn(b, c.author)}
        BY <1>2, <1>5, <2>0, <2>2, <3>3 DEF CommentsIn, Ids
      <3>6. TextIn(b)' = NoText
        BY <1>2, <2>2 DEF TextIn
      <3>7. now.posts = PostsIn(b)' /\ now.comments = CommentsIn(b)' /\ now.text = TextIn(b)'
        BY <1>6, <3>1, <3>2, <3>4, <3>5, <3>6 DEF PostNow
      <3> QED BY <3>1, <3>7 DEF PostNow
    <2> QED BY <2>1, <2>2
  <1>8. BeganIn(b)'
    <2>1. OneApart(b, b)
      BY DEF OneApart, SameRows
    <2>2. page = "post" => row \subseteq b.posts
      BY <1>5
    <2>3. \A c \in comments' : c.post \in Ids(b.posts)
      BY <1>1, <1>5 DEF tables, MInv, CommentsHang
    <2> QED BY <1>1, <1>2, <1>5, <1>7, <2>1, <2>2, <2>3 DEF BeganIn, OneApart, SameRows, Ids
  <1>9. Seen({b, b})'
    BY <1>2 DEF Seen, WallSeen, FilterSeen, BioSeen, WallCheck, BioCheck, At
  <1>10. Moment'
    BY <1>5, <1>8, <1>9 DEF Moment, Seen, WallSeen, FilterSeen, BioSeen, World
  <1> QED BY <1>3, <1>10

\* What has been read in some tables has been read in some more.
LEMMA SeenGrows ==
  ASSUME NEW W, NEW V, W \subseteq V, Seen(W)
  PROVE  Seen(V)
  <1>1. WallSeen(V)
    BY DEF Seen, WallSeen
  <1>2. FilterSeen(V)
    BY DEF Seen, FilterSeen
  <1>3. BioSeen(V)
    BY DEF Seen, BioSeen
  <1> QED BY <1>1, <1>2, <1>3 DEF Seen

\* A statement of somebody else, with its cascade.
LEMMA WriteIsOne ==
  ASSUME MInv, Write
  PROVE  /\ OneApart(Now, Now')
         /\ CommentsHang'
         /\ \A c \in comments' : c.post \in Ids(posts)
  <1>1. CommentsHang
    BY DEF MInv
  <1>2. CASE SetAccess /\ UNCHANGED <<text, posts, comments>>
    <2>1. OneApart(Now, Now')
      <3>1. CASE /\ \E e \in {<<Viewer, Owner>>, <<Owner, Viewer>>, <<Viewer, Author>>} :
                      bans' \in {bans \cup {e}, bans \ {e}} \ {bans}
                 /\ UNCHANGED <<friends, viewScope, bioScope>>
        BY <1>2, <3>1 DEF OneApart, SameRows, Now
      <3>2. CASE UNCHANGED <<bans, viewScope, bioScope>>
        BY <1>2, <3>2 DEF OneApart, SameRows, Now
      <3>3. CASE UNCHANGED <<bans, friends, bioScope>>
        BY <1>2, <3>3 DEF OneApart, SameRows, Now
      <3>4. CASE UNCHANGED <<bans, friends, viewScope>>
        BY <1>2, <3>4 DEF OneApart, SameRows, Now
      <3> QED BY <1>2, <3>1, <3>2, <3>3, <3>4 DEF SetAccess
    <2>2. CommentsHang' /\ \A c \in comments' : c.post \in Ids(posts)
      BY <1>1, <1>2 DEF CommentsHang, Ids
    <2> QED BY <2>1, <2>2
  <1>3. ASSUME UNCHANGED access, UNCHANGED text \/ UNCHANGED <<posts, comments>>
        PROVE  OneApart(Now, Now')
    BY <1>3 DEF OneApart, SameRows, Now, access
  <1>4. ASSUME NEW u \in {Owner, Author}, InsertPost(u), UNCHANGED access
        PROVE  /\ OneApart(Now, Now') /\ CommentsHang' /\ \A c \in comments' : c.post \in Ids(posts)
    BY <1>1, <1>3, <1>4 DEF InsertPost, CommentsHang, Ids
  <1>5. ASSUME NEW u \in {Owner, Author}, InsertComment(u), UNCHANGED access
        PROVE  /\ OneApart(Now, Now') /\ CommentsHang' /\ \A c \in comments' : c.post \in Ids(posts)
    BY <1>1, <1>3, <1>5 DEF InsertComment, CommentsHang, Ids
  <1>6. ASSUME NEW p \in posts, DeletePost(p), UNCHANGED access
        PROVE  /\ OneApart(Now, Now') /\ CommentsHang' /\ \A c \in comments' : c.post \in Ids(posts)
    BY <1>1, <1>3, <1>6 DEF DeletePost, CommentsHang, Ids
  <1>7. ASSUME NEW c \in comments, DeleteComment(c), UNCHANGED access
        PROVE  /\ OneApart(Now, Now') /\ CommentsHang' /\ \A d \in comments' : d.post \in Ids(posts)
    BY <1>1, <1>3, <1>7 DEF DeleteComment, CommentsHang, Ids
  <1>8. ASSUME UpdateProfile, UNCHANGED access
        PROVE  /\ OneApart(Now, Now') /\ CommentsHang' /\ \A d \in comments' : d.post \in Ids(posts)
    BY <1>1, <1>3, <1>8 DEF UpdateProfile, CommentsHang, Ids
  <1> QED BY <1>2, <1>4, <1>5, <1>6, <1>7, <1>8 DEF Write

LEMMA SeenSame == ASSUME NEW W, load' = load, Seen(W) PROVE Seen(W)'
  <1>1. \A w : PostsIn(w)' = PostsIn(w) /\ TextIn(w)' = TextIn(w)
    BY SamePage
  <1>2. WallSeen(W)'
    BY <1>1 DEF Seen, WallSeen, OpenIn, MutedIn, HeldOff, Befriended
  <1>3. FilterSeen(W)'
    BY DEF Seen, FilterSeen, At, MutedIn, Ids
  <1>4. BioSeen(W)'
    BY <1>1 DEF Seen, BioSeen, MutedIn, HeldOff
  <1> QED BY <1>2, <1>3, <1>4 DEF Seen

LEMMA WriteMoment ==
  ASSUME MInv, Write
  PROVE  RowAsked' /\ CommentsHang' /\ Moment'
  <1>1. /\ load' = load /\ start' = start
        /\ writes' = IF At("idle") THEN 0 ELSE writes + 1
        /\ writes \in Nat
    BY PagesAssumption DEF Write, Noted, MInv, IInv, TypeOK
  <1>2. RowAsked'
    BY <1>1 DEF MInv, RowAsked
  <1>3. ASSUME ~At("idle"), writes' <= 1
        PROVE  \E a \in World : BeganIn(a)' /\ Seen({a, Now})'
    <2>1. writes = 0
      BY <1>1, <1>3
    <2>2. PICK a \in World : BeganIn(a) /\ Seen({a, Now})
      <3>1. writes <= 1 /\ Moment
        BY <2>1 DEF MInv
      <3> QED BY <1>3, <3>1 DEF Moment
    <2>3. a = Now
      BY <2>1, <2>2 DEF BeganIn
    <2>4. OneApart(a, Now') /\ \A c \in comments' : c.post \in Ids(posts)
      BY <2>3, WriteIsOne
    <2>5. PostsIn(a)' = PostsIn(a) /\ CommentsIn(a)' = CommentsIn(a) /\ TextIn(a)' = TextIn(a)
      BY <1>1, SamePage
    <2>6. BeganIn(a)'
      <3>1. a.posts = posts /\ writes' = 1
        BY <1>1, <1>3, <2>1, <2>3 DEF Now
      <3>2. OneApart(a, Now)'
        BY <2>4 DEF OneApart, SameRows
      <3>3. (\A c \in comments : c.post \in Ids(a.posts))'
        BY <2>4, <3>1 DEF Ids
      <3> QED BY <1>1, <2>2, <2>5, <3>1, <3>2, <3>3 DEF BeganIn
    <2>7. Seen({a, Now})'
      <3>1. PICK d : d = Now'
        OBVIOUS
      <3>2. Seen({a, d})
        BY <2>2, <2>3, SeenGrows
      <3>3. Seen({a, d})'
        BY <1>1, <3>2, SeenSame
      <3> QED BY <3>1, <3>3 DEF Seen, WallSeen, FilterSeen, BioSeen
    <2> QED BY <2>6, <2>7
  <1>4. Moment'
    <2>1. At("idle")' <=> At("idle")
      BY <1>1 DEF At
    <2> QED BY <1>3, <2>1 DEF Moment
  <1> QED BY <1>2, <1>4, WriteIsOne

LEMMA NextMInv == ASSUME MInv, [Next]_vars PROVE MInv'
  <1> SUFFICES RowAsked' /\ CommentsHang' /\ Moment'
    BY NextInv DEF MInv
  <1>1. CASE OpenWall
    BY <1>1, OpenMoment DEF OpenWall
  <1>2. ASSUME NEW p \in posts, OpenPost(p) PROVE RowAsked' /\ CommentsHang' /\ Moment'
    BY <1>2, OpenMoment DEF OpenPost
  <1>3. ASSUME UNCHANGED <<tables, aux>>, ~At("idle"), load'.page = load.page, load'.row = load.row,
               \A a, b \in World : Between(a, b) => Seen({a, b})'
        PROVE  RowAsked' /\ CommentsHang' /\ Moment'
    BY <1>3, ReadsKeepMoment
  <1>4. CASE ReadBanned \/ ReadBannedBack \/ ReadScope \/ ReadFriends
    <2>1. UNCHANGED <<tables, aux>> /\ ~At("idle")
      BY <1>4 DEF ReadBanned, ReadBannedBack, ReadScope, ReadFriends, At
    <2>2. load'.page = load.page /\ load'.row = load.row
      <3>1. load \in Load
        BY DEF MInv, IInv, TypeOK
      <3> QED BY <1>4, <3>1 DEF ReadBanned, ReadBannedBack, ReadScope, ReadFriends, Refuse, Grant, Goto, Load
    <2> QED BY <1>3, <1>4, <2>1, <2>2, WallChecksSeen
  <1>5. CASE ReadAuthor \/ ListByWall \/ ListByPosts \/ ReadOwner
    <2>1. UNCHANGED <<tables, aux>> /\ ~At("idle")
      BY <1>5 DEF ReadAuthor, ListByWall, ListByPosts, ReadOwner, At
    <2>2. load'.page = load.page /\ load'.row = load.row
      <3>1. load \in Load
        BY DEF MInv, IInv, TypeOK
      <3> QED BY <1>5, <3>1 DEF ReadAuthor, ListByWall, ListByPosts, ReadOwner, Refuse, Load
    <2> QED BY <1>3, <1>5, <2>1, <2>2, ReadAuthorSeen, ListByWallSeen, ListByPostsSeen, ReadOwnerSeen
  <1>6. ASSUME NEW u \in {Owner, Author}, ReadCommentAuthor(u)
        PROVE  RowAsked' /\ CommentsHang' /\ Moment'
    <2>1. UNCHANGED <<tables, aux>> /\ ~At("idle")
      BY <1>6 DEF ReadCommentAuthor, At
    <2>2. load'.page = load.page /\ load'.row = load.row
      BY <1>6 DEF MInv, IInv, TypeOK, Load, ReadCommentAuthor
    <2> QED BY <1>3, <1>6, <2>1, <2>2, ReadCommentAuthorSeen
  <1>7. CASE SeeBannedBack \/ SeeBanned \/ SeeScope \/ SeeFriends
    <2>1. UNCHANGED <<tables, aux>> /\ ~At("idle")
      BY <1>7 DEF SeeBannedBack, SeeBanned, SeeScope, SeeFriends, At
    <2>2. load'.page = load.page /\ load'.row = load.row
      <3>1. load \in Load
        BY DEF MInv, IInv, TypeOK
      <3> QED BY <1>7, <3>1 DEF SeeBannedBack, SeeBanned, SeeScope, SeeFriends, Mask, Goto, Load
    <2> QED BY <1>3, <1>7, <2>1, <2>2, BioChecksSeen
  <1>8. CASE Show \/ Fail
    <2>1. load' = Idle /\ UNCHANGED tables
      BY <1>8 DEF Show, Fail, Return
    <2>2. load'.page = "none" /\ load'.pc = "idle"
      BY <2>1 DEF Idle
    <2> QED BY <2>1, <2>2 DEF RowAsked, CommentsHang, Moment, At, MInv, tables, Ids
  <1>9. CASE Write
    BY <1>9, WriteMoment
  <1>10. CASE UNCHANGED vars
    <2>1. /\ load' = load /\ writes' = writes /\ start' = start /\ Now' = Now
          /\ comments' = comments /\ posts' = posts
      BY <1>10 DEF vars, tables, access, aux, Now
    <2>2. RowAsked' /\ CommentsHang'
      BY <2>1 DEF MInv, RowAsked, CommentsHang, Ids
    <2>3. CASE At("idle")
      BY <2>1, <2>2, <2>3 DEF Moment, At
    <2>4. CASE ~At("idle")
      <3>1. UNCHANGED <<tables, aux>>
        BY <1>10 DEF vars
      <3>2. ASSUME NEW a \in World, NEW b \in World, Between(a, b) PROVE Seen({a, b})'
        BY <2>1, <3>2, SeenSame DEF Between
      <3> QED BY <1>3, <2>1, <2>4, <3>1, <3>2
    <2> QED BY <2>3, <2>4
  <1> QED BY <1>1, <1>2, <1>4, <1>5, <1>6, <1>7, <1>8, <1>9, <1>10 DEF Next

\* Each part of a page that one statement of somebody else overlaps is what it
\* was before that statement or what it is after it, although verdict and rows
\* are read in up to a dozen statements: for any ids, texts and authors
\* (LoadWall, LoadPost, profile.Service.Get).
THEOREM PagesOfOneMoment == Spec => []PartsOfOneMoment
  <1>1. Init => MInv
    <2> SUFFICES ASSUME Init PROVE RowAsked /\ CommentsHang /\ Moment
      BY InitInv DEF MInv
    <2> QED BY DEF Init, Idle, RowAsked, CommentsHang, Moment, At
  <1>2. MInv => PartsOfOneMoment
    <2> SUFFICES ASSUME MInv, Made, writes <= 1 PROVE PartsOfOneMoment
      BY DEF PartsOfOneMoment
    <2>1. ~At("idle")
      BY DEF Made, At
    <2>2. PICK a \in World : BeganIn(a) /\ Seen({a, Now})
      BY <2>1 DEF MInv, Moment
    <2>3. /\ PageNow.posts = PostsIn(Now) /\ PageNow.comments = CommentsIn(Now)
          /\ PageNow.text = TextIn(Now)
      BY <2>1, PageIsPageIn DEF MInv
    <2>4. start.posts = PostsIn(a) /\ start.comments = CommentsIn(a) /\ start.text = TextIn(a)
      BY <2>2 DEF BeganIn
    <2>5. load.pc \notin WallCheck /\ load.pc \in {"show", "filter"}
      BY DEF Made, At, WallCheck
    <2>6. load.posts \in {start.posts, PageNow.posts}
      BY <2>2, <2>3, <2>4, <2>5 DEF Seen, WallSeen
    <2>7. load.posts # {} => load.comments \in {start.comments, PageNow.comments}
      <3> SUFFICES ASSUME load.posts # {} PROVE \E w \in {a, Now} : load.comments = CommentsIn(w)
        BY <2>3, <2>4
      <3>1. CASE load.page = "wall"
        <4>1. load.pc = "show"
          BY <2>5, <3>1 DEF MInv, IInv, PageAtStep
        <4> QED BY <2>2, <3>1, <4>1 DEF Seen, WallSeen, CommentsIn
      <3>2. CASE load.page = "post" /\ load.pc = "filter"
        <4>1. load.todo = {}
          BY <3>2 DEF Made, At
        <4>2. PICK b \in World : b = Now
          BY NowIsAWorld DEF MInv, IInv
        <4>3. OneApart(a, b)
          BY <2>2, <4>2 DEF BeganIn
        <4>4. FilterSeen({a, b})
          BY <2>2, <4>2 DEF Seen
        <4> QED BY <3>2, <4>1, <4>2, <4>3, <4>4, ThreadAtOnce DEF At
      <3>3. CASE load.page = "post" /\ load.pc = "show"
        BY <2>2, <3>3 DEF Seen, WallSeen
      <3> QED BY <2>1, <2>5, <3>1, <3>2, <3>3 DEF MInv, IInv, TypeOK, Load, PageAtStep, At
    <2>8. load.text \in {start.text, PageNow.text}
      <3>1. CASE load.pc = "show"
        BY <2>2, <2>3, <2>4, <3>1 DEF Seen, BioSeen
      <3>2. CASE load.pc = "filter"
        <4>1. load.text = NoText /\ load.page = "post"
          BY <3>2 DEF MInv, IInv, BioChecked, PageAtStep, At
        <4> QED BY <2>3, <4>1 DEF TextIn
      <3> QED BY <2>5, <3>1, <3>2
    <2> QED BY <2>6, <2>7, <2>8 DEF PartsOfOneMoment
  <1> QED BY <1>1, <1>2, NextMInv, PTL DEF Spec
=============================================================================
