------------------------------ MODULE NewsPage ------------------------------
(***************************************************************************)
(* news.Service.LoadFeed for one reader: a page is read by offset from a   *)
(* feed that the feed-builder changes between the statements of a page and *)
(* between two pages, and filtered by CanView, asked once for each wall    *)
(* owner on the page.  Whose walls the reader may see changes at any time: *)
(* friendships break without an event, so hidden_at may not know.          *)
(***************************************************************************)
EXTENDS Integers, Sequences, FiniteSets

CONSTANTS
    Owner,     \* wall owners
    Limit,     \* newsPageSize
    MaxRows    \* bound: rows the feed-builder ever inserts for the reader

ASSUME NewsPageAssumption == Limit \in Nat \ {0} /\ MaxRows \in Nat

Row == [id: 1..MaxRows, owner: Owner, hidden: BOOLEAN]

\* The local variables of LoadFeed: the rows of the page, whether there are
\* more, the owners still to ask about and those whose walls may be seen.
Load == [pc: {"idle", "ask"}, offset: Nat, raw: Seq(Row), hasNext: BOOLEAN,
         todo: SUBSET Owner, can: SUBSET Owner]
Idle == [pc |-> "idle", offset |-> 0, raw |-> << >>, hasNext |-> FALSE, todo |-> {}, can |-> {}]

VARIABLES
    feed,      \* the reader's rows of news_feed, newest first
    lastId,    \* rows inserted so far
    sees,      \* the owners whose walls CanView grants at the moment
    load,
    page,      \* what the reader has before him
    could,     \* auxiliary: the owners CanView granted at some moment of this load
    walk       \* auxiliary: a walk from the first page along the next links

aux == <<could, walk>>
vars == <<feed, lastId, sees, load, page, aux>>

NoPage == [offset |-> 0, rows |-> << >>, next |-> 0, could |-> {}]

\* owed: the rows visible ever since the walk began and not shown yet;
\* drift: a row went away in front of the offset the walk goes on from.
NoWalk == [on |-> FALSE, done |-> FALSE, drift |-> FALSE, owed |-> {}]

Init ==
    /\ feed = << >> /\ lastId = 0 /\ sees \in SUBSET Owner
    /\ load = Idle /\ page = NoPage
    /\ could = {} /\ walk = NoWalk

Elements(s) == {s[k] : k \in 1..Len(s)}

\* The elements of s at the positions in K, in their order.
Pick(s, K) ==
    [n \in 1..Cardinality(K) |-> s[CHOOSE k \in K : Cardinality({j \in K : j <= k}) = n]]

Visible == Pick(feed, {k \in 1..Len(feed) : ~feed[k].hidden})

\* How many visible rows the k-th row and those before it are.
Rank(k) == Cardinality({j \in 1..k : ~feed[j].hidden})

-----------------------------------------------------------------------------
(* LoadFeed *)

\* One row more than a page holds is read, to know whether there is a next one.
FetchOnePage == Limit                                \* a slip, for the mutants
Fetch == Limit + 1

Smaller(m, n) == IF m < n THEN m ELSE n

\* ListFeed: LIMIT, OFFSET over the rows not hidden.
ListFeed(offset) == SubSeq(Visible, offset + 1, Smaller(offset + Fetch, Len(Visible)))

NextPageOrMinus(l) == IF l.hasNext THEN l.offset + Len(l.raw) ELSE -1   \* a slip, for the mutants
NextPage(l) == IF l.hasNext THEN l.offset + Len(l.raw) ELSE 0

PrevPage == IF page.offset > Limit THEN page.offset - Limit ELSE 0

Read(offset) ==
    LET got == ListFeed(offset)
        raw == SubSeq(got, 1, Smaller(Limit, Len(got)))
    IN  /\ load.pc = "idle"
        /\ load' = [pc |-> "ask", offset |-> offset, raw |-> raw, hasNext |-> Len(got) > Limit,
                    todo |-> {r.owner : r \in Elements(raw)}, can |-> {}]
        /\ could' = sees
        /\ UNCHANGED <<feed, lastId, sees, page>>

\* The rows a walk that begins now has to show.
Owed == {r.id : r \in {q \in Elements(Visible) : q.owner \in sees}}

OpenFirst == Read(0) /\ walk' = [on |-> TRUE, done |-> FALSE, drift |-> FALSE, owed |-> Owed]
OpenNext == page.next # 0 /\ Read(page.next) /\ walk' = walk
OpenPrev == page.offset > 0 /\ Read(PrevPage) /\ walk' = NoWalk

\* CanView, for each owner once; its single reads are in module Newsfeed.
AskCanView(o) ==
    /\ load.pc = "ask" /\ o \in load.todo
    /\ load' = [load EXCEPT !.todo = @ \ {o}, !.can = @ \cup ({o} \cap sees)]
    /\ UNCHANGED <<feed, lastId, sees, page, aux>>

Unfiltered(l) == l.raw                               \* a slip, for the mutants
Views(l) == Pick(l.raw, {k \in 1..Len(l.raw) : l.raw[k].owner \in l.can})

Show ==
    /\ load.pc = "ask" /\ load.todo = {}
    /\ page' = [offset |-> load.offset, rows |-> Views(load), next |-> NextPage(load), could |-> could]
    /\ load' = Idle
    /\ walk' = [walk EXCEPT !.owed = @ \ {r.id : r \in Elements(Views(load))}, !.done = ~load.hasNext]
    /\ UNCHANGED <<feed, lastId, sees, could>>

\* A statement fails: an error page without links.
Fail ==
    /\ load.pc = "ask"
    /\ load' = Idle /\ page' = NoPage /\ walk' = NoWalk
    /\ UNCHANGED <<feed, lastId, sees, could>>

-----------------------------------------------------------------------------
(* The feed-builder and the other users meanwhile *)

\* feed.Insert: a row of a wall that CanView refused the reader comes hidden.
InsertRow(o, hidden) ==
    /\ lastId < MaxRows
    /\ lastId' = lastId + 1
    /\ feed' = <<[id |-> lastId + 1, owner |-> o, hidden |-> hidden]>> \o feed
    /\ UNCHANGED <<sees, load, page, aux>>

\* How far the walk has come: the offset its next page will start from.
Reached == IF load.pc = "ask" THEN load.offset + Len(load.raw) ELSE page.next

\* The k-th row leaves the sight of ListFeed.
Leaves(k) ==
    walk' = [walk EXCEPT !.owed = @ \ {feed[k].id},
               !.drift = @ \/ (~feed[k].hidden /\ Rank(k) <= Reached)]

DeleteRow(k) ==
    /\ feed' = SubSeq(feed, 1, k - 1) \o SubSeq(feed, k + 1, Len(feed))
    /\ Leaves(k)
    /\ UNCHANGED <<lastId, sees, load, page, could>>

\* HandleWallPrivacyChanged hides or shows the rows of one owner.
HideRows(o) ==
    /\ feed' = [k \in 1..Len(feed) |->
                  IF feed[k].owner = o THEN [feed[k] EXCEPT !.hidden = TRUE] ELSE feed[k]]
    /\ walk' = [walk EXCEPT !.owed = {i \in @ : \A r \in Elements(feed) : r.id = i => r.owner # o},
                  !.drift = @ \/ \E k \in 1..Len(feed) :
                               feed[k].owner = o /\ ~feed[k].hidden /\ Rank(k) <= Reached]
    /\ UNCHANGED <<lastId, sees, load, page, could>>

ShowRows(o) ==
    /\ feed' = [k \in 1..Len(feed) |->
                  IF feed[k].owner = o THEN [feed[k] EXCEPT !.hidden = FALSE] ELSE feed[k]]
    /\ UNCHANGED <<lastId, sees, load, page, aux>>

\* Bans, friendships or privacy change what CanView says of o.
Refuse(o) ==
    /\ o \in sees
    /\ sees' = sees \ {o}
    /\ walk' = [walk EXCEPT !.owed = {i \in @ : \A r \in Elements(feed) : r.id = i => r.owner # o}]
    /\ UNCHANGED <<feed, lastId, load, page, could>>

Grant(o) ==
    /\ o \notin sees
    /\ sees' = sees \cup {o}
    /\ could' = could \cup {o}
    /\ UNCHANGED <<feed, lastId, load, page, walk>>

-----------------------------------------------------------------------------

Next ==
    \/ OpenFirst \/ OpenNext \/ OpenPrev
    \/ Show \/ Fail
    \/ \E o \in Owner :
         \/ AskCanView(o) \/ HideRows(o) \/ ShowRows(o) \/ Refuse(o) \/ Grant(o)
         \/ \E hidden \in BOOLEAN : InsertRow(o, hidden)
    \/ \E k \in 1..Len(feed) : DeleteRow(k)

Spec == Init /\ [][Next]_vars

-----------------------------------------------------------------------------
(* Properties *)

TypeOK ==
    /\ feed \in Seq(Row) /\ lastId \in 0..MaxRows /\ sees \subseteq Owner
    /\ load \in Load /\ could \subseteq Owner
    /\ page.offset \in Nat /\ page.next \in Nat /\ page.rows \in Seq(Row)
    /\ walk.owed \subseteq 1..MaxRows

\* A page shows an entry of a wall only if CanView granted that wall at some
\* moment since the page was asked for: the page is the net under hidden_at,
\* which hears nothing of a friendship that breaks (LoadFeed, news/service.go:87).
ShowsOnlyViewable == \A r \in Elements(page.rows) : r.owner \in page.could

\* Who starts at the first page and follows the links to the last sees every
\* entry that was there, visible and permitted, all the time, although entries
\* arrive meanwhile; only one that goes away on a page already turned makes the
\* offsets skip (NextPage = offset + len(raw), news/service.go:163).
NothingSkipped == walk.on /\ walk.done /\ ~walk.drift => walk.owed = {}
=============================================================================
