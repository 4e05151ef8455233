--------------------------- MODULE NewsfeedProofs ---------------------------
(***************************************************************************)
(* TypeOK, NobodyReadsThemselves and BanSilence hold of FeedHistory for    *)
(* any number of users, items, requests, queued messages and outages.      *)
(***************************************************************************)
EXTENDS FeedHistory, SequenceTheorems, TLAPS

\* Steps of a fan-out at which the current recipient has passed both ban reads.
Passed == {"view", "viewRev", "scope", "areFriends", "insertShown", "insertHidden"}

\* What a fan-out of item i with local variables w has learnt: its candidates
\* are not the author, and bans of the item's shadow do not stand between the
\* author and those it has read the bans of.
Learnt(w, i) ==
    /\ i.author \notin w.todo
    /\ \A u \in w.out : u # i.author /\ Clear(u, i)
    /\ w.pc = "rev" => w.who # i.author /\ <<<<w.who, i.author>>, i>> \notin shadow
    /\ w.pc \in Passed => w.who # i.author /\ Clear(w.who, i)

\* Local variables the handler of topic t may have.
Sound(t, w) ==
    /\ w.pc # "idle" => queue[t] # << >>
    /\ w.pc \in Passed \cup {"rev"} => w.who \in User
    /\ w.pc \in {"load", "loadPost", "insertShown", "insertHidden"} => t \in Kind
    /\ w.pc = "list" => t # "ban"
    /\ w.pc # "idle" /\ t \in Kind => Learnt(w, Msg(t))

HandlersAreSound == \A t \in Topic : Sound(t, work[t])

\* An item that the sequences have given an id.
Known(i) == i.id <= lastId[i.kind]

ItemsAreKnown ==
    /\ \A i \in items : Known(i)
    /\ \A r \in feed : Known(r.item)
    /\ \A m \in outbox : m.topic \in Kind => Known(m.event)
    /\ \A t \in Kind : \A k \in 1..Len(queue[t]) : Known(queue[t][k])

ShadowOfBans == \A s \in shadow : s[1] \in bans

HTypeOK == TypeOK /\ shadow \in SUBSET ((User \X User) \X Item)

IInv == HTypeOK /\ ShadowOfBans /\ ItemsAreKnown /\ HandlersAreSound
          /\ NobodyReadsThemselves /\ BanSilence

-----------------------------------------------------------------------------

LEMMA EventTypes ==
  /\ \A t \in Kind : Event[t] = {i \in Item : i.kind = t}
  /\ Event["privacy"] = [owner: User]
  /\ Event["ban"] = [banner: User, banned: User]
  BY DEF Event, Topic, Kind

LEMMA InitInv == HInit => IInv
  <1> SUFFICES ASSUME HInit PROVE IInv
    OBVIOUS
  <1> USE DEF HInit, Init
  <1>1. Idle \in Worker
    BY DEF Idle, Worker, Step
  <1>2. InitItems \in SUBSET Item /\ InitFeed \in SUBSET Row
    BY StartAssumption DEF Row
  <1>3. HTypeOK
    BY <1>1, <1>2, StartAssumption, InputsAssumption DEF HTypeOK, TypeOK, Kind, Topic, At, Idle
  <1>4. ItemsAreKnown
    BY StartAssumption DEF ItemsAreKnown, Known, Kind, Topic, Item
  <1>5. HandlersAreSound
    BY DEF HandlersAreSound, Sound, Idle, Topic, Kind, Passed
  <1>6. NobodyReadsThemselves /\ BanSilence /\ ShadowOfBans
    BY StartAssumption DEF NobodyReadsThemselves, BanSilence, ShadowOfBans, Clear
  <1> QED BY <1>3, <1>4, <1>5, <1>6 DEF IInv

\* A ban's shadow falls on nothing that has an id already.
LEMMA ShadowStep ==
  ASSUME Shadowed
  PROVE  /\ \A s \in shadow' : s \in shadow \/ s[2] \in items' \ items
         /\ ShadowOfBans'
  BY DEF Shadowed, ShadowOfBans

-----------------------------------------------------------------------------
(* Steps of the worker *)

\* A step of a handler that changes no table but the feed, and that by rows
\* for users who are clear of the item: its local variables keep what it
\* learnt, and the other handlers and the bans' shadows stay as they are.
LEMMA HandlerInv ==
  ASSUME IInv, Shadowed, NEW t \in Topic, NEW w \in Worker,
         Set(t, w), UNCHANGED <<tables, requests, queue>>, outages' \in Nat,
         Sound(t, w),
         feed' \in SUBSET Row,
         \A r \in feed' : \/ \E s \in feed : s.user = r.user /\ s.item = r.item
                          \/ /\ r.item \in items
                             /\ r.user # r.item.author /\ Clear(r.user, r.item)
  PROVE  IInv'
  <1> USE DEF IInv
  <1>1. shadow' \subseteq shadow /\ ShadowOfBans'
    BY ShadowStep DEF tables
  <1>2. \A u, i : Clear(u, i) => Clear(u, i)'
    BY <1>1 DEF Clear
  <1>3. /\ work' \in [Topic -> Worker]
        /\ work'[t] = w
        /\ \A q \in Topic : q # t => work'[q] = work[q]
    BY DEF Set, HTypeOK, TypeOK
  <1>4. HTypeOK'
    <2>1. UNCHANGED <<items, lastId, friends, bans, privacy, drafts, teardowns, outbox, queue>>
      BY DEF tables, requests
    <2>2. \A q \in Topic : ~At(q, "idle")' => queue[q] # << >>
      BY <1>3 DEF HTypeOK, TypeOK, At, Sound
    <2>3. TypeOK'
      BY <1>3, <2>1, <2>2 DEF HTypeOK, TypeOK
    <2> QED BY <1>1, <2>3 DEF HTypeOK
  <1>5. ItemsAreKnown'
    BY DEF ItemsAreKnown, Known, tables, requests
  <1>6. HandlersAreSound'
    <2> SUFFICES ASSUME NEW q \in Topic PROVE Sound(q, work[q])'
      BY DEF HandlersAreSound
    <2>1. Msg(q)' = Msg(q) /\ queue' = queue
      BY DEF Msg
    <2>2. Sound(q, work'[q])
      BY <1>3 DEF HandlersAreSound
    <2> QED BY <1>1, <2>1, <2>2 DEF Sound, Learnt, Clear
  <1>7. NobodyReadsThemselves'
    BY DEF NobodyReadsThemselves
  <1>8. BanSilence'
    BY <1>2 DEF BanSilence
  <1> QED BY <1>1, <1>4, <1>5, <1>6, <1>7, <1>8

\* The special case of a handler that only reads.
LEMMA ReadInv ==
  ASSUME IInv, Shadowed, NEW t \in Topic, NEW w \in Worker,
         Set(t, w), Reads, Sound(t, w)
  PROVE  IInv'
  <1>1. feed' \in SUBSET Row /\ outages' \in Nat
    BY DEF Reads, IInv, HTypeOK, TypeOK
  <1> QED BY <1>1, HandlerInv DEF Reads

LEMMA IdleWorker == Idle \in Worker /\ \A t \in Topic : Sound(t, Idle)
  BY DEF Idle, Worker, Step, Sound, Passed

\* A handler at work: the type of its local variables and what it has learnt.
LEMMA AtWork ==
  ASSUME IInv, NEW t \in Topic, ~At(t, "idle")
  PROVE  /\ queue[t] # << >> /\ Msg(t) \in Event[t]
         /\ work[t] \in Worker /\ Sound(t, work[t])
         /\ t \in Kind => Learnt(work[t], Msg(t))
         /\ t \in Kind => Msg(t) \in Item /\ Msg(t).kind = t /\ Known(Msg(t))
  <1>1. queue[t] # << >> /\ work[t] \in Worker /\ queue[t] \in Seq(Event[t])
    BY DEF IInv, HTypeOK, TypeOK
  <1>2. Msg(t) \in Event[t] /\ Len(queue[t]) \in Nat \ {0} /\ Msg(t) = queue[t][1]
    BY <1>1 DEF Msg
  <1> QED BY <1>1, <1>2, EventTypes DEF IInv, HandlersAreSound, Sound, At, ItemsAreKnown

LEMMA BanReadInv ==
  ASSUME IInv, Shadowed, NEW t \in Topic,
         (\E u \in User : CheckBan(t, u)) \/ CheckBanReverse(t)
  PROVE  IInv'
  <1>1. CASE \E u \in User : CheckBan(t, u)
    <2> PICK u \in User : CheckBan(t, u)
      BY <1>1
    <2>1. ~At(t, "idle") /\ t \in Kind
      BY DEF CheckBan, At
    <2> DEFINE i == Msg(t)
               v == [work[t] EXCEPT !.todo = @ \ {u}]
               w == [work[t] EXCEPT !.todo = @ \ {u}, !.pc = "rev", !.who = u]
    <2>2. /\ queue[t] # << >> /\ work[t] \in Worker /\ Learnt(work[t], i)
      BY <2>1, AtWork
    <2>3. v \in Worker /\ w \in Worker
      BY <2>2 DEF Worker, Step
    <2>4. Learnt(v, i)
      BY <2>2 DEF Learnt, CheckBan, At, Passed, Worker
    <2>5. ASSUME ~IsBanned(bans, u, i.author) PROVE Learnt(w, i)
      <3>1. u # i.author /\ <<u, i.author>> \notin bans
        BY <2>2, <2>5 DEF IsBanned, Learnt, CheckBan
      <3>2. <<<<u, i.author>>, i>> \notin shadow
        BY <3>1 DEF IInv, ShadowOfBans
      <3> QED BY <2>2, <3>1, <3>2 DEF Learnt, Passed, Worker
    <2>6. /\ v.pc = "loop" /\ w.pc = "rev" /\ w.who = u
      BY <2>2 DEF Worker, CheckBan, At
    <2>7. Sound(t, v) /\ (~IsBanned(bans, u, i.author) => Sound(t, w))
      BY <2>2, <2>4, <2>5, <2>6 DEF Sound, Passed
    <2> QED BY <2>2, <2>3, <2>7, ReadInv DEF CheckBan
  <1>2. CASE CheckBanReverse(t)
    <2> DEFINE i == Msg(t)
               u == work[t].who
               skip == [work[t] EXCEPT !.pc = "loop", !.who = NoUser]
               keep == [work[t] EXCEPT !.pc = "loop", !.who = NoUser, !.out = @ \cup {u}]
               view == [work[t] EXCEPT !.pc = "view"]
    <2>1. ~At(t, "idle") /\ work[t].pc = "rev"
      BY <1>2 DEF CheckBanReverse, At
    <2>2. queue[t] # << >> /\ work[t] \in Worker /\ (t \in Kind => Learnt(work[t], i)) /\ u \in User
      BY <2>1, AtWork DEF Sound
    <2>3. skip \in Worker /\ view \in Worker /\ keep \in Worker
      BY <2>2 DEF Worker, Step
    <2>4. t \in Kind => Learnt(skip, i)
      BY <2>2 DEF Learnt, Passed, Worker
    <2>5. ASSUME t \in Kind, ~HasBanned(i, u) PROVE Learnt(keep, i) /\ Learnt(view, i)
      <3>1. <<i.author, u>> \notin bans /\ u # i.author
        BY <2>1, <2>2, <2>5 DEF HasBanned, IsBanned, Learnt
      <3>2. Clear(u, i)
        BY <2>1, <2>2, <2>5, <3>1 DEF Clear, Learnt, IInv, ShadowOfBans
      <3>4. /\ keep.pc = "loop" /\ keep.todo = work[t].todo /\ keep.out = work[t].out \cup {u}
            /\ view.pc = "view" /\ view.todo = work[t].todo /\ view.out = work[t].out /\ view.who = u
        BY <2>2 DEF Worker
      <3>5. Learnt(keep, i)
        BY <2>2, <2>5, <3>1, <3>2, <3>4 DEF Learnt, Passed
      <3>6. Learnt(view, i)
        BY <2>2, <2>5, <3>1, <3>2, <3>4 DEF Learnt, Passed
      <3> QED BY <3>5, <3>6
    <2>6. t = "post" => t \in Kind
      BY DEF Kind
    <2>7. /\ Reads
          /\ \/ Set(t, skip)
             \/ Set(t, keep) /\ t = "post" /\ ~HasBanned(i, u)
             \/ Set(t, view) /\ ~HasBanned(i, u)
      BY <1>2 DEF CheckBanReverse
    <2>8. skip.pc = "loop" /\ keep.pc = "loop" /\ view.pc = "view" /\ view.who = u
      BY <2>2 DEF Worker
    <2>9. /\ Sound(t, skip)
          /\ t = "post" /\ ~HasBanned(i, u) => Sound(t, keep)
          /\ ~HasBanned(i, u) => Sound(t, view)
      BY <2>2, <2>4, <2>5, <2>6, <2>8 DEF Sound, Passed
    <2> HIDE DEF i, u, skip, keep, view
    <2> QED BY <2>3, <2>7, <2>9, ReadInv
  <1> QED BY <1>1, <1>2

\* What is left of a fan-out's knowledge when it moves on within an item.
LEMMA LearntMonotone ==
  ASSUME NEW i, NEW w, NEW v, Learnt(w, i),
         v.todo \subseteq w.todo, v.out \subseteq w.out,
         v.pc \notin Passed \cup {"rev"} \/ (v.pc \in Passed /\ w.pc \in Passed /\ v.who = w.who)
  PROVE  Learnt(v, i)
  BY DEF Learnt, Passed

\* CanView's verdict keeps the type of a handler's local variables and, in a
\* fan-out, everything it has learnt.
LEMMA DecideStep ==
  ASSUME NEW t \in Topic, NEW w \in Worker, Sound(t, [w EXCEPT !.pc = "viewRev"]), NEW ok \in BOOLEAN
  PROVE  Decide(t, w, ok) \in Worker /\ Sound(t, Decide(t, w, ok))
  <1> DEFINE x == [w EXCEPT !.pc = "viewRev"]
  <1>1. /\ x.pc = "viewRev" /\ x.todo = w.todo /\ x.out = w.out /\ x.who = w.who
        /\ w.who \in User
    BY DEF Worker, Sound, Passed
  <1>2. CASE t \in Kind
    <2> DEFINE v == [w EXCEPT !.pc = IF ok THEN "insertShown" ELSE "insertHidden"]
    <2>1. Decide(t, w, ok) = v
      BY <1>2 DEF Decide
    <2>2. v \in Worker /\ v.pc \in {"insertShown", "insertHidden"}
          /\ v.todo = w.todo /\ v.out = w.out /\ v.who = w.who
      BY DEF Worker, Step
    <2>3. Learnt(x, Msg(t)) /\ queue[t] # << >>
      BY <1>1, <1>2 DEF Sound
    <2>4. Learnt(v, Msg(t))
      BY <1>1, <2>2, <2>3, LearntMonotone DEF Passed
    <2> QED BY <1>1, <1>2, <2>1, <2>2, <2>3, <2>4 DEF Sound
  <1>3. CASE t \notin Kind
    <2>1. queue[t] # << >>
      BY <1>1 DEF Sound
    <2> QED BY <1>1, <1>3, <2>1 DEF Decide, Worker, Step, Sound, Passed
  <1> QED BY <1>2, <1>3

LEMMA ViewInv ==
  ASSUME IInv, Shadowed, NEW t \in Topic,
         (\E u \in User : StartView(t, u)) \/ ViewReverse(t) \/ ReadScope(t) \/ ReadFriends(t)
  PROVE  IInv'
  <1>1. CASE \E u \in User : StartView(t, u)
    <2> PICK u \in User : StartView(t, u)
      BY <1>1
    <2> DEFINE w == [work[t] EXCEPT !.todo = @ \ {u}, !.out = @ \ {u}, !.who = u]
               x == [w EXCEPT !.pc = "viewRev"]
    <2>1. ~At(t, "idle") /\ u \in Viewing(t)
      BY DEF StartView, Viewing, At
    <2>2. queue[t] # << >> /\ work[t] \in Worker /\ Sound(t, work[t])
      BY <2>1, AtWork
    <2>3. /\ w \in Worker /\ x \in Worker
          /\ x.pc = "viewRev" /\ x.todo \subseteq work[t].todo /\ x.out \subseteq work[t].out
          /\ x.who = u
      BY <2>2 DEF Worker, Step
    <2>4. t \in Kind => u # Msg(t).author /\ Clear(u, Msg(t))
      BY <2>1, <2>2 DEF Viewing, At, Sound, Learnt, Passed, Kind
    <2>5. Sound(t, x)
      BY <2>1, <2>2, <2>3, <2>4 DEF Sound, Learnt, Passed, At
    <2>6. \A ok \in BOOLEAN : Decide(t, w, ok) \in Worker /\ Sound(t, Decide(t, w, ok))
      BY <2>3, <2>5, DecideStep
    <2>7. /\ Reads
          /\ \/ Set(t, Decide(t, w, TRUE)) \/ Set(t, Decide(t, w, FALSE)) \/ Set(t, x)
      BY DEF StartView
    <2> HIDE DEF w, x
    <2> QED BY <2>3, <2>5, <2>6, <2>7, ReadInv
  <1>2. CASE ViewReverse(t) \/ ReadScope(t) \/ ReadFriends(t)
    <2> DEFINE w == work[t]
               Moved(pc) == [work[t] EXCEPT !.pc = pc]
    <2>1. w.pc \in Passed /\ ~At(t, "idle")
      BY <1>2 DEF ViewReverse, ReadScope, ReadFriends, At, Passed
    <2>2. queue[t] # << >> /\ w \in Worker /\ Sound(t, w)
      BY <2>1, AtWork
    <2>3. ASSUME NEW pc \in {"viewRev", "scope", "areFriends"}
          PROVE  Moved(pc) \in Worker /\ Sound(t, Moved(pc))
      <3>1. /\ Moved(pc).pc = pc /\ Moved(pc).todo = w.todo /\ Moved(pc).out = w.out
            /\ Moved(pc).who = w.who /\ Moved(pc) \in Worker
        BY <2>2 DEF Worker, Step
      <3>2. t \in Kind => Learnt(Moved(pc), Msg(t))
        BY <2>1, <2>2, <3>1, LearntMonotone DEF Sound, Passed
      <3> QED BY <2>1, <2>2, <3>1, <3>2 DEF Sound, Passed
    <2>4. \A ok \in BOOLEAN : Decide(t, w, ok) \in Worker /\ Sound(t, Decide(t, w, ok))
      BY <2>2, <2>3, DecideStep
    <2>5. /\ Reads
          /\ \/ \E ok \in BOOLEAN : Set(t, Decide(t, w, ok))
             \/ Set(t, Moved("scope")) \/ Set(t, Moved("areFriends"))
      <3>1. (privacy[Msg(t).owner]["view"] = "public") \in BOOLEAN
            /\ ({w.who, Msg(t).owner} \in friends) \in BOOLEAN
        OBVIOUS
      <3> QED BY <1>2, <3>1 DEF ViewReverse, ReadScope, ReadFriends
    <2> HIDE DEF w, Moved
    <2> QED BY <2>3, <2>4, <2>5, ReadInv
  <1> QED BY <1>1, <1>2

LEMMA LoadInv ==
  ASSUME IInv, Shadowed, NEW t \in Topic, Deliver(t) \/ Load(t) \/ LoadPost(t)
  PROVE  IInv'
  <1> DEFINE Moved(pc) == [work[t] EXCEPT !.pc = pc]
  <1>1. CASE Deliver(t)
    <2> DEFINE Fresh(pc) == [Idle EXCEPT !.pc = pc]
    <2>1. PICK pc \in {"load", "list", "purge"} :
            /\ Set(t, Fresh(pc)) /\ Reads
            /\ pc = "load" => t \in Kind
            /\ pc = "list" => t # "ban"
      BY <1>1 DEF Deliver, Topic, Kind
    <2>2. queue[t] # << >>
      BY <1>1 DEF Deliver, Ready
    <2>3. Fresh(pc) \in Worker /\ Fresh(pc).pc = pc /\ Fresh(pc).todo = {} /\ Fresh(pc).out = {}
      BY DEF Idle, Worker, Step
    <2>4. Sound(t, Fresh(pc))
      BY <2>1, <2>2, <2>3 DEF Sound, Learnt, Passed
    <2> HIDE DEF Fresh
    <2> QED BY <2>1, <2>3, <2>4, ReadInv
  <1>2. CASE Load(t) \/ LoadPost(t)
    <2>1. ~At(t, "idle") /\ work[t].pc \in {"load", "loadPost"}
      BY <1>2 DEF Load, LoadPost, At
    <2>2. queue[t] # << >> /\ work[t] \in Worker /\ Sound(t, work[t])
      BY <2>1, AtWork
    <2>3. t \in Kind /\ t # "ban"
      BY <2>1, <2>2 DEF Sound, Kind
    <2>4. ASSUME NEW pc \in {"list", "loadPost"}
          PROVE  Moved(pc) \in Worker /\ Sound(t, Moved(pc))
      <3>1. /\ Moved(pc).pc = pc /\ Moved(pc).todo = work[t].todo /\ Moved(pc).out = work[t].out
            /\ Moved(pc) \in Worker
        BY <2>2 DEF Worker, Step
      <3>2. Learnt(Moved(pc), Msg(t))
        BY <2>1, <2>2, <2>3, <3>1, LearntMonotone DEF Sound, Passed
      <3> QED BY <2>2, <2>3, <3>1, <3>2 DEF Sound, Passed
    <2>5. /\ Reads
          /\ Set(t, Idle) \/ Set(t, Moved("list")) \/ Set(t, Moved("loadPost"))
      BY <1>2 DEF Load, LoadPost
    <2> HIDE DEF Moved
    <2> QED BY <2>4, <2>5, IdleWorker, ReadInv
  <1> QED BY <1>1, <1>2

\* Whom a fan-out considers: users, and never the author.
LEMMA Audiences ==
  ASSUME HTypeOK
  PROVE  /\ \A i \in Item : PostAudience(i) \subseteq User \ {i.author}
         /\ \A i \in Item : CommentAudience(i) \subseteq User \ {i.author}
         /\ \A u \in User : ViewersOf(u) \subseteq User
  <1>1. items \subseteq Item /\ feed \subseteq Row
    BY DEF HTypeOK, TypeOK
  <1>2. \A i \in Item : PostAudience(i) \subseteq User \ {i.author}
    BY DEF PostAudience, FriendsOf, Item
  <1>3. \A i \in Item : Commenters(i) \subseteq User
    BY <1>1 DEF Commenters, Item
  <1>4. \A i \in Item : CommentAudience(i) \subseteq User \ {i.author}
    BY <1>3 DEF CommentAudience, Item
  <1> QED BY <1>1, <1>2, <1>4 DEF ViewersOf, Row

LEMMA ListInv ==
  ASSUME IInv, Shadowed, NEW t \in Topic, List(t)
  PROVE  IInv'
  <1> DEFINE users == CASE t = "post"    -> PostAudience(Msg(t))
                        [] t = "comment" -> CommentAudience(Msg(t))
                        [] t = "privacy" -> ViewersOf(Msg(t).owner)
             w == [work[t] EXCEPT !.pc = "loop", !.todo = users]
  <1>1. ~At(t, "idle") /\ work[t].pc = "list"
    BY DEF List, At
  <1>2. /\ queue[t] # << >> /\ work[t] \in Worker /\ Sound(t, work[t]) /\ Msg(t) \in Event[t]
        /\ t \in Kind => Msg(t) \in Item /\ Learnt(work[t], Msg(t))
    BY <1>1, AtWork
  <1>3. t # "ban"
    BY <1>1, <1>2 DEF Sound
  <1>4. users \subseteq User /\ (t \in Kind => Msg(t).author \notin users)
    <2>1. HTypeOK
      BY DEF IInv
    <2>2. CASE t = "post"
      <3>1. users = PostAudience(Msg(t)) /\ t \in Kind
        BY <2>2 DEF Kind
      <3> QED BY <1>2, <2>1, <3>1, Audiences
    <2>3. CASE t = "comment"
      <3>1. users = CommentAudience(Msg(t)) /\ t \in Kind
        BY <2>3 DEF Kind
      <3> QED BY <1>2, <2>1, <3>1, Audiences
    <2>4. CASE t = "privacy"
      <3>1. users = ViewersOf(Msg(t).owner) /\ t \notin Kind
        BY <2>4 DEF Kind
      <3>2. Msg(t).owner \in User
        BY <1>2, <2>4, EventTypes
      <3> QED BY <2>1, <3>1, <3>2, Audiences
    <2> QED BY <1>3, <2>2, <2>3, <2>4 DEF Topic, Kind
  <1> HIDE DEF users
  <1>5. w \in Worker /\ w.pc = "loop" /\ w.todo = users /\ w.out = work[t].out
    BY <1>2, <1>4 DEF Worker, Step
  <1>6. Sound(t, w)
    BY <1>1, <1>2, <1>4, <1>5 DEF Sound, Learnt, Passed
  <1>7. Set(t, w) /\ Reads
    BY DEF List, users
  <1> HIDE DEF w
  <1> QED BY <1>5, <1>6, <1>7, ReadInv

LEMMA InsertRowInv ==
  ASSUME IInv, Shadowed, NEW t \in Topic, InsertRow(t)
  PROVE  IInv'
  <1> DEFINE u == work[t].who
             row == [user |-> u, item |-> Msg(t), hidden |-> At(t, "insertHidden")]
  <1>1. ~At(t, "idle") /\ work[t].pc \in {"insertShown", "insertHidden"}
    BY DEF InsertRow, At
  <1>2. /\ queue[t] # << >> /\ work[t] \in Worker /\ Sound(t, work[t])
        /\ t \in Kind => Msg(t) \in Item
    BY <1>1, AtWork
  <1>3. /\ t \in Kind /\ u \in User /\ u # Msg(t).author /\ Clear(u, Msg(t))
        /\ Learnt(work[t], Msg(t))
    BY <1>1, <1>2 DEF Sound, Learnt, Passed
  <1>4. row \in Row /\ row.user = u /\ row.item = Msg(t)
    BY <1>2, <1>3 DEF Row, At
  <1>5. NextUser(t) \in Worker /\ Sound(t, NextUser(t))
    <2>1. /\ NextUser(t) \in Worker /\ NextUser(t).pc = "loop"
          /\ NextUser(t).todo = work[t].todo /\ NextUser(t).out = work[t].out
      BY <1>2 DEF NextUser, Worker, Step
    <2> QED BY <1>2, <1>3, <2>1 DEF Sound, Learnt, Passed
  <1>6. /\ Set(t, NextUser(t)) \/ Set(t, Idle)
        /\ feed' = feed \/ (Msg(t) \in items /\ feed' = feed \cup {row})
        /\ UNCHANGED <<tables, requests, queue, outages>>
    BY DEF InsertRow, OnConflict
  <1>7. feed \in SUBSET Row /\ outages \in Nat
    BY DEF IInv, HTypeOK, TypeOK
  <1> HIDE DEF row, u
  <1>8. /\ feed' \in SUBSET Row
        /\ \A r \in feed' : \/ \E s \in feed : s.user = r.user /\ s.item = r.item
                            \/ /\ r.item \in items
                               /\ r.user # r.item.author /\ Clear(r.user, r.item)
    BY <1>3, <1>4, <1>6, <1>7
  <1> QED BY <1>5, <1>6, <1>7, <1>8, IdleWorker, HandlerInv

LEMMA UpdateInv ==
  ASSUME IInv, Shadowed, NEW t \in Topic,
         SetHidden(t) \/ SetVisible(t) \/ PurgeBan(t) \/ Interrupt(t)
  PROVE  IInv'
  <1>1. feed \in SUBSET Row /\ outages \in Nat
    BY DEF IInv, HTypeOK, TypeOK
  <1>2. CASE SetHidden(t) \/ SetVisible(t)
    <2>1. t \notin Kind /\ ~At(t, "idle") /\ work[t].pc = "loop"
      BY <1>2 DEF SetHidden, SetVisible, Kind, At
    <2>2. queue[t] # << >> /\ work[t] \in Worker
      BY <2>1, AtWork
    <2>3. PICK w \in {[work[t] EXCEPT !.hid = {}], [work[t] EXCEPT !.out = {}]} :
            Set(t, w) /\ UNCHANGED <<tables, requests, queue, outages>>
      BY <1>2 DEF SetHidden, SetVisible
    <2>4. w \in Worker /\ w.pc = "loop"
      BY <2>1, <2>2 DEF Worker
    <2>5. Sound(t, w)
      BY <2>1, <2>2, <2>4 DEF Sound, Passed
    <2>6. PICK users \in SUBSET User, hidden \in BOOLEAN :
            feed' = Refresh(Msg(t).owner, users, hidden)
      BY <1>2, <2>2 DEF SetHidden, SetVisible, Worker
    <2>7. ASSUME NEW r \in feed'
          PROVE  r \in Row /\ \E s \in feed : s.user = r.user /\ s.item = r.item
      <3>1. PICK s \in feed : r = s \/ r = [s EXCEPT !.hidden = hidden]
        BY <2>6 DEF Refresh
      <3> QED BY <1>1, <3>1 DEF Row
    <2> QED BY <1>1, <2>3, <2>4, <2>5, <2>7, HandlerInv
  <1>3. CASE PurgeBan(t)
    <2> DEFINE w == [work[t] EXCEPT !.pc = "loop"]
    <2>1. ~At(t, "idle") /\ work[t].pc = "purge"
      BY <1>3 DEF PurgeBan, At
    <2>2. queue[t] # << >> /\ work[t] \in Worker /\ Sound(t, work[t])
      BY <2>1, AtWork
    <2>3. w \in Worker /\ w.pc = "loop" /\ w.todo = work[t].todo /\ w.out = work[t].out
      BY <2>2 DEF Worker, Step
    <2>4. Sound(t, w)
      BY <2>1, <2>2, <2>3 DEF Sound, Learnt, Passed
    <2>5. Set(t, w) /\ feed' \subseteq feed /\ UNCHANGED <<tables, requests, queue, outages>>
      BY <1>3 DEF PurgeBan
    <2> HIDE DEF w
    <2> QED BY <1>1, <2>3, <2>4, <2>5, HandlerInv
  <1>4. CASE Interrupt(t)
    <2>1. Set(t, Idle) /\ UNCHANGED <<tables, feed, requests, queue>> /\ outages' = outages + 1
      BY <1>4 DEF Interrupt, Requeued
    <2>2. outages' \in Nat /\ feed' = feed
      BY <1>1, <2>1
    <2>3. UNCHANGED <<tables, requests, queue>>
      BY <2>1
    <2> QED BY <1>1, <2>1, <2>2, <2>3, IdleWorker, HandlerInv
  <1> QED BY <1>2, <1>3, <1>4

LEMMA AckInv ==
  ASSUME IInv, Shadowed, NEW t \in Topic, Ack(t)
  PROVE  IInv'
  <1>1. ~At(t, "idle")
    BY DEF Ack, At
  <1>2. queue[t] # << >>
    BY <1>1, AtWork
  <1>3. UNCHANGED <<items, lastId, friends, bans, privacy, feed, drafts, teardowns, outbox, outages>>
    BY DEF Ack, tables, requests
  <1>4. shadow' \subseteq shadow /\ ShadowOfBans'
    BY <1>3, ShadowStep
  <1>5. /\ queue' = [q \in Topic |-> queue'[q]]
        /\ queue'[t] = Tail(queue[t])
        /\ \A q \in Topic : q # t => queue'[q] = queue[q]
    BY DEF Ack, IInv, HTypeOK, TypeOK
  <1>6. /\ work' \in [Topic -> Worker]
        /\ work'[t] = Idle
        /\ \A q \in Topic : q # t => work'[q] = work[q]
    BY IdleWorker DEF Ack, Set, IInv, HTypeOK, TypeOK
  <1>7. HTypeOK'
    <2>1. ASSUME NEW q \in Topic PROVE queue'[q] \in Seq(Event[q])
      <3>1. queue[q] \in Seq(Event[q])
        BY DEF IInv, HTypeOK, TypeOK
      <3>2. queue[q] # << >> => Tail(queue[q]) \in Seq(Event[q])
        BY <3>1, HeadTailProperties
      <3> QED BY <1>2, <1>5, <3>1, <3>2
    <2>2. \A q \in Topic : ~At(q, "idle")' => queue'[q] # << >>
      BY <1>5, <1>6 DEF IInv, HTypeOK, TypeOK, At, Idle
    <2> QED BY <1>3, <1>4, <1>5, <1>6, <2>1, <2>2 DEF IInv, HTypeOK, TypeOK
  <1>8. ItemsAreKnown'
    <2>1. ASSUME NEW q \in Kind, NEW k \in 1..Len(queue'[q]) PROVE Known(queue'[q][k])
      <3>1. q \in Topic
        BY DEF Topic
      <3>2. CASE q = t
        <4>1. /\ Len(queue'[q]) = Len(queue[q]) - 1 /\ queue'[q][k] = queue[q][k + 1]
              /\ k + 1 \in 1..Len(queue[q])
          BY <1>2, <1>5, <2>1, <3>1, <3>2 DEF IInv, HTypeOK, TypeOK
        <4> QED BY <4>1 DEF IInv, ItemsAreKnown
      <3>3. CASE q # t
        BY <1>5, <2>1, <3>1, <3>3 DEF IInv, ItemsAreKnown
      <3> QED BY <3>2, <3>3
    <2> QED BY <1>3, <2>1 DEF IInv, ItemsAreKnown, Known
  <1>9. HandlersAreSound'
    <2> SUFFICES ASSUME NEW q \in Topic PROVE Sound(q, work[q])'
      BY DEF HandlersAreSound
    <2>1. CASE q = t
      BY <1>6, <2>1 DEF Sound, Idle, Passed
    <2>2. CASE q # t
      BY <1>4, <1>5, <1>6, <2>2 DEF IInv, HandlersAreSound, Sound, Learnt, Clear, Msg
    <2> QED BY <2>1, <2>2
  <1>10. NobodyReadsThemselves' /\ BanSilence'
    BY <1>3, <1>4 DEF IInv, NobodyReadsThemselves, BanSilence, Clear
  <1> QED BY <1>4, <1>7, <1>8, <1>9, <1>10 DEF IInv

-----------------------------------------------------------------------------
(* Steps of the web server *)

\* A statement of the web server that leaves the feed, the queues and the
\* worker alone.  Whatever ban it writes, no item changes, so no shadow grows.
LEMMA StatementInv ==
  ASSUME IInv, Shadowed,
         UNCHANGED <<items, lastId, feed, queue, work, outages>>,
         friends' \in SUBSET {{x, y} : x, y \in User},
         bans' \in SUBSET (User \X User),
         privacy' \in [User -> Privacy],
         drafts' \in SUBSET Draft,
         teardowns' \in SUBSET (User \X User),
         \A m \in outbox' : m \in outbox \/ \E u, v \in User :
            \/ m = [topic |-> "privacy", event |-> [owner |-> u]]
            \/ m = [topic |-> "ban", event |-> [banner |-> u, banned |-> v]]
  PROVE  IInv'
  <1>1. shadow' \subseteq shadow /\ ShadowOfBans'
    BY ShadowStep
  <1>2. ASSUME NEW m \in outbox'
        PROVE  /\ m.topic \in Topic /\ m.event \in Event[m.topic]
               /\ m \in outbox \/ m.topic \notin Kind
    <2>1. CASE m \in outbox
      BY <2>1 DEF IInv, HTypeOK, TypeOK
    <2>2. ASSUME NEW u \in User, m = [topic |-> "privacy", event |-> [owner |-> u]]
          PROVE  m.topic = "privacy" /\ m.event \in Event["privacy"]
      BY <2>2, EventTypes
    <2>3. ASSUME NEW u \in User, NEW v \in User,
                 m = [topic |-> "ban", event |-> [banner |-> u, banned |-> v]]
          PROVE  m.topic = "ban" /\ m.event \in Event["ban"]
      BY <2>3, EventTypes
    <2> QED BY <2>1, <2>2, <2>3 DEF Topic, Kind
  <1>3. HTypeOK'
    BY <1>1, <1>2 DEF IInv, HTypeOK, TypeOK, At
  <1>4. ItemsAreKnown'
    BY <1>2 DEF IInv, ItemsAreKnown, Known
  <1>5. HandlersAreSound'
    <2>1. \A q \in Topic : Sound(q, work[q]) /\ work' = work /\ queue' = queue
      BY DEF IInv, HandlersAreSound
    <2> QED BY <1>1, <2>1 DEF HandlersAreSound, Sound, Learnt, Clear, Msg
  <1>6. NobodyReadsThemselves' /\ BanSilence'
    BY <1>1 DEF IInv, NobodyReadsThemselves, BanSilence, Clear
  <1> QED BY <1>1, <1>3, <1>4, <1>5, <1>6 DEF IInv

\* The requests that touch neither a post nor a comment already written.
LEMMA RequestInv ==
  ASSUME IInv, Shadowed,
         \/ \E p \in PostInputs : StartPost(p[1], p[2])
         \/ \E a \in CommentInputs, p \in items : StartComment(a, p)
         \/ \E d \in drafts : InsertRefused(d)
         \/ \E p \in BanInputs : StartBan(p[1], p[2]) \/ Unban(p[1], p[2])
         \/ \E p \in teardowns : InsertBan(p[1], p[2])
         \/ \E p \in FriendInputs : AddFriendship(p) \/ RemoveFriendship(p)
         \/ \E p \in PrivacyInputs : UpdatePrivacy(p[1], p[2])
         \/ AbandonRequest
  PROVE  IInv'
  <1>0. /\ items \in SUBSET Item /\ friends \in SUBSET {{x, y} : x, y \in User}
        /\ bans \in SUBSET (User \X User) /\ privacy \in [User -> Privacy]
        /\ drafts \in SUBSET Draft /\ teardowns \in SUBSET (User \X User)
    BY DEF IInv, HTypeOK, TypeOK
  <1> USE <1>0 DEF tables, requests
  <1>1. ASSUME NEW p \in PostInputs, StartPost(p[1], p[2]) PROVE IInv'
    <2>1. p[1] \in User /\ p[2] \in User
      BY InputsAssumption
    <2>2. [kind |-> "post", post |-> 0, poster |-> p[1], owner |-> p[2], author |-> p[1]] \in Draft
      BY <2>1 DEF Draft, Kind
    <2>3. drafts' \in SUBSET Draft
      BY <1>1, <2>2 DEF StartPost
    <2> QED BY <1>1, <2>3, StatementInv DEF StartPost
  <1>2. ASSUME NEW a \in CommentInputs, NEW p \in items, StartComment(a, p) PROVE IInv'
    <2>1. a \in User /\ p.id \in Nat /\ p.author \in User /\ p.owner \in User
      BY InputsAssumption DEF Item
    <2>2. [kind |-> "comment", post |-> p.id, poster |-> p.author, owner |-> p.owner, author |-> a]
            \in Draft
      BY <2>1 DEF Draft, Kind
    <2>3. drafts' \in SUBSET Draft
      BY <1>2, <2>2 DEF StartComment
    <2> QED BY <1>2, <2>3, StatementInv DEF StartComment
  <1>3. ASSUME NEW d \in drafts, InsertRefused(d) PROVE IInv'
    BY <1>3, StatementInv DEF InsertRefused
  <1>4. ASSUME NEW p \in BanInputs, StartBan(p[1], p[2]) PROVE IInv'
    <2>1. <<p[1], p[2]>> \in User \X User
      BY InputsAssumption
    <2> QED BY <1>4, <2>1, StatementInv DEF StartBan
  <1>5. ASSUME NEW p \in BanInputs, Unban(p[1], p[2]) PROVE IInv'
    BY <1>5, StatementInv DEF Unban
  <1>6. ASSUME NEW p \in teardowns, InsertBan(p[1], p[2]) PROVE IInv'
    <2>1. p[1] \in User /\ p[2] \in User /\ <<p[1], p[2]>> \in User \X User
      OBVIOUS
    <2>2. bans' \in SUBSET (User \X User) /\ teardowns' \in SUBSET (User \X User)
      BY <1>6, <2>1 DEF InsertBan
    <2>3. \A m \in outbox' : m \in outbox
                \/ m = [topic |-> "ban", event |-> [banner |-> p[1], banned |-> p[2]]]
      BY <1>6 DEF InsertBan
    <2> QED BY <1>6, <2>1, <2>2, <2>3, StatementInv DEF InsertBan
  <1>7. ASSUME NEW p \in FriendInputs, AddFriendship(p) \/ RemoveFriendship(p) PROVE IInv'
    <2>1. friends' \in SUBSET {{x, y} : x, y \in User}
      BY <1>7, InputsAssumption DEF AddFriendship, RemoveFriendship
    <2> QED BY <1>7, <2>1, StatementInv DEF AddFriendship, RemoveFriendship
  <1>8. ASSUME NEW p \in PrivacyInputs, UpdatePrivacy(p[1], p[2]) PROVE IInv'
    <2>1. p[1] \in User /\ p[2] \in Privacy
      BY InputsAssumption
    <2>2. privacy' \in [User -> Privacy]
      BY <1>8, <2>1 DEF UpdatePrivacy
    <2>3. \A m \in outbox' : m \in outbox \/ m = [topic |-> "privacy", event |-> [owner |-> p[1]]]
      BY <1>8 DEF UpdatePrivacy
    <2> QED BY <1>8, <2>1, <2>2, <2>3, StatementInv DEF UpdatePrivacy
  <1>9. ASSUME AbandonRequest PROVE IInv'
    <2>1. drafts' \subseteq drafts /\ teardowns' \subseteq teardowns /\ outbox' \subseteq outbox
      BY <1>9 DEF AbandonRequest
    <2> QED BY <1>9, <2>1, StatementInv DEF AbandonRequest
  <1> QED BY <1>1, <1>2, <1>3, <1>4, <1>5, <1>6, <1>7, <1>8, <1>9

\* A new item has an id above all known ones: no row, message or handler is
\* about it, and no handler has read a ban for it.
LEMMA InsertItemInv ==
  ASSUME IInv, Shadowed, NEW d \in drafts, InsertItem(d)
  PROVE  IInv'
  <1> DEFINE i == NewItem(d)
  <1>1. d \in Draft /\ lastId \in [Kind -> Nat] /\ items \in SUBSET Item
    BY DEF IInv, HTypeOK, TypeOK
  <1>2. /\ i \in Item /\ i.kind = d.kind /\ i.kind \in Kind /\ i.id = lastId[d.kind] + 1
    BY <1>1 DEF NewItem, Item, Draft
  <1>3. /\ lastId' \in [Kind -> Nat] /\ lastId'[d.kind] = lastId[d.kind] + 1
        /\ \A k \in Kind : lastId[k] <= lastId'[k]
    BY <1>1, <1>2 DEF InsertItem
  <1>4. /\ items' = items \cup {i} /\ drafts' \subseteq drafts
        /\ outbox' = outbox \cup {[topic |-> d.kind, event |-> i]}
        /\ UNCHANGED <<friends, bans, privacy, feed, teardowns, queue, work, outages>>
    BY DEF InsertItem
  <1> HIDE DEF i
  <1> DEFINE WillBeKnown(j) == j.id <= lastId'[j.kind]
  <1>5. ~Known(i) /\ WillBeKnown(i)
    <2>1. lastId[d.kind] \in Nat
      BY <1>1, <1>2
    <2> QED BY <1>2, <1>3, <2>1 DEF Known
  <1>6. ASSUME NEW j \in Item, Known(j) PROVE WillBeKnown(j) /\ j # i
    <2>1. j.kind \in Kind /\ j.id \in Nat
      BY DEF Item
    <2>2. lastId[j.kind] \in Nat /\ lastId'[j.kind] \in Nat /\ lastId[j.kind] <= lastId'[j.kind]
      BY <1>1, <1>3, <2>1
    <2> QED BY <1>5, <1>6, <2>1, <2>2 DEF Known
  <1>7. /\ \A s \in shadow' : s \in shadow \/ s[2] = i
        /\ shadow' \in SUBSET ((User \X User) \X Item)
        /\ ShadowOfBans'
    <2>1. \A s \in shadow' : s \in shadow \/ s \in bans' \X {i}
      BY <1>4 DEF Shadowed
    <2>2. bans' \in SUBSET (User \X User)
      BY <1>4 DEF IInv, HTypeOK, TypeOK
    <2> QED BY <1>2, <2>1, <2>2, ShadowStep DEF IInv, HTypeOK
  <1>8. \A u : \A j \in Item : Known(j) /\ Clear(u, j) => Clear(u, j)'
    BY <1>6, <1>7 DEF Clear
  <1>9. HTypeOK'
    <2>1. \A m \in outbox' : m.topic \in Topic /\ m.event \in Event[m.topic]
      BY <1>2, <1>4, EventTypes DEF IInv, HTypeOK, TypeOK, Topic
    <2> QED BY <1>2, <1>3, <1>4, <1>7, <2>1 DEF IInv, HTypeOK, TypeOK, At
  <1>10. ItemsAreKnown'
    <2>1. \A j \in items' : WillBeKnown(j)
      BY <1>1, <1>4, <1>5, <1>6 DEF IInv, ItemsAreKnown
    <2>2. \A r \in feed' : WillBeKnown(r.item)
      BY <1>4, <1>6 DEF IInv, HTypeOK, TypeOK, ItemsAreKnown, Row
    <2>3. ASSUME NEW m \in outbox', m.topic \in Kind PROVE WillBeKnown(m.event)
      <3>1. CASE m \in outbox
        <4>1. m.event \in Item /\ Known(m.event)
          BY <2>3, <3>1, EventTypes DEF IInv, HTypeOK, TypeOK, ItemsAreKnown
        <4> QED BY <1>6, <4>1
      <3>2. CASE m = [topic |-> d.kind, event |-> i]
        BY <1>5, <3>2
      <3> QED BY <1>4, <3>1, <3>2
    <2>4. ASSUME NEW q \in Kind, NEW k \in 1..Len(queue[q]) PROVE WillBeKnown(queue[q][k])
      <3>1. queue[q] \in Seq(Event[q]) /\ Event[q] \subseteq Item
        <4>1. q \in Topic
          BY DEF Topic
        <4> QED BY <4>1, EventTypes DEF IInv, HTypeOK, TypeOK
      <3>2. queue[q][k] \in Item /\ Known(queue[q][k])
        BY <3>1 DEF IInv, ItemsAreKnown
      <3> QED BY <1>6, <3>2
    <2> QED BY <1>4, <2>1, <2>2, <2>3, <2>4 DEF ItemsAreKnown, Known
  <1>11. HandlersAreSound'
    <2> SUFFICES ASSUME NEW q \in Topic PROVE Sound(q, work[q])'
      BY DEF HandlersAreSound
    <2>1. Sound(q, work[q]) /\ work' = work /\ queue' = queue
      BY <1>4 DEF IInv, HandlersAreSound
    <2>2. CASE work[q].pc # "idle" /\ q \in Kind
      <3>1. /\ Msg(q) \in Item /\ Known(Msg(q)) /\ Msg(q)' = Msg(q)
            /\ Learnt(work[q], Msg(q)) /\ work[q] \in Worker
        BY <2>1, <2>2, AtWork DEF At, Msg
      <3>2. \A u : <<<<u, Msg(q).author>>, Msg(q)>> \in shadow' => <<<<u, Msg(q).author>>, Msg(q)>> \in shadow
        BY <1>6, <1>7, <3>1
      <3>3. Learnt(work[q], Msg(q))'
        BY <1>8, <2>1, <3>1, <3>2 DEF Learnt
      <3> QED BY <2>1, <2>2, <3>3 DEF Sound
    <2>3. CASE ~(work[q].pc # "idle" /\ q \in Kind)
      BY <2>1, <2>3 DEF Sound
    <2> QED BY <2>2, <2>3
  <1>12. NobodyReadsThemselves' /\ BanSilence'
    <2>1. \A r \in feed : r.item \in Item /\ Known(r.item)
      BY DEF IInv, HTypeOK, TypeOK, ItemsAreKnown, Row
    <2> QED BY <1>4, <1>8, <2>1 DEF IInv, NobodyReadsThemselves, BanSilence
  <1> QED BY <1>7, <1>9, <1>10, <1>11, <1>12 DEF IInv

LEMMA DeleteItemInv ==
  ASSUME IInv, Shadowed, NEW i \in items, DeleteItem(i)
  PROVE  IInv'
  <1>1. /\ items' \subseteq items /\ feed' \subseteq feed
        /\ UNCHANGED <<lastId, friends, bans, privacy, drafts, teardowns, outbox, queue, work, outages>>
    BY DEF DeleteItem, requests
  <1>2. shadow' \subseteq shadow /\ ShadowOfBans'
    BY <1>1, ShadowStep
  <1>3. HTypeOK'
    BY <1>1, <1>2 DEF IInv, HTypeOK, TypeOK, At
  <1>4. ItemsAreKnown'
    BY <1>1 DEF IInv, ItemsAreKnown, Known
  <1>5. HandlersAreSound'
    BY <1>1, <1>2 DEF IInv, HandlersAreSound, Sound, Learnt, Clear, Msg
  <1>6. NobodyReadsThemselves' /\ BanSilence'
    BY <1>1, <1>2 DEF IInv, NobodyReadsThemselves, BanSilence, Clear
  <1> QED BY <1>2, <1>3, <1>4, <1>5, <1>6 DEF IInv

\* A message joins the queue behind the one a handler is at work on.
LEMMA PublishInv ==
  ASSUME IInv, Shadowed, NEW m \in outbox, Publish(m)
  PROVE  IInv'
  <1> DEFINE t == m.topic
  <1>1. t \in Topic /\ m.event \in Event[t] /\ queue[t] \in Seq(Event[t])
    BY DEF IInv, HTypeOK, TypeOK
  <1>2. /\ UNCHANGED <<items, lastId, friends, bans, privacy, feed, drafts, teardowns, work, outages>>
        /\ outbox' \subseteq outbox
    BY DEF Publish, tables
  <1>3. /\ queue' = [q \in Topic |-> queue'[q]]
        /\ queue'[t] = Append(queue[t], m.event)
        /\ \A q \in Topic : q # t => queue'[q] = queue[q]
    BY <1>1 DEF Publish, IInv, HTypeOK, TypeOK
  <1> HIDE DEF t
  <1>4. /\ queue'[t] \in Seq(Event[t]) /\ queue'[t] # << >>
        /\ Len(queue'[t]) = Len(queue[t]) + 1
        /\ \A k \in 1..Len(queue[t]) : queue'[t][k] = queue[t][k]
        /\ queue'[t][Len(queue[t]) + 1] = m.event
        /\ queue[t] # << >> => Head(queue'[t]) = Head(queue[t])
    <2>1. ASSUME NEW S, NEW s \in Seq(S), NEW e \in S
          PROVE  /\ Append(s, e) \in Seq(S) /\ Append(s, e) # << >>
                 /\ Len(Append(s, e)) = Len(s) + 1
                 /\ \A k \in 1..Len(s) : Append(s, e)[k] = s[k]
                 /\ Append(s, e)[Len(s) + 1] = e
                 /\ s # << >> => Head(Append(s, e)) = Head(s)
      BY AppendProperties, HeadTailAppend
    <2> DEFINE S == Event[t]
               s == queue[t]
               e == m.event
    <2>2. s \in Seq(S) /\ e \in S /\ queue'[t] = Append(s, e)
      BY <1>1, <1>3
    <2> HIDE DEF S, s, e
    <2>3. /\ Append(s, e) \in Seq(S) /\ Append(s, e) # << >>
          /\ Len(Append(s, e)) = Len(s) + 1
          /\ \A k \in 1..Len(s) : Append(s, e)[k] = s[k]
          /\ Append(s, e)[Len(s) + 1] = e
          /\ s # << >> => Head(Append(s, e)) = Head(s)
      BY <2>1, <2>2
    <2> QED BY <2>2, <2>3, Zenon DEF S, s, e
  <1>5. shadow' \subseteq shadow /\ ShadowOfBans'
    BY <1>2, ShadowStep
  <1>6. HTypeOK'
    <2>1. ASSUME NEW q \in Topic PROVE queue'[q] \in Seq(Event[q])
      <3>1. queue[q] \in Seq(Event[q])
        BY DEF IInv, HTypeOK, TypeOK
      <3> QED BY <1>3, <1>4, <3>1
    <2>2. \A q \in Topic : ~At(q, "idle")' => queue'[q] # << >>
      BY <1>2, <1>3, <1>4 DEF IInv, HTypeOK, TypeOK, At
    <2> QED BY <1>2, <1>3, <1>5, <2>1, <2>2 DEF IInv, HTypeOK, TypeOK
  <1>7. ItemsAreKnown'
    <2>1. ASSUME NEW q \in Kind, NEW k \in 1..Len(queue'[q]) PROVE Known(queue'[q][k])
      <3>1. CASE q # t
        BY <1>3, <2>1, <3>1 DEF IInv, ItemsAreKnown, Topic
      <3>2. CASE q = t
        <4>1. k \in 1..Len(queue[t]) \/ k = Len(queue[t]) + 1
          BY <1>1, <1>4, <2>1, <3>2
        <4> QED BY <1>4, <3>2, <4>1 DEF IInv, ItemsAreKnown, t
      <3> QED BY <3>1, <3>2
    <2> QED BY <1>2, <2>1 DEF IInv, ItemsAreKnown, Known
  <1>8. HandlersAreSound'
    <2> SUFFICES ASSUME NEW q \in Topic PROVE Sound(q, work[q])'
      BY DEF HandlersAreSound
    <2>1. Sound(q, work[q]) /\ work' = work
      BY <1>2 DEF IInv, HandlersAreSound
    <2>2. work[q].pc # "idle" => queue'[q] # << >> /\ Msg(q)' = Msg(q)
      BY <1>3, <1>4, <2>1 DEF Sound, Msg
    <2> QED BY <1>5, <2>1, <2>2 DEF Sound, Learnt, Clear
  <1>9. NobodyReadsThemselves' /\ BanSilence'
    BY <1>2, <1>5 DEF IInv, NobodyReadsThemselves, BanSilence, Clear
  <1> QED BY <1>5, <1>6, <1>7, <1>8, <1>9 DEF IInv

-----------------------------------------------------------------------------

LEMMA StutterInv ==
  ASSUME IInv, UNCHANGED hvars
  PROVE  IInv'
  <1> USE DEF IInv, hvars, vars, tables, requests
  <1>1. HTypeOK'
    BY DEF HTypeOK, TypeOK, At
  <1>2. ItemsAreKnown' /\ ShadowOfBans'
    BY DEF ItemsAreKnown, Known, ShadowOfBans
  <1>3. HandlersAreSound'
    BY DEF HandlersAreSound, Sound, Learnt, Clear, Msg
  <1>4. NobodyReadsThemselves' /\ BanSilence'
    BY DEF NobodyReadsThemselves, BanSilence, Clear
  <1> QED BY <1>1, <1>2, <1>3, <1>4

LEMMA HandleInv ==
  ASSUME IInv, Shadowed, NEW t \in Topic, Handle(t) \/ Interrupt(t)
  PROVE  IInv'
  BY LoadInv, ListInv, BanReadInv, ViewInv, InsertRowInv, UpdateInv, AckInv DEF Handle

LEMMA WebInv ==
  ASSUME IInv, Shadowed, Web
  PROVE  IInv'
  BY RequestInv, InsertItemInv, PublishInv, DeleteItemInv DEF Web

\* IInv is inductive.
THEOREM Invariance == HSpec => []IInv
  <1>1. IInv /\ [HNext]_hvars => IInv'
    <2> SUFFICES ASSUME IInv, [HNext]_hvars PROVE IInv'
      OBVIOUS
    <2>1. CASE UNCHANGED hvars
      BY <2>1, StutterInv
    <2>2. CASE HNext
      BY <2>2, HandleInv, WebInv DEF HNext, Next
    <2> QED BY <2>1, <2>2
  <1> QED BY <1>1, InitInv, PTL DEF HSpec

\* Type correctness, for any number of users, posts, comments and messages.
THEOREM TypesHold == HSpec => []TypeOK
  <1>1. IInv => TypeOK
    BY DEF IInv, HTypeOK
  <1> QED BY <1>1, Invariance, PTL

\* A fan-out never writes a row for the author of its item, whatever runs
\* between its reads and its inserts.
THEOREM NoSelfNotification == HSpec => []NobodyReadsThemselves
  <1>1. IInv => NobodyReadsThemselves
    BY DEF IInv
  <1> QED BY <1>1, Invariance, PTL

\* The two separate reads of the bans table, one per direction, are enough:
\* no interleaving delivers to either party of a ban what the other writes
\* under it while it stands.
THEOREM BansSilence == HSpec => []BanSilence
  <1>1. IInv => BanSilence
    BY DEF IInv
  <1> QED BY <1>1, Invariance, PTL
=============================================================================
