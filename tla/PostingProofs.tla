--------------------------- MODULE PostingProofs ---------------------------
(***************************************************************************)
(* Theorems about Posting for any number of users, requests at work at     *)
(* once and objects, for every cap and every length of the hour.           *)
(***************************************************************************)
EXTENDS Posting, FiniteSetTheorems, TLAPS

\* What a request brought fits what it does, and a key it has taken names it.
Uploads ==
    \A r \in Request :
        /\ req[r].op \in Drawn => req[r].picture # None
        /\ req[r].pc = "save" => req[r].op \in Drawn
        /\ req[r].pc \in {"count", "insert"} => req[r].op \in Op \ {"avatar"}
        /\ req[r].pc = "update" => req[r].op = "avatar"
        /\ req[r].pc # "idle" => req[r].me \in User
        /\ req[r].key # None => /\ req[r].picture # None
                                /\ objects[req[r].key] = req[r].picture

\* What rows and profiles refer to is a picture.
Shown ==
    /\ \A x \in rows : x.key # None => x.picture # None
    /\ \A u \in User : avatar[u].key # None => avatar[u].picture # None

\* After a stop that waited nobody is being served, and neither is after the end.
WaitedFor == (phase = "down" \/ (phase \in {"stopped", "mute", "closed"} /\ ~hasty)) => Quiet

\* The requests that have passed the count and may still insert.
Admitted(t, u) ==
    {r \in Request : req[r].pc \in {"save", "insert", "adrift"} /\ req[r].op # "avatar"
                       /\ TableOf(req[r].op) = t /\ req[r].me = u}

\* The rows and those still to come are within the bound together.
RoomForAll ==
    \A t \in Table, u \in User :
        Cap[t] > 0 =>
          Cardinality(Recent(t, u)) + Cardinality(Admitted(t, u)) + 1 <= Cap[t] + Cardinality(Request)

IInv == /\ TypeOK /\ IsFiniteSet(rows)
        /\ Uploads /\ Shown /\ WaitedFor /\ RoomForAll
        /\ PicturesAreTheirOwn /\ EventsOnlyLostToFaults

-----------------------------------------------------------------------------

\* The sets RoomForAll counts are finite, and no more are admitted than served.
LEMMA Countable ==
  ASSUME IInv, NEW t, NEW u
  PROVE  /\ IsFiniteSet(Recent(t, u)) /\ Cardinality(Recent(t, u)) \in Nat
         /\ IsFiniteSet(Admitted(t, u)) /\ Cardinality(Admitted(t, u)) \in Nat
         /\ Cardinality(Admitted(t, u)) <= Cardinality(Request) /\ Cardinality(Request) \in Nat
  <1>1. Recent(t, u) \subseteq rows /\ Admitted(t, u) \subseteq Request
    BY DEF Recent, Admitted
  <1> QED BY <1>1, FS_Subset, FS_CardinalityType, PostingAssumption DEF IInv

LEMMA InitInv == Init => IInv
  <1> SUFFICES ASSUME Init PROVE IInv
    OBVIOUS
  <1> USE PostingAssumption DEF Init
  <1>1. TypeOK
    BY DEF TypeOK, NoAvatar, Idle, Post, Op, Step, Phase
  <1>2. Uploads /\ Shown /\ WaitedFor
    BY DEF Uploads, Shown, WaitedFor, NoAvatar, Idle, Drawn
  <1>3. PicturesAreTheirOwn /\ EventsOnlyLostToFaults
    BY DEF PicturesAreTheirOwn, EventsOnlyLostToFaults, NoAvatar
  <1>4. ASSUME NEW t \in Table, NEW u \in User, Cap[t] > 0
        PROVE  Cardinality(Recent(t, u)) + Cardinality(Admitted(t, u)) + 1 <= Cap[t] + Cardinality(Request)
    <2>1. Recent(t, u) = {} /\ Admitted(t, u) = {}
      BY DEF Recent, Admitted, Idle
    <2>2. Cap[t] \in Nat /\ Cardinality(Request) \in Nat
      BY FS_CardinalityType
    <2> QED BY <2>1, <2>2, <1>4, FS_EmptySet
  <1>5. IsFiniteSet(rows)
    BY FS_EmptySet
  <1> QED BY <1>1, <1>2, <1>3, <1>4, <1>5 DEF IInv, RoomForAll

-----------------------------------------------------------------------------
(* The bound. Three ways a step may go: what is counted shrinks, a request  *)
(* is admitted below the cap, an admitted request becomes a row.            *)

\* No step but Count admits anybody, and rows that age, change or go make room.
LEMMA LessIsCounted ==
  ASSUME IInv, NEW t \in Table, NEW u \in User, Cap[t] > 0,
         IsFiniteSet(Recent(t, u)'), Cardinality(Recent(t, u)') <= Cardinality(Recent(t, u)),
         Admitted(t, u)' \subseteq Admitted(t, u)
  PROVE  Cardinality(Recent(t, u)') + Cardinality(Admitted(t, u)') + 1 <= Cap[t] + Cardinality(Request)
  <1>1. /\ Cardinality(Admitted(t, u)') <= Cardinality(Admitted(t, u))
        /\ Cardinality(Admitted(t, u)') \in Nat /\ Cardinality(Recent(t, u)') \in Nat
    BY Countable, FS_Subset, FS_CardinalityType
  <1>2. Cap[t] \in Nat
    BY PostingAssumption
  <1> QED BY <1>1, <1>2, Countable DEF IInv, RoomForAll

\* Rows that only age or change: Settled, Die and Tick.
LEMMA NoRowIsNew ==
  ASSUME IInv, NEW f, f \in [rows -> rows'],
         \A y \in rows' : \E x \in rows : y = f[x],
         \A x \in rows : /\ f[x].table = x.table /\ f[x].author = x.author
                         /\ f[x].age < Hour => x.age < Hour
  PROVE  /\ IsFiniteSet(rows')
         /\ \A t \in Table, u \in User :
              /\ IsFiniteSet(Recent(t, u)')
              /\ Cardinality(Recent(t, u)') <= Cardinality(Recent(t, u))
  <1>1. IsFiniteSet(rows')
    <2>1. IsFiniteSet(rows)
      BY DEF IInv
    <2>2. [x \in rows |-> f[x]] \in Surjection(rows, rows')
      BY DEF Surjection
    <2> QED BY <2>1, <2>2, FS_Surjection
  <1>2. ASSUME NEW t \in Table, NEW u \in User
        PROVE  /\ IsFiniteSet(Recent(t, u)')
               /\ Cardinality(Recent(t, u)') <= Cardinality(Recent(t, u))
    <2> DEFINE S == {x \in rows : f[x] \in Recent(t, u)'}
    <2>1. S \in SUBSET Recent(t, u)
      BY DEF Recent
    <2>2. [x \in S |-> f[x]] \in Surjection(S, Recent(t, u)')
      BY DEF Surjection, Recent
    <2>3. IsFiniteSet(S) /\ Cardinality(S) <= Cardinality(Recent(t, u)) /\ Cardinality(S) \in Nat
      BY <2>1, Countable, FS_Subset, FS_CardinalityType
    <2>4. /\ IsFiniteSet(Recent(t, u)')
          /\ Cardinality(Recent(t, u)') <= Cardinality(S)
          /\ Cardinality(Recent(t, u)') \in Nat
      BY <2>2, <2>3, FS_Surjection, FS_CardinalityType
    <2> QED BY <2>3, <2>4, Countable
  <1> QED BY <1>1, <1>2

\* The same for steps that leave the rows alone.
LEMMA RowsStay ==
  ASSUME IInv, rows' = rows
  PROVE  /\ IsFiniteSet(rows')
         /\ \A t \in Table, u \in User :
              /\ IsFiniteSet(Recent(t, u)')
              /\ Cardinality(Recent(t, u)') <= Cardinality(Recent(t, u))
  <1>1. \A t, u : Recent(t, u)' = Recent(t, u)
    BY DEF Recent
  <1> QED BY <1>1, Countable DEF IInv

\* Together: a step that adds no row and admits nobody keeps the bound.
LEMMA RoomKept ==
  ASSUME IInv,
         IsFiniteSet(rows'),
         \A t \in Table, u \in User :
              /\ IsFiniteSet(Recent(t, u)')
              /\ Cardinality(Recent(t, u)') <= Cardinality(Recent(t, u)),
         \A t \in Table, u \in User : Admitted(t, u)' \subseteq Admitted(t, u)
  PROVE  RoomForAll'
  BY LessIsCounted DEF RoomForAll

\* A request is admitted: the count it read was below the cap.
LEMMA RoomAfterCount ==
  ASSUME IInv, NEW r \in Request, Count(r)
  PROVE  RoomForAll'
  <1> SUFFICES ASSUME NEW t \in Table, NEW u \in User, Cap[t] > 0
               PROVE  Cardinality(Recent(t, u)') + Cardinality(Admitted(t, u)') + 1
                        <= Cap[t] + Cardinality(Request)
    BY DEF RoomForAll
  <1>1. Recent(t, u)' = Recent(t, u)
    BY DEF Recent, Count
  <1>2. CASE t = TableOf(req[r].op) /\ u = req[r].me /\ ~AtLimit(t, u)
    <2>1. Cardinality(Recent(t, u)) < Cap[t]
      BY <1>2, Countable, PostingAssumption DEF AtLimit
    <2>2. Admitted(t, u)' \subseteq Request
      BY DEF Admitted
    <2>3. Cardinality(Admitted(t, u)') <= Cardinality(Request) /\ Cardinality(Admitted(t, u)') \in Nat
      BY <2>2, FS_Subset, FS_CardinalityType, PostingAssumption
    <2> QED BY <1>1, <2>1, <2>3, Countable, PostingAssumption
  <1>3. CASE ~(t = TableOf(req[r].op) /\ u = req[r].me /\ ~AtLimit(t, u))
    <2>1. Admitted(t, u)' \subseteq Admitted(t, u)
      BY <1>3 DEF Admitted, Count, Return, Goto, Idle, IInv, TypeOK, Post
    <2> QED BY <1>1, <2>1, LessIsCounted, Countable
  <1> QED BY <1>2, <1>3

\* An admitted request becomes a row.
LEMMA RoomAfterInsert ==
  ASSUME IInv, NEW r \in Request, NEW i \in FreshId, NEW owed,
         At(r, "insert") \/ (At(r, "adrift") /\ req[r].op # "avatar"),
         rows' = rows \cup {NewRow(r, i, owed)},
         req'[r].pc \notin {"save", "insert", "adrift"}, \A s \in Request : s # r => req'[s] = req[s]
  PROVE  IsFiniteSet(rows') /\ RoomForAll'
  <1>1. IsFiniteSet(rows')
    BY FS_AddElement DEF IInv
  <1> SUFFICES ASSUME NEW t \in Table, NEW u \in User, Cap[t] > 0
               PROVE  Cardinality(Recent(t, u)') + Cardinality(Admitted(t, u)') + 1
                        <= Cap[t] + Cardinality(Request)
    BY <1>1 DEF RoomForAll
  <1>2. CASE r \in Admitted(t, u)
    <2>1. Admitted(t, u)' \subseteq Admitted(t, u) \ {r}
      BY DEF Admitted
    <2>2. /\ Cardinality(Admitted(t, u)') <= Cardinality(Admitted(t, u) \ {r})
          /\ Cardinality(Admitted(t, u)') \in Nat
          /\ Cardinality(Admitted(t, u) \ {r}) = Cardinality(Admitted(t, u)) - 1
      BY <1>2, <2>1, Countable, FS_RemoveElement, FS_Subset, FS_CardinalityType
    <2>3. Recent(t, u)' \subseteq Recent(t, u) \cup {NewRow(r, i, owed)}
      BY DEF Recent
    <2>4. /\ Cardinality(Recent(t, u)') <= Cardinality(Recent(t, u)) + 1
          /\ Cardinality(Recent(t, u)') \in Nat
      <3>1. /\ IsFiniteSet(Recent(t, u) \cup {NewRow(r, i, owed)})
            /\ Cardinality(Recent(t, u) \cup {NewRow(r, i, owed)}) <= Cardinality(Recent(t, u)) + 1
            /\ Cardinality(Recent(t, u) \cup {NewRow(r, i, owed)}) \in Nat
        <4> DEFINE n == NewRow(r, i, owed)
        <4> HIDE DEF n
        <4>1. IsFiniteSet(Recent(t, u)) /\ Cardinality(Recent(t, u)) \in Nat
          BY Countable
        <4>2. /\ IsFiniteSet(Recent(t, u) \cup {n})
              /\ \/ Cardinality(Recent(t, u) \cup {n}) = Cardinality(Recent(t, u))
                 \/ Cardinality(Recent(t, u) \cup {n}) = Cardinality(Recent(t, u)) + 1
          BY <4>1, FS_AddElement
        <4> QED BY <4>1, <4>2 DEF n
      <3> QED BY <3>1, <2>3, Countable, FS_Subset, FS_CardinalityType
    <2> QED BY <2>2, <2>4, Countable, PostingAssumption DEF IInv, RoomForAll
  <1>3. CASE r \notin Admitted(t, u)
    <2>1. Admitted(t, u)' \subseteq Admitted(t, u)
      BY DEF Admitted
    <2>2. req[r].op # "avatar"
      BY DEF IInv, Uploads, At
    <2>3. Recent(t, u)' = Recent(t, u)
      BY <1>3, <2>2 DEF Recent, Admitted, NewRow, At
    <2> QED BY <2>1, <2>3, LessIsCounted, Countable
  <1> QED BY <1>2, <1>3

-----------------------------------------------------------------------------
(* The steps of a request *)

LEMMA BeginInv ==
  ASSUME IInv, NEW r \in Request, NEW op \in Op, NEW u \in User,
         NEW p \in Picture \cup {None}, Begin(r, op, u, p)
  PROVE  IInv'
  <1> USE DEF Begin
  <1>1. TypeOK'
    BY DEF IInv, TypeOK, Post, Idle, Op, Step
  <1>2. Uploads'
    BY PostingAssumption DEF IInv, TypeOK, Uploads, Idle, Op, Drawn
  <1>3. Shown'
    BY DEF IInv, Shown
  <1>4. WaitedFor'
    BY DEF IInv, WaitedFor, Quiet, At
  <1>5. PicturesAreTheirOwn'
    BY DEF IInv, PicturesAreTheirOwn
  <1>6. EventsOnlyLostToFaults'
    BY DEF IInv, EventsOnlyLostToFaults, At
  <1>7. \A t \in Table, v \in User : Admitted(t, v)' \subseteq Admitted(t, v)
    BY DEF Admitted, IInv, TypeOK, Idle, Op, Drawn
  <1> QED BY <1>1, <1>2, <1>3, <1>4, <1>5, <1>6, <1>7, RowsStay, RoomKept DEF IInv

LEMMA CountInv == ASSUME IInv, NEW r \in Request, Count(r) PROVE IInv'
  <1>0. /\ \A s \in Request \ {r} : req'[s] = req[s]
        /\ \/ req'[r] = Idle
           \/ req[r].op \in Drawn /\ req'[r] = [req[r] EXCEPT !.pc = "save"]
           \/ req[r].op \notin Drawn /\ req'[r] = [req[r] EXCEPT !.pc = "insert"]
    BY DEF Count, Goto, Return, IInv, TypeOK
  <1>2. Uploads'
    <2> SUFFICES ASSUME NEW s \in Request
                 PROVE  /\ req'[s].op \in Drawn => req'[s].picture # None
                        /\ req'[s].pc = "save" => req'[s].op \in Drawn
                        /\ req'[s].pc \in {"count", "insert"} => req'[s].op \in Op \ {"avatar"}
                        /\ req'[s].pc = "update" => req'[s].op = "avatar"
                        /\ req'[s].pc # "idle" => req'[s].me \in User
                        /\ req'[s].key # None => /\ req'[s].picture # None
                                                 /\ objects[req'[s].key] = req'[s].picture
      BY DEF Uploads, Count
    <2>1. CASE s # r \/ req'[s] = Idle
      BY <1>0, <2>1 DEF IInv, Uploads, Idle, Drawn
    <2>2. CASE s = r /\ req'[s] # Idle
      <3>1. req[r] \in Post /\ req[r].pc = "count"
        BY DEF IInv, TypeOK, Count, At
      <3> QED BY <1>0, <2>2, <3>1 DEF IInv, Uploads, Post
    <2> QED BY <2>1, <2>2
  <1> USE DEF Count, Goto, Return
  <1>1. TypeOK'
    BY DEF IInv, TypeOK, Post, Idle, Op, Step
  <1>3. Shown'
    BY DEF IInv, Shown
  <1>4. WaitedFor'
    BY DEF IInv, WaitedFor, Quiet, At
  <1>5. PicturesAreTheirOwn'
    BY DEF IInv, PicturesAreTheirOwn
  <1>6. EventsOnlyLostToFaults'
    BY DEF IInv, EventsOnlyLostToFaults, TypeOK, At
  <1>7. RoomForAll'
    BY RoomAfterCount
  <1> QED BY <1>1, <1>2, <1>3, <1>4, <1>5, <1>6, <1>7 DEF IInv

\* A key that is free is in no row, no profile and no request, so what is
\* stored under it changes nothing that is shown.
LEMMA SaveInv == ASSUME IInv, NEW r \in Request, Save(r) PROVE IInv'
  <1> PICK k \in FreshKey :
         /\ objects' = [objects EXCEPT ![k] = req[r].picture]
         /\ req' = [req EXCEPT ![r].key = k,
                               ![r].pc = IF req[r].op = "avatar" THEN "update" ELSE "insert"]
    BY DEF Save
  <1> USE DEF Save
  <1>0. k \in Key /\ objects[k] = None /\ k # None
    BY PostingAssumption DEF FreshKey
  <1>1. TypeOK'
    <2>1. req[r] \in Post
      BY DEF IInv, TypeOK
    <2>2. req' = [req EXCEPT ![r] = [req[r] EXCEPT !.key = k,
                    !.pc = IF req[r].op = "avatar" THEN "update" ELSE "insert"]]
      BY DEF IInv, TypeOK
    <2>3. [req[r] EXCEPT !.key = k, !.pc = IF req[r].op = "avatar" THEN "update" ELSE "insert"] \in Post
      BY <1>0, <2>1 DEF Post, Step
    <2>4. req' \in [Request -> Post]
      BY <2>2, <2>3 DEF IInv, TypeOK
    <2>5. objects' \in [Key -> Picture \cup {None}]
      BY <1>0, <2>1 DEF IInv, TypeOK, Post
    <2> QED BY <2>4, <2>5 DEF IInv, TypeOK
  <1>2. Uploads'
    BY <1>0 DEF IInv, TypeOK, Post, Uploads, Drawn, Op, At
  <1>3. Shown'
    BY DEF IInv, Shown
  <1>4. WaitedFor'
    BY DEF IInv, WaitedFor, Quiet, At
  <1>5. PicturesAreTheirOwn'
    BY <1>0 DEF IInv, TypeOK, Row, Shown, PicturesAreTheirOwn
  <1>6. EventsOnlyLostToFaults'
    BY DEF IInv, EventsOnlyLostToFaults, TypeOK, At
  <1>7. \A t \in Table, v \in User : Admitted(t, v)' \subseteq Admitted(t, v)
    BY DEF Admitted, IInv, TypeOK, Post, At
  <1> QED BY <1>1, <1>2, <1>3, <1>4, <1>5, <1>6, <1>7, RowsStay, RoomKept DEF IInv

\* A request that ends: its goroutine, or what Postgres had of it.
LEMMA Returned ==
  ASSUME IInv, NEW r \in Request, Return(r)
  PROVE  /\ req' \in [Request -> Post]
         /\ \A s \in Request : s # r => req'[s] = req[s]
         /\ req'[r] = Idle
         /\ \A t \in Table, v \in User : Admitted(t, v)' \subseteq Admitted(t, v)
         /\ Quiet => Quiet'
  BY DEF Return, IInv, TypeOK, Post, Idle, Op, Step, Admitted, Quiet, At

LEMMA SaveUnansweredInv == ASSUME IInv, NEW r \in Request, SaveUnanswered(r) PROVE IInv'
  <1> PICK k \in FreshKey : objects' = [objects EXCEPT ![k] = req[r].picture]
    BY DEF SaveUnanswered
  <1> USE Returned DEF SaveUnanswered
  <1>0. k \in Key /\ objects[k] = None /\ k # None
    BY PostingAssumption DEF FreshKey
  <1>1. TypeOK'
    BY <1>0 DEF IInv, TypeOK, Post
  <1>2. Uploads'
    BY <1>0 DEF IInv, TypeOK, Post, Uploads, Drawn, Op, At, Idle
  <1>3. Shown'
    BY DEF IInv, Shown
  <1>4. WaitedFor'
    BY DEF IInv, WaitedFor
  <1>5. PicturesAreTheirOwn'
    BY <1>0 DEF IInv, TypeOK, Row, Shown, PicturesAreTheirOwn
  <1>6. EventsOnlyLostToFaults'
    BY DEF IInv, EventsOnlyLostToFaults, At
  <1> QED BY <1>1, <1>2, <1>3, <1>4, <1>5, <1>6, RowsStay, RoomKept DEF IInv

\* The types and the pictures of a new row; its room is RoomAfterInsert's.
LEMMA RowInserted ==
  ASSUME IInv, NEW r \in Request, NEW i \in FreshId, NEW owed \in BOOLEAN,
         At(r, "insert") \/ At(r, "adrift"),
         rows' = rows \cup {NewRow(r, i, owed)}, UNCHANGED <<avatar, objects, phase, hasty>>
  PROVE  /\ rows' \in SUBSET Row
         /\ \A x, y \in rows' : x.id = y.id => x = y
         /\ Shown' /\ PicturesAreTheirOwn'
  <1>1. req[r] \in Post /\ req[r].me \in User
    BY DEF IInv, TypeOK, Uploads, At
  <1>2. NewRow(r, i, owed) \in Row
    BY <1>1, PostingAssumption DEF NewRow, Row, Post, FreshId, TableOf, Table, Age
  <1> QED BY <1>1, <1>2 DEF IInv, TypeOK, NewRow, FreshId, Shown, PicturesAreTheirOwn, Uploads

LEMMA InsertInv == ASSUME IInv, NEW r \in Request, Insert(r) PROVE IInv'
  <1> PICK i \in FreshId : /\ rows' = rows \cup {NewRow(r, i, TRUE)}
                           /\ req' = [req EXCEPT ![r].id = i, ![r].pc = "publish"]
    BY DEF Insert
  <1>0. /\ At(r, "insert") /\ UNCHANGED <<avatar, objects, phase, hasty>>
        /\ \A s \in Request : s # r => req'[s] = req[s]
        /\ req[r] \in Post /\ i \in Id
        /\ req' = [req EXCEPT ![r] = [req[r] EXCEPT !.id = i, !.pc = "publish"]]
    BY DEF Insert, IInv, TypeOK, FreshId
  <1>7. /\ req'[r].op = req[r].op /\ req'[r].picture = req[r].picture
        /\ req'[r].key = req[r].key /\ req'[r].me = req[r].me
        /\ req'[r].pc = "publish" /\ req'[r].id = i
    BY <1>0 DEF Post, IInv, TypeOK
  <1>1. /\ rows' \in SUBSET Row
        /\ \A x, y \in rows' : x.id = y.id => x = y
        /\ Shown' /\ PicturesAreTheirOwn'
    BY <1>0, RowInserted
  <1>2. IsFiniteSet(rows') /\ RoomForAll'
    <2>1. req'[r].pc \notin {"save", "insert", "adrift"}
      BY <1>7
    <2> QED BY <1>0, <2>1, RoomAfterInsert
  <1>3. TypeOK'
    <2>1. [req[r] EXCEPT !.id = i, !.pc = "publish"] \in Post
      BY <1>0 DEF Post, Step
    <2>2. req' \in [Request -> Post]
      BY <1>0, <2>1 DEF IInv, TypeOK
    <2> QED BY <1>0, <1>1, <2>2 DEF IInv, TypeOK
  <1>4. Uploads'
    <2> SUFFICES ASSUME NEW s \in Request
                 PROVE  /\ req'[s].op \in Drawn => req'[s].picture # None
                        /\ req'[s].pc = "save" => req'[s].op \in Drawn
                        /\ req'[s].pc \in {"count", "insert"} => req'[s].op \in Op \ {"avatar"}
                        /\ req'[s].pc = "update" => req'[s].op = "avatar"
                        /\ req'[s].pc # "idle" => req'[s].me \in User
                        /\ req'[s].key # None => /\ req'[s].picture # None
                                                 /\ objects[req'[s].key] = req'[s].picture
      BY <1>0 DEF Uploads
    <2>1. CASE s # r
      BY <1>0, <2>1 DEF IInv, Uploads
    <2>2. CASE s = r
      BY <1>0, <1>7, <2>2 DEF IInv, Uploads, At
    <2> QED BY <2>1, <2>2
  <1>5. WaitedFor'
    BY <1>0 DEF IInv, WaitedFor, Quiet, At
  <1>6. EventsOnlyLostToFaults'
    <2> SUFFICES ASSUME NEW x \in rows', x.owed
                 PROVE  \E s \in Request : req'[s].pc = "publish" /\ req'[s].id = x.id
      BY DEF EventsOnlyLostToFaults, At
    <2>1. CASE x \in rows
      <3>1. PICK s \in Request : req[s].pc = "publish" /\ req[s].id = x.id
        BY <2>1 DEF IInv, EventsOnlyLostToFaults, At
      <3> QED BY <1>0, <3>1 DEF At
    <2>2. CASE x = NewRow(r, i, TRUE)
      BY <1>7, <2>2 DEF NewRow
    <2> QED BY <2>1, <2>2
  <1> QED BY <1>1, <1>2, <1>3, <1>4, <1>5, <1>6 DEF IInv

LEMMA UnansweredInv == ASSUME IInv, NEW r \in Request, Unanswered(r) PROVE IInv'
  <1>0. /\ req' = [req EXCEPT ![r] = [req[r] EXCEPT !.pc = "adrift"]]
        /\ req[r] \in Post /\ req[r].pc \in {"insert", "update"}
        /\ UNCHANGED <<rows, avatar, objects, phase, hasty>>
    BY DEF Unanswered, Goto, At, IInv, TypeOK
  <1>1. /\ \A s \in Request : s # r => req'[s] = req[s]
        /\ req'[r] \in Post /\ req'[r].pc = "adrift"
        /\ req'[r].op = req[r].op /\ req'[r].me = req[r].me
        /\ req'[r].key = req[r].key /\ req'[r].picture = req[r].picture
    BY <1>0 DEF Post, Step, IInv, TypeOK
  <1>2. TypeOK'
    <2>1. req' \in [Request -> Post]
      BY <1>0, <1>1 DEF IInv, TypeOK
    <2> QED BY <1>0, <2>1 DEF IInv, TypeOK
  <1>3. Uploads'
    BY <1>0, <1>1 DEF IInv, Uploads
  <1>4. Shown' /\ PicturesAreTheirOwn'
    BY <1>0 DEF IInv, Shown, PicturesAreTheirOwn
  <1>5. WaitedFor'
    <2>1. ~Quiet
      BY <1>0 DEF Quiet, At
    <2> QED BY <1>0, <2>1 DEF IInv, WaitedFor
  <1>6. EventsOnlyLostToFaults'
    BY <1>0, <1>1 DEF IInv, EventsOnlyLostToFaults, At
  <1>7. \A t \in Table, v \in User : Admitted(t, v)' \subseteq Admitted(t, v)
    <2> SUFFICES ASSUME NEW t \in Table, NEW v \in User, NEW s \in Admitted(t, v)'
                 PROVE  s \in Admitted(t, v)
      OBVIOUS
    <2>1. CASE s # r
      BY <1>1, <2>1 DEF Admitted
    <2>2. CASE s = r
      <3>1. req[r].op # "avatar" /\ TableOf(req[r].op) = t /\ req[r].me = v
        BY <1>1, <2>2 DEF Admitted
      <3>2. req[r].pc = "insert"
        BY <1>0, <3>1 DEF IInv, Uploads
      <3> QED BY <2>2, <3>1, <3>2 DEF Admitted
    <2> QED BY <2>1, <2>2
  <1> QED BY <1>0, <1>2, <1>3, <1>4, <1>5, <1>6, <1>7, RowsStay, RoomKept DEF IInv

\* An avatar is set while its request waits, or when it has long gone.
LEMMA ShowPictureInv ==
  ASSUME IInv, NEW r \in Request, At(r, "update") \/ At(r, "adrift"), ShowPicture(r), Return(r),
         UNCHANGED <<rows, objects, phase, hasty>>
  PROVE  IInv'
  <1> USE Returned DEF ShowPicture
  <1>1. TypeOK'
    BY DEF IInv, TypeOK, Post
  <1>2. Uploads'
    BY DEF IInv, Uploads, Idle, Drawn
  <1>3. WaitedFor'
    BY DEF IInv, WaitedFor
  <1>4. Shown' /\ PicturesAreTheirOwn'
    BY DEF IInv, TypeOK, Uploads, Shown, PicturesAreTheirOwn
  <1>5. EventsOnlyLostToFaults'
    BY DEF IInv, EventsOnlyLostToFaults, At
  <1> QED BY <1>1, <1>2, <1>3, <1>4, <1>5, RowsStay, RoomKept DEF IInv

LEMMA UpdateInv == ASSUME IInv, NEW r \in Request, Update(r) PROVE IInv'
  BY ShowPictureInv DEF Update

\* A row that appears when its request has ended takes the place that was set
\* aside for it, and nobody owes its event.
LEMMA LandInv == ASSUME IInv, NEW r \in Request, Land(r) PROVE IInv'
  <1>1. CASE req[r].op = "avatar"
    BY <1>1, ShowPictureInv DEF Land
  <1>2. CASE req[r].op # "avatar"
    <2> PICK i \in FreshId : rows' = rows \cup {NewRow(r, i, FALSE)}
      BY <1>2 DEF Land
    <2>0. /\ At(r, "adrift") /\ UNCHANGED <<avatar, objects, phase, hasty>>
          /\ req' \in [Request -> Post] /\ req'[r] = Idle
          /\ \A s \in Request : s # r => req'[s] = req[s]
          /\ Quiet => Quiet'
      BY <1>2, Returned DEF Land
    <2>1. /\ rows' \in SUBSET Row
          /\ \A x, y \in rows' : x.id = y.id => x = y
          /\ Shown' /\ PicturesAreTheirOwn'
      BY <2>0, RowInserted
    <2>2. IsFiniteSet(rows') /\ RoomForAll'
      <3>1. req'[r].pc \notin {"save", "insert", "adrift"}
        BY <2>0 DEF Idle
      <3> QED BY <1>2, <2>0, <3>1, RoomAfterInsert
    <2>3. TypeOK'
      BY <2>0, <2>1 DEF IInv, TypeOK
    <2>4. Uploads'
      BY <2>0 DEF IInv, Uploads, Idle, Drawn
    <2>5. WaitedFor'
      BY <2>0 DEF IInv, WaitedFor
    <2>6. EventsOnlyLostToFaults'
      BY <2>0 DEF IInv, EventsOnlyLostToFaults, At, NewRow
    <2> QED BY <2>1, <2>2, <2>3, <2>4, <2>5, <2>6 DEF IInv
  <1> QED BY <1>1, <1>2

LEMMA FailInv == ASSUME IInv, NEW r \in Request, Fail(r) \/ Founder(r) PROVE IInv'
  <1> USE Returned DEF Fail, Founder
  <1>1. TypeOK' /\ Shown' /\ PicturesAreTheirOwn'
    BY DEF IInv, TypeOK, Shown, PicturesAreTheirOwn
  <1>2. Uploads'
    BY DEF IInv, Uploads, Idle, Drawn
  <1>3. WaitedFor'
    BY DEF IInv, WaitedFor
  <1>4. EventsOnlyLostToFaults'
    BY DEF IInv, EventsOnlyLostToFaults, At
  <1> QED BY <1>1, <1>2, <1>3, <1>4, RowsStay, RoomKept DEF IInv

\* Steps that change rows without adding any: what they keep of them.
LEMMA RowsKept ==
  ASSUME IInv, NEW f, f \in [rows -> rows'],
         \A y \in rows' : \E x \in rows : y = f[x],
         \A x \in rows : /\ f[x] \in Row /\ f[x].id = x.id /\ f[x].table = x.table
                         /\ f[x].author = x.author /\ f[x].key = x.key /\ f[x].picture = x.picture
                         /\ f[x].age < Hour => x.age < Hour,
         avatar' = avatar, objects' = objects
  PROVE  /\ rows' \in SUBSET Row
         /\ \A x, y \in rows' : x.id = y.id => x = y
         /\ Shown' /\ PicturesAreTheirOwn'
         /\ IsFiniteSet(rows')
         /\ \A t \in Table, u \in User :
              /\ IsFiniteSet(Recent(t, u)')
              /\ Cardinality(Recent(t, u)') <= Cardinality(Recent(t, u))
  <1>1. /\ rows' \in SUBSET Row
        /\ \A x, y \in rows' : x.id = y.id => x = y
    BY DEF IInv, TypeOK
  <1>2. Shown' /\ PicturesAreTheirOwn'
    BY DEF IInv, Shown, PicturesAreTheirOwn
  <1>3. \A x \in rows : /\ f[x].table = x.table /\ f[x].author = x.author
                        /\ f[x].age < Hour => x.age < Hour
    OBVIOUS
  <1>4. /\ IsFiniteSet(rows')
        /\ \A t \in Table, u \in User :
              /\ IsFiniteSet(Recent(t, u)')
              /\ Cardinality(Recent(t, u)') <= Cardinality(Recent(t, u))
    BY <1>3, NoRowIsNew
  <1> QED BY <1>1, <1>2, <1>4

\* Settled as a function of the rows.
LEMMA SettledKeeps ==
  ASSUME IInv, NEW i, rows' = Settled(i), UNCHANGED <<avatar, objects>>
  PROVE  /\ rows' \in SUBSET Row
         /\ \A x, y \in rows' : x.id = y.id => x = y
         /\ Shown' /\ PicturesAreTheirOwn'
         /\ IsFiniteSet(rows')
         /\ \A t \in Table, u \in User :
              /\ IsFiniteSet(Recent(t, u)')
              /\ Cardinality(Recent(t, u)') <= Cardinality(Recent(t, u))
         /\ \A x \in rows' : x.owed => x \in rows /\ x.id # i
  <1>9. PICK f : f = [x \in rows |-> IF x.id = i THEN [x EXCEPT !.owed = FALSE] ELSE x]
    OBVIOUS
  <1>1. f \in [rows -> rows'] /\ (\A y \in rows' : \E x \in rows : y = f[x])
    BY <1>9 DEF Settled
  <1>2. \A x \in rows : /\ f[x] \in Row /\ f[x].id = x.id /\ f[x].table = x.table
                        /\ f[x].author = x.author /\ f[x].key = x.key /\ f[x].picture = x.picture
                        /\ f[x].age < Hour => x.age < Hour
    BY <1>9 DEF IInv, TypeOK, Row
  <1>3. \A x \in rows' : x.owed => x \in rows /\ x.id # i
    BY DEF Settled, IInv, TypeOK, Row
  <1>4. /\ rows' \in SUBSET Row
        /\ \A x, y \in rows' : x.id = y.id => x = y
        /\ Shown' /\ PicturesAreTheirOwn'
        /\ IsFiniteSet(rows')
        /\ \A t \in Table, u \in User :
              /\ IsFiniteSet(Recent(t, u)')
              /\ Cardinality(Recent(t, u)') <= Cardinality(Recent(t, u))
    BY <1>1, <1>2, RowsKept
  <1> QED BY <1>3, <1>4

\* However its Publish ends, a request that leaves settles no row but its own,
\* and leaves none unsettled: had the publisher been closed on it without a
\* fault, WaitedFor would have it idle.
LEMMA PublishInv ==
  ASSUME IInv, NEW r \in Request, Publish(r) \/ PublishFails(r)
  PROVE  IInv'
  <1>0. At(r, "publish") /\ Return(r) /\ UNCHANGED <<avatar, objects, phase, hasty>>
    BY DEF Publish, PublishFails
  <1>1. /\ req' \in [Request -> Post] /\ req'[r] = Idle
        /\ \A s \in Request : s # r => req'[s] = req[s]
        /\ \A t \in Table, v \in User : Admitted(t, v)' \subseteq Admitted(t, v)
        /\ Quiet => Quiet'
    BY <1>0, Returned
  <1>2. rows' = Settled(req[r].id)
    <2>1. ~Quiet
      BY <1>0 DEF Quiet, At
    <2>2. PublisherOpen \/ hasty
      BY <2>1 DEF IInv, TypeOK, Phase, WaitedFor, PublisherOpen
    <2> QED BY <2>2 DEF Publish, PublishFails
  <1>3. TypeOK' /\ Shown' /\ PicturesAreTheirOwn'
    BY <1>0, <1>1, <1>2, SettledKeeps DEF IInv, TypeOK
  <1>4. Uploads'
    BY <1>0, <1>1 DEF IInv, Uploads, Idle, Drawn
  <1>5. WaitedFor'
    BY <1>0, <1>1 DEF IInv, WaitedFor
  <1>6. EventsOnlyLostToFaults'
    BY <1>0, <1>1, <1>2, SettledKeeps DEF IInv, EventsOnlyLostToFaults, At
  <1> QED BY <1>0, <1>1, <1>2, <1>3, <1>4, <1>5, <1>6, SettledKeeps, RoomKept DEF IInv

-----------------------------------------------------------------------------
(* The steps of others *)

\* What depends on the requests alone stays.
LEMMA RequestsStay ==
  ASSUME IInv, req' = req
  PROVE  /\ objects' = objects => Uploads'
         /\ \A t \in Table, v \in User : Admitted(t, v)' \subseteq Admitted(t, v)
         /\ Quiet' <=> Quiet
  BY DEF IInv, Uploads, Admitted, Quiet, At

LEMMA DeleteInv == ASSUME IInv, NEW i, Delete(i) PROVE IInv'
  <1> USE RequestsStay DEF Delete
  <1>1. rows' \in SUBSET rows
    OBVIOUS
  <1>2. TypeOK' /\ Shown' /\ PicturesAreTheirOwn'
    BY <1>1 DEF IInv, TypeOK, Shown, PicturesAreTheirOwn
  <1>3. WaitedFor'
    BY DEF IInv, WaitedFor
  <1>4. EventsOnlyLostToFaults'
    BY <1>1 DEF IInv, EventsOnlyLostToFaults, At
  <1>5. /\ IsFiniteSet(rows')
        /\ \A t \in Table, u \in User :
              /\ IsFiniteSet(Recent(t, u)')
              /\ Cardinality(Recent(t, u)') <= Cardinality(Recent(t, u))
    <2>1. \A t, u : Recent(t, u)' \in SUBSET Recent(t, u)
      BY <1>1 DEF Recent
    <2> QED BY <1>1, <2>1, Countable, FS_Subset DEF IInv
  <1> QED BY <1>2, <1>3, <1>4, <1>5, RoomKept DEF IInv

LEMMA TickInv == ASSUME IInv, Tick PROVE IInv'
  <1> USE RequestsStay DEF Tick
  <1>9. PICK f : f = [x \in rows |-> [x EXCEPT !.age = IF x.age = Hour THEN x.age ELSE x.age + 1]]
    OBVIOUS
  <1>1. f \in [rows -> rows'] /\ (\A y \in rows' : \E x \in rows : y = f[x])
    BY <1>9
  <1>2. \A x \in rows : /\ f[x] \in Row /\ f[x].id = x.id /\ f[x].table = x.table
                        /\ f[x].author = x.author /\ f[x].key = x.key /\ f[x].picture = x.picture
                        /\ f[x].age < Hour => x.age < Hour
    <2> SUFFICES ASSUME NEW x \in rows
                 PROVE  /\ f[x] \in Row /\ f[x].id = x.id /\ f[x].table = x.table
                        /\ f[x].author = x.author /\ f[x].key = x.key /\ f[x].picture = x.picture
                        /\ f[x].age < Hour => x.age < Hour
      OBVIOUS
    <2>1. x \in Row /\ x.age \in 0 .. Hour /\ Hour \in Nat
      BY PostingAssumption DEF IInv, TypeOK, Row, Age
    <2> DEFINE n == IF x.age = Hour THEN x.age ELSE x.age + 1
    <2>2. n \in Age /\ (n < Hour => x.age < Hour)
      BY <2>1 DEF Age
    <2>3. f[x] = [x EXCEPT !.age = n]
      BY <1>9
    <2> HIDE DEF n
    <2> QED BY <2>1, <2>2, <2>3 DEF Row
  <1>6. \A x \in rows : f[x].id = x.id /\ f[x].owed = x.owed
    BY <1>9 DEF IInv, TypeOK, Row
  <1>3. /\ TypeOK' /\ Shown' /\ PicturesAreTheirOwn'
        /\ IsFiniteSet(rows')
        /\ \A t \in Table, u \in User :
              /\ IsFiniteSet(Recent(t, u)')
              /\ Cardinality(Recent(t, u)') <= Cardinality(Recent(t, u))
    BY <1>1, <1>2, RowsKept DEF IInv, TypeOK
  <1>4. WaitedFor'
    BY DEF IInv, WaitedFor
  <1>5. EventsOnlyLostToFaults'
    <2> SUFFICES ASSUME NEW y \in rows', y.owed
                 PROVE  \E r \in Request : req'[r].pc = "publish" /\ req'[r].id = y.id
      BY DEF EventsOnlyLostToFaults, At
    <2>1. PICK x \in rows : y = f[x]
      BY <1>1
    <2>2. x.owed /\ x.id = y.id
      BY <1>6, <2>1
    <2> QED BY <2>2 DEF IInv, EventsOnlyLostToFaults, At
  <1> QED BY <1>3, <1>4, <1>5, RoomKept DEF IInv

\* The process stops or starts serving: only phase and hasty change, and Shutdown
\* has waited unless the step is a fault.
LEMMA PassInv ==
  ASSUME IInv,
         \/ Terminate \/ Drained \/ TimedOut \/ ListenFails \/ ClosePublisher \/ ClosePool \/ Start
  PROVE  IInv'
  <1> USE DEF Terminate, Drained, TimedOut, ListenFails, ClosePublisher, ClosePool, Start, Pass
  <1>1. UNCHANGED <<rows, avatar, objects, req>>
    OBVIOUS
  <1>2. TypeOK'
    BY DEF IInv, TypeOK, Phase
  <1>3. WaitedFor'
    BY <1>1, RequestsStay DEF IInv, WaitedFor
  <1>4. Shown' /\ PicturesAreTheirOwn' /\ EventsOnlyLostToFaults'
    BY <1>1 DEF IInv, Shown, PicturesAreTheirOwn, EventsOnlyLostToFaults, At
  <1> QED BY <1>1, <1>2, <1>3, <1>4, RequestsStay, RowsStay, RoomKept DEF IInv

\* The process ends: by a fault nothing is owed any more, after a stop that
\* waited nothing was.
LEMMA DieInv == ASSUME IInv, Exit \/ Crash PROVE IInv'
  <1>0. PICK excused \in BOOLEAN : Die(excused) /\ (~excused => Quiet)
    <2>1. CASE Exit
      BY <2>1 DEF IInv, TypeOK, WaitedFor, Exit
    <2>2. CASE Crash
      BY <2>2 DEF Crash
    <2> QED BY <2>1, <2>2
  <1> USE DEF Die
  <1>9. PICK f : f = [x \in rows |-> [x EXCEPT !.owed = @ /\ ~excused]]
    OBVIOUS
  <1>1. f \in [rows -> rows'] /\ (\A y \in rows' : \E x \in rows : y = f[x])
    BY <1>0, <1>9
  <1>2. \A x \in rows : /\ f[x] \in Row /\ f[x].id = x.id /\ f[x].table = x.table
                        /\ f[x].author = x.author /\ f[x].key = x.key /\ f[x].picture = x.picture
                        /\ f[x].age < Hour => x.age < Hour
    BY <1>9 DEF IInv, TypeOK, Row
  <1>3. \A x \in rows : ~f[x].owed
    <2>1. CASE excused
      BY <1>9, <2>1 DEF IInv, TypeOK, Row
    <2>2. CASE ~excused
      <3>1. \A x \in rows : ~x.owed
        BY <1>0, <2>2 DEF IInv, EventsOnlyLostToFaults, Quiet, At
      <3>2. \A x \in rows : f[x].owed = (x.owed /\ ~excused)
        BY <1>9 DEF IInv, TypeOK, Row
      <3> QED BY <3>1, <3>2
    <2> QED BY <2>1, <2>2
  <1>4. /\ req' \in [Request -> Post]
        /\ Uploads' /\ Quiet'
        /\ \A t \in Table, v \in User : Admitted(t, v)' \subseteq Admitted(t, v)
    <2>1. \A r \in Request : req'[r] = Idle \/ (req[r].pc = "adrift" /\ req'[r] = req[r])
      BY <1>0 DEF At
    <2>2. Idle \in Post /\ Idle.pc = "idle" /\ Idle.key = None /\ Idle.op = "none"
      BY DEF Idle, Post, Step
    <2>3. req' \in [Request -> Post]
      BY <1>0, <2>2 DEF IInv, TypeOK
    <2>4. Uploads' /\ Quiet'
      BY <1>0, <2>1, <2>2 DEF IInv, Uploads, Drawn, Quiet, At
    <2>5. \A t \in Table, v \in User : Admitted(t, v)' \subseteq Admitted(t, v)
      BY <2>1, <2>2 DEF Admitted
    <2> QED BY <2>3, <2>4, <2>5
  <1>5. /\ TypeOK' /\ Shown' /\ PicturesAreTheirOwn'
        /\ IsFiniteSet(rows')
        /\ \A t \in Table, u \in User :
              /\ IsFiniteSet(Recent(t, u)')
              /\ Cardinality(Recent(t, u)') <= Cardinality(Recent(t, u))
    BY <1>0, <1>1, <1>2, <1>4, RowsKept DEF IInv, TypeOK, Phase
  <1>6. EventsOnlyLostToFaults'
    BY <1>1, <1>3 DEF EventsOnlyLostToFaults
  <1> QED BY <1>4, <1>5, <1>6, RoomKept DEF IInv, WaitedFor

LEMMA StutterInv == ASSUME IInv, UNCHANGED vars PROVE IInv'
  <1> USE DEF vars
  <1>1. TypeOK' /\ Shown' /\ PicturesAreTheirOwn'
    BY DEF IInv, TypeOK, Shown, PicturesAreTheirOwn
  <1>2. WaitedFor' /\ EventsOnlyLostToFaults'
    BY RequestsStay DEF IInv, WaitedFor, EventsOnlyLostToFaults, At
  <1> QED BY <1>1, <1>2, RequestsStay, RowsStay, RoomKept DEF IInv

LEMMA NextInv == IInv /\ [Next]_vars => IInv'
  <1> SUFFICES ASSUME IInv, [Next]_vars PROVE IInv'
    OBVIOUS
  <1>1. ASSUME NEW r \in Request, Advance(r) PROVE IInv'
    BY <1>1, CountInv, SaveInv, SaveUnansweredInv, InsertInv, UpdateInv, UnansweredInv, LandInv,
       PublishInv, FailInv DEF Advance
  <1>2. CASE Process
    BY <1>2, PassInv, DieInv DEF Process
  <1> QED BY <1>1, <1>2, BeginInv, DeleteInv, TickInv, StutterInv DEF Next

LEMMA Invariant == Spec => []IInv
  <1> QED BY InitInv, NextInv, PTL DEF Spec

-----------------------------------------------------------------------------

\* The types of all variables, and that ids name rows.
THEOREM TypesHold == Spec => []TypeOK
  <1>1. IInv => TypeOK
    BY DEF IInv
  <1> QED BY <1>1, Invariant, PTL

\* An author's rows of the last hour never pass the cap by more than the requests
\* at work at once, less one: an admitted request has a place set aside, and it was
\* admitted below the cap with at most the others' places taken.
THEOREM CapHolds == Spec => []CapHoldsUpToRaces
  <1>1. IInv => CapHoldsUpToRaces
    <2> SUFFICES ASSUME IInv, NEW t \in Table, NEW u \in User, Cap[t] > 0
                 PROVE  Cardinality(Recent(t, u)) + 1 <= Cap[t] + Cardinality(Request)
      BY DEF CapHoldsUpToRaces
    <2> QED BY Countable, PostingAssumption DEF IInv, RoomForAll
  <1> QED BY <1>1, Invariant, PTL

\* Rows and profiles show the picture their request brought, whatever uploads race,
\* fail or go unanswered.
THEOREM PicturesStand == Spec => []PicturesAreTheirOwn
  <1>1. IInv => PicturesAreTheirOwn
    BY DEF IInv
  <1> QED BY <1>1, Invariant, PTL

\* A stop within the ten seconds of Shutdown loses no event: nobody is being
\* served when the publisher closes.
THEOREM StopsAreGraceful == Spec => []EventsOnlyLostToFaults
  <1>1. IInv => EventsOnlyLostToFaults
    BY DEF IInv
  <1> QED BY <1>1, Invariant, PTL
=============================================================================
