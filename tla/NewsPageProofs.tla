--------------------------- MODULE NewsPageProofs ---------------------------
(***************************************************************************)
(* A page shows nothing CanView did not grant, and a walk along the next   *)
(* links skips nothing unless a row goes away behind it: for any number of *)
(* owners and rows and any page size (module NewsPage).                    *)
(*                                                                         *)
(* Offsets count positions, the promise is about rows.  The proof works on *)
(* the ids: feed-builder inserts in front, so the ids of a feed descend,   *)
(* and the position of a visible row is its Place among the visible ids.   *)
(***************************************************************************)
EXTENDS NewsPage, FiniteSetTheorems, SequenceTheorems, TLAPS

\* The position of i among the ids S, the largest first.
Place(i, S) == Cardinality({j \in S : j >= i})

Shown(f) == {f[k].id : k \in {m \in 1..Len(f) : ~f[m].hidden}}
RawIds == {load.raw[m].id : m \in 1..Len(load.raw)}

NTypes ==
    /\ feed \in Seq(Row) /\ lastId \in 0..MaxRows /\ sees \subseteq Owner
    /\ load \in Load /\ could \subseteq Owner
    /\ page \in [offset: Nat, rows: Seq(Row), next: Nat, could: SUBSET Owner]
    /\ walk \in [on: BOOLEAN, done: BOOLEAN, drift: BOOLEAN, owed: SUBSET (1..MaxRows)]
    /\ load.pc = "idle" => load.raw = << >>

\* The ids of a feed descend from the last one given.
NewestFirst ==
    /\ \A k \in 1..Len(feed) : feed[k].id <= lastId
    /\ \A j, k \in 1..Len(feed) : j < k => feed[j].id > feed[k].id

\* A row on the page being made and the row of the feed with its id are of one
\* owner, whom CanView is asked about.
RawIsOfTheFeed ==
    \A m \in 1..Len(load.raw) :
        /\ load.raw[m].id <= lastId
        /\ \A k \in 1..Len(feed) : feed[k].id = load.raw[m].id => feed[k].owner = load.raw[m].owner

\* could has everything granted since the page was asked for.
GrantedMeanwhile == load.can \subseteq could /\ (load.pc = "ask" => sees \subseteq could)

\* What a walk owes is visible and permitted.
OwedIsVisible ==
    \A i \in walk.owed :
        \E k \in 1..Len(feed) : feed[k].id = i /\ ~feed[k].hidden /\ feed[k].owner \in sees

\* Where the entries are that a walk still owes: on the page being made, if it
\* is the last one, else there or behind where the next one starts.
OwedIsAhead ==
    ~walk.drift => \A i \in walk.owed :
        \/ i \in RawIds
        \/ (load.pc = "ask" => load.hasNext) /\ Place(i, Shown(feed)) > Reached

\* An owed entry on the page being made passes the filter or will.
OwedIsGranted ==
    \A i \in walk.owed : \A m \in 1..Len(load.raw) :
        load.raw[m].id = i => load.raw[m].owner \in load.todo \cup load.can

DoneIsDone ==
    walk.done => load.pc = "idle" /\ page.next = 0 /\ (walk.drift \/ walk.owed = {})

WInv ==
    /\ NTypes /\ NewestFirst /\ RawIsOfTheFeed /\ GrantedMeanwhile /\ ShowsOnlyViewable
    /\ OwedIsVisible /\ OwedIsAhead /\ OwedIsGranted /\ DoneIsDone

-----------------------------------------------------------------------------
(* Positions in a finite set *)

\* Counting along a chain of subsets numbers the elements from 1 on.
LEMMA RankIsBijection ==
  ASSUME NEW S, IsFiniteSet(S), NEW B \in [S -> SUBSET S],
         \A x \in S : x \in B[x],
         \A x, y \in S : x # y => \/ x \notin B[y] /\ B[y] \subseteq B[x]
                                  \/ y \notin B[x] /\ B[x] \subseteq B[y]
  PROVE  /\ \A x \in S : Cardinality(B[x]) \in 1..Cardinality(S)
         /\ \A x, y \in S : x # y => Cardinality(B[x]) # Cardinality(B[y])
         /\ \A n \in 1..Cardinality(S) : \E x \in S : Cardinality(B[x]) = n
  <1> DEFINE rank == [x \in S |-> Cardinality(B[x])]
  <1>1. ASSUME NEW x \in S
        PROVE  IsFiniteSet(B[x]) /\ Cardinality(B[x]) \in Nat /\ Cardinality(B[x]) <= Cardinality(S)
    <2>1. B[x] \in SUBSET S
      OBVIOUS
    <2> QED BY <2>1, FS_Subset, FS_CardinalityType
  <1>2. ASSUME NEW x \in S PROVE Cardinality(B[x]) # 0
    BY <1>1, FS_EmptySet
  <1>3. Cardinality(S) \in Nat
    BY FS_CardinalityType
  <1>4. \A x \in S : Cardinality(B[x]) \in 1..Cardinality(S)
    BY <1>1, <1>2, <1>3
  <1>5. ASSUME NEW x \in S, NEW y \in S, x \notin B[y], B[y] \subseteq B[x]
        PROVE  Cardinality(B[x]) # Cardinality(B[y])
    <2>1. B[x] # B[y] /\ B[y] \in SUBSET B[x]
      BY <1>5
    <2> QED BY <2>1, <1>1, FS_Subset
  <1>6. \A x, y \in S : x # y => Cardinality(B[x]) # Cardinality(B[y])
    <2> SUFFICES ASSUME NEW x \in S, NEW y \in S, x # y
                 PROVE  Cardinality(B[x]) # Cardinality(B[y])
      OBVIOUS
    <2>1. CASE x \notin B[y] /\ B[y] \subseteq B[x]
      BY <2>1, <1>5
    <2>2. CASE y \notin B[x] /\ B[x] \subseteq B[y]
      BY <2>2, <1>5
    <2> QED BY <2>1, <2>2
  <1>7. rank \in Injection(S, 1..Cardinality(S))
    BY <1>4, <1>6 DEF Injection, IsInjective
  <1>8. IsFiniteSet(1..Cardinality(S)) /\ Cardinality(1..Cardinality(S)) = Cardinality(S)
    BY <1>3, FS_Interval
  <1>9. rank \in Surjection(S, 1..Cardinality(S))
    BY <1>7, <1>8, FS_Injection
  <1>10. \A n \in 1..Cardinality(S) : \E x \in S : Cardinality(B[x]) = n
    BY <1>9 DEF Surjection
  <1> QED BY <1>4, <1>6, <1>10

\* Places, the largest first.
LEMMA Places ==
  ASSUME NEW S \in SUBSET Int, IsFiniteSet(S)
  PROVE  /\ \A i \in S : Place(i, S) \in 1..Cardinality(S)
         /\ \A n \in 1..Cardinality(S) : \E i \in S : Place(i, S) = n
  <1> DEFINE B == [i \in S |-> {j \in S : j >= i}]
  <1>1. B \in [S -> SUBSET S]
    OBVIOUS
  <1>2. \A x \in S : x \in B[x]
    OBVIOUS
  <1>3. \A x, y \in S : x # y => \/ x \notin B[y] /\ B[y] \subseteq B[x]
                                 \/ y \notin B[x] /\ B[x] \subseteq B[y]
    <2> SUFFICES ASSUME NEW x \in S, NEW y \in S, x # y
                 PROVE  \/ x \notin B[y] /\ B[y] \subseteq B[x]
                        \/ y \notin B[x] /\ B[x] \subseteq B[y]
      OBVIOUS
    <2>1. x \in Int /\ y \in Int /\ \A j \in S : j \in Int
      OBVIOUS
    <2>2. CASE x < y
      <3>1. x \notin B[y] /\ \A j \in S : j >= y => j >= x
        BY <2>1, <2>2
      <3> QED BY <3>1
    <2>3. CASE y < x
      <3>1. y \notin B[x] /\ \A j \in S : j >= x => j >= y
        BY <2>1, <2>3
      <3> QED BY <3>1
    <2> QED BY <2>1, <2>2, <2>3
  <1>4. \A i \in S : Cardinality(B[i]) = Place(i, S)
    BY DEF Place
  <1> HIDE DEF B
  <1>5. /\ \A x \in S : Cardinality(B[x]) \in 1..Cardinality(S)
        /\ \A n \in 1..Cardinality(S) : \E x \in S : Cardinality(B[x]) = n
    BY <1>1, <1>2, <1>3, RankIsBijection
  <1> QED BY <1>4, <1>5

\* The elements of S from i on are finitely many.
LEMMA PlaceType ==
  ASSUME NEW S \in SUBSET Int, IsFiniteSet(S), NEW i \in Int
  PROVE  IsFiniteSet({j \in S : j >= i}) /\ Place(i, S) \in Nat
  <1>1. {j \in S : j >= i} \in SUBSET S
    OBVIOUS
  <1>2. IsFiniteSet({j \in S : j >= i})
    BY <1>1, FS_Subset
  <1> QED BY <1>2, FS_CardinalityType DEF Place

\* What arrives only moves an element back.
LEMMA PlaceGrows ==
  ASSUME NEW T \in SUBSET Int, IsFiniteSet(T), NEW S \in SUBSET T, NEW i \in Int
  PROVE  Place(i, S) <= Place(i, T)
  <1>1. {j \in S : j >= i} \in SUBSET {j \in T : j >= i}
    OBVIOUS
  <1> QED BY <1>1, PlaceType, FS_Subset DEF Place

\* What goes away behind R leaves the others behind R where they are.
LEMMA PlaceKept ==
  ASSUME NEW S \in SUBSET Int, IsFiniteSet(S), NEW D \in SUBSET S, NEW R \in Nat,
         \A d \in D : Place(d, S) > R,
         NEW i \in S \ D, Place(i, S) > R
  PROVE  Place(i, S \ D) > R
  <1> DEFINE F == {j \in S : Place(j, S) <= R}
             A == {j \in S \ D : j >= i}
             place == [j \in F |-> Place(j, S)]
  <1>1. F \in SUBSET S /\ IsFiniteSet(F) /\ Cardinality(F) \in Nat
    <2>1. F \in SUBSET S
      OBVIOUS
    <2> QED BY <2>1, FS_Subset, FS_CardinalityType
  <1>2. \A j \in S : Place(j, S) \in 1..Cardinality(S)
    BY Places
  <1>3. Cardinality(S) \in Nat /\ R <= Cardinality(S)
    BY <1>2, FS_CardinalityType
  <1>4. place \in Surjection(F, 1..R)
    <2>1. place \in [F -> 1..R]
      <3>1. ASSUME NEW j \in F PROVE Place(j, S) \in 1..R
        <4>1. j \in S /\ Place(j, S) <= R
          OBVIOUS
        <4>2. Place(j, S) \in 1..Cardinality(S)
          BY <4>1, <1>2
        <4> QED BY <4>1, <4>2, <1>3
      <3> QED BY <3>1
    <2>2. ASSUME NEW n \in 1..R PROVE \E j \in F : place[j] = n
      <3>1. n \in 1..Cardinality(S)
        BY <1>3
      <3>2. PICK j \in S : Place(j, S) = n
        BY <3>1, Places
      <3> QED BY <3>2
    <2> QED BY <2>1, <2>2 DEF Surjection
  <1>5. R <= Cardinality(F)
    <2>1. Cardinality(1..R) = R
      BY FS_Interval
    <2> HIDE DEF F, place
    <2> QED BY <2>1, <1>1, <1>4, FS_Surjection
  <1>6. ASSUME NEW j \in F PROVE j \in A
    <2>1. j \notin D /\ j \in S
      <3>1. Place(j, S) \in Int
        BY <1>2
      <3> QED BY <3>1
    <2>2. CASE j < i
      <3>0. i \in Int /\ j \in Int /\ \A k \in S : k \in Int
        BY <2>1
      <3>1. {k \in S : k >= i} \in SUBSET {k \in S : k >= j}
        <4>1. \A k \in S : k >= i => k >= j
          BY <2>2, <3>0
        <4> QED BY <4>1
      <3>2. Place(i, S) <= Place(j, S)
        BY <3>0, <3>1, PlaceType, FS_Subset DEF Place
      <3> QED BY <3>2, <1>2
    <2> QED BY <2>1, <2>2
  <1>7. i \notin F
    BY <1>2
  <1>8. IsFiniteSet(A) /\ Cardinality(A) \in Nat
    <2>1. A \in SUBSET S
      OBVIOUS
    <2> QED BY <2>1, FS_Subset, FS_CardinalityType
  <1>9. F \cup {i} \in SUBSET A
    <2>1. i \in A
      OBVIOUS
    <2> QED BY <2>1, <1>6
  <1>10. Cardinality(F \cup {i}) = Cardinality(F) + 1
    BY <1>1, <1>7, FS_AddElement
  <1>11. Cardinality(F \cup {i}) <= Cardinality(A)
    BY <1>8, <1>9, FS_Subset
  <1>12. Cardinality(A) = Place(i, S \ D)
    BY DEF Place
  <1> HIDE DEF F, A
  <1> QED BY <1>1, <1>5, <1>8, <1>10, <1>11, <1>12

-----------------------------------------------------------------------------
(* What is picked of a sequence *)

Up(k, K) == Cardinality({j \in K : j <= k})

LEMMA Picked ==
  ASSUME NEW S, NEW s \in Seq(S), NEW K \in SUBSET (1..Len(s))
  PROVE  /\ Pick(s, K) \in Seq(S)
         /\ Len(Pick(s, K)) = Cardinality(K)
         /\ \A k \in K : Up(k, K) \in 1..Cardinality(K) /\ Pick(s, K)[Up(k, K)] = s[k]
         /\ \A n \in 1..Cardinality(K) : \E k \in K : Pick(s, K)[n] = s[k]
  <1> DEFINE B == [k \in K |-> {j \in K : j <= k}]
             at(n) == CHOOSE k \in K : Cardinality({j \in K : j <= k}) = n
             p == Pick(s, K)
  <1>1. Len(s) \in Nat /\ \A k \in K : k \in Int /\ s[k] \in S
    OBVIOUS
  <1>2. IsFiniteSet(K) /\ Cardinality(K) \in Nat
    <2>1. IsFiniteSet(1..Len(s))
      BY <1>1, FS_Interval
    <2> QED BY <2>1, FS_Subset, FS_CardinalityType
  <1>3. /\ \A k \in K : Up(k, K) \in 1..Cardinality(K)
        /\ \A j, k \in K : j # k => Up(j, K) # Up(k, K)
        /\ \A n \in 1..Cardinality(K) : \E k \in K : Up(k, K) = n
    <2>1. B \in [K -> SUBSET K] /\ \A x \in K : x \in B[x]
      BY <1>1
    <2>2. \A x, y \in K : x # y => \/ x \notin B[y] /\ B[y] \subseteq B[x]
                                   \/ y \notin B[x] /\ B[x] \subseteq B[y]
      <3> SUFFICES ASSUME NEW x \in K, NEW y \in K, x # y
                   PROVE  \/ x \notin B[y] /\ B[y] \subseteq B[x]
                          \/ y \notin B[x] /\ B[x] \subseteq B[y]
        OBVIOUS
      <3>1. CASE x < y
        <4>1. y \notin B[x] /\ \A j \in K : j <= x => j <= y
          BY <1>1, <3>1
        <4> QED BY <4>1
      <3>2. CASE y < x
        <4>1. x \notin B[y] /\ \A j \in K : j <= y => j <= x
          BY <1>1, <3>2
        <4> QED BY <4>1
      <3> QED BY <1>1, <3>1, <3>2
    <2>3. \A k \in K : Cardinality(B[k]) = Up(k, K)
      BY DEF Up
    <2> HIDE DEF B
    <2>4. /\ \A k \in K : Cardinality(B[k]) \in 1..Cardinality(K)
          /\ \A j, k \in K : j # k => Cardinality(B[j]) # Cardinality(B[k])
          /\ \A n \in 1..Cardinality(K) : \E k \in K : Cardinality(B[k]) = n
      BY <1>2, <2>1, <2>2, RankIsBijection
    <2> QED BY <2>3, <2>4
  <1>4. ASSUME NEW n \in 1..Cardinality(K) PROVE at(n) \in K /\ Up(at(n), K) = n
    <2>1. \E k \in K : Cardinality({j \in K : j <= k}) = n
      BY <1>3 DEF Up
    <2> QED BY <2>1 DEF Up
  <1>5. p = [n \in 1..Cardinality(K) |-> s[at(n)]]
    BY DEF Pick
  <1>6. \A k \in K : at(Up(k, K)) = k
    BY <1>3, <1>4
  <1> HIDE DEF at, p
  <1>7. p \in [1..Cardinality(K) -> S]
    BY <1>1, <1>4, <1>5
  <1>8. p \in Seq(S) /\ Len(p) = Cardinality(K)
    <2>1. p \in Seq(S)
      BY <1>2, <1>7, SeqDef
    <2>2. DOMAIN p = 1..Len(p) /\ DOMAIN p = 1..Cardinality(K) /\ Len(p) \in Nat
      BY <1>7, <2>1, LenProperties
    <2> QED BY <1>2, <2>1, <2>2
  <1>9. \A k \in K : p[Up(k, K)] = s[k]
    BY <1>3, <1>5, <1>6
  <1>10. \A n \in 1..Cardinality(K) : \E k \in K : p[n] = s[k]
    BY <1>4, <1>5
  <1> QED BY <1>3, <1>8, <1>9, <1>10 DEF p

-----------------------------------------------------------------------------
(* The visible rows and what ListFeed reads of them *)

VisibleAt == {k \in 1..Len(feed) : ~feed[k].hidden}

LEMMA ShownTypes ==
  ASSUME NEW f \in Seq(Row)
  PROVE  Shown(f) \in SUBSET Int /\ IsFiniteSet(Shown(f))
  <1>1. Shown(f) \in SUBSET (1..MaxRows) /\ IsFiniteSet(1..MaxRows)
    <2>1. \A k \in 1..Len(f) : f[k] \in Row
      OBVIOUS
    <2>2. \A k \in 1..Len(f) : f[k].id \in 1..MaxRows
      BY <2>1 DEF Row
    <2>3. Shown(f) \in SUBSET (1..MaxRows)
      BY <2>2 DEF Shown
    <2>4. IsFiniteSet(1..MaxRows)
      BY NewsPageAssumption, FS_Interval
    <2> QED BY <2>3, <2>4
  <1> QED BY <1>1, NewsPageAssumption, FS_Subset

\* A row's fields, and the bounds of what counts rows.
LEMMA RowTypes ==
  ASSUME NTypes
  PROVE  /\ Len(feed) \in Nat
         /\ \A k \in 1..Len(feed) : feed[k] \in Row /\ feed[k].id \in 1..MaxRows /\ feed[k].owner \in Owner
         /\ Shown(feed) \in SUBSET Int /\ IsFiniteSet(Shown(feed))
         /\ VisibleAt \in SUBSET (1..Len(feed))
         /\ IsFiniteSet(VisibleAt) /\ Cardinality(VisibleAt) \in Nat
  <1>1. Len(feed) \in Nat /\ \A k \in 1..Len(feed) : feed[k] \in Row
    BY DEF NTypes
  <1>2. Shown(feed) \in SUBSET Int /\ IsFiniteSet(Shown(feed))
    BY ShownTypes DEF NTypes
  <1>3. IsFiniteSet(1..Len(feed))
    BY <1>1, FS_Interval
  <1>4. VisibleAt \in SUBSET (1..Len(feed))
    BY DEF VisibleAt
  <1>5. IsFiniteSet(VisibleAt) /\ Cardinality(VisibleAt) \in Nat
    BY <1>3, <1>4, FS_Subset, FS_CardinalityType
  <1>6. \A k \in 1..Len(feed) : feed[k].id \in 1..MaxRows /\ feed[k].owner \in Owner
    BY <1>1 DEF Row
  <1> QED BY <1>1, <1>2, <1>4, <1>5, <1>6

\* Positions are places: the k-th row has as many visible rows up to it as
\* there are visible ids from its own on.
LEMMA RankIsPlace ==
  ASSUME NTypes, NewestFirst, NEW k \in 1..Len(feed)
  PROVE  /\ Rank(k) = Place(feed[k].id, Shown(feed))
         /\ Rank(k) = Up(k, VisibleAt)
         /\ Rank(k) \in Nat
  <1> DEFINE A == {j \in 1..k : ~feed[j].hidden}
             C == {i \in Shown(feed) : i >= feed[k].id}
             f == [j \in A |-> feed[j].id]
  <1>1. Len(feed) \in Nat /\ \A j \in 1..Len(feed) : feed[j].id \in Int
    BY RowTypes
  <1>2. \A j \in 1..k : j \in 1..Len(feed)
    BY <1>1
  <1>3. \A j \in 1..Len(feed) : feed[j].id >= feed[k].id <=> j <= k
    BY <1>1 DEF NewestFirst
  <1>4. f \in Surjection(A, C)
    <2>1. ASSUME NEW j \in A PROVE f[j] \in C
      BY <1>2, <1>3 DEF Shown
    <2>2. ASSUME NEW i \in C PROVE \E j \in A : f[j] = i
      <3>1. PICK j \in 1..Len(feed) : ~feed[j].hidden /\ feed[j].id = i
        BY DEF Shown
      <3>2. j \in A
        BY <1>1, <1>3, <3>1
      <3> QED BY <3>1, <3>2
    <2> QED BY <2>1, <2>2 DEF Surjection
  <1>5. f \in Injection(A, C)
    <2>1. \A i, j \in A : i # j => feed[i].id # feed[j].id
      BY <1>1, <1>2 DEF NewestFirst
    <2>2. \A i, j \in A : f[i] = f[j] => i = j
      BY <2>1
    <2> QED BY <1>4, <2>2 DEF Surjection, Injection, IsInjective
  <1>6. IsFiniteSet(A) /\ Cardinality(A) \in Nat
    <2>1. A \in SUBSET (1..k) /\ IsFiniteSet(1..k)
      BY <1>1, FS_Interval
    <2> QED BY <2>1, FS_Subset, FS_CardinalityType
  <1>7. A = {j \in VisibleAt : j <= k}
    BY <1>1, <1>2 DEF VisibleAt
  <1> HIDE DEF A, C, f
  <1>8. Cardinality(A) = Cardinality(C)
    BY <1>4, <1>5, <1>6, FS_Surjection
  <1>9. Cardinality(A) = Rank(k)
    BY DEF A, Rank
  <1>10. Cardinality(C) = Place(feed[k].id, Shown(feed))
    BY DEF C, Place
  <1> QED BY <1>6, <1>7, <1>8, <1>9, <1>10 DEF Up

\* A page is a part of the visible rows, and reading goes on to the page's end
\* or to the feed's: a row behind the offset is on it, or the next one starts
\* in front of the row.
LEMMA ReadPage ==
  ASSUME NTypes, NewestFirst, NEW offset \in Nat, Read(offset)
  PROVE  /\ load' \in Load /\ load'.pc = "ask" /\ load'.offset = offset
         /\ load'.todo = {load'.raw[m].owner : m \in 1..Len(load'.raw)} /\ load'.can = {}
         /\ could' = sees /\ UNCHANGED <<feed, lastId, sees, page>>
         /\ \A m \in 1..Len(load'.raw) : \E k \in VisibleAt : load'.raw[m] = feed[k]
         /\ \A k \in VisibleAt :
              Rank(k) > offset =>
                \/ \E m \in 1..Len(load'.raw) : load'.raw[m] = feed[k]
                \/ load'.hasNext /\ Rank(k) > offset + Len(load'.raw)
  <1> DEFINE n == Cardinality(VisibleAt)
             got == ListFeed(offset)
             raw == SubSeq(got, 1, Smaller(Limit, Len(got)))
             last == Smaller(offset + Fetch, n)
  <1>1. Limit \in Nat \ {0} /\ n \in Nat
    BY NewsPageAssumption, RowTypes
  <1>2. /\ Visible \in Seq(Row) /\ Len(Visible) = n
        /\ \A k \in VisibleAt : Up(k, VisibleAt) \in 1..n /\ Visible[Up(k, VisibleAt)] = feed[k]
        /\ \A m \in 1..n : \E k \in VisibleAt : Visible[m] = feed[k]
    <2>1. Visible = Pick(feed, VisibleAt)
      BY DEF Visible, VisibleAt
    <2>2. feed \in Seq(Row) /\ VisibleAt \in SUBSET (1..Len(feed))
      BY RowTypes DEF NTypes
    <2> DEFINE p == Pick(feed, VisibleAt)
    <2>3. /\ p \in Seq(Row) /\ Len(p) = n
          /\ \A k \in VisibleAt : Up(k, VisibleAt) \in 1..n /\ p[Up(k, VisibleAt)] = feed[k]
          /\ \A m \in 1..n : \E k \in VisibleAt : p[m] = feed[k]
      BY <2>2, Picked
    <2> QED BY <2>1, <2>3
  <1>3. /\ got \in Seq(Row)
        /\ Len(got) = IF offset + 1 <= last THEN last - offset ELSE 0
        /\ \A m \in 1..Len(got) : m + offset \in 1..n /\ got[m] = Visible[m + offset]
    <2>1. last \in Int /\ last <= n /\ got = SubSeq(Visible, offset + 1, last)
      BY <1>1, <1>2 DEF ListFeed, Smaller, Fetch
    <2>2. \A m \in (offset + 1)..last : Visible[m] \in Row
      BY <1>1, <1>2, <2>1
    <2> HIDE DEF got, last
    <2>3. /\ got \in Seq(Row)
          /\ Len(got) = IF offset + 1 <= last THEN last - (offset + 1) + 1 ELSE 0
          /\ \A m \in 1..(last - (offset + 1) + 1) : got[m] = Visible[(offset + 1) + m - 1]
      BY <2>1, <2>2, SubSeqProperties
    <2> QED BY <1>1, <2>1, <2>3
  <1>4. /\ raw \in Seq(Row)
        /\ Len(raw) = Smaller(Limit, Len(got))
        /\ \A m \in 1..Len(raw) : m \in 1..Len(got) /\ raw[m] = got[m]
    <2> DEFINE most == Smaller(Limit, Len(got))
    <2>1. Len(got) \in Nat /\ most \in Nat /\ most <= Len(got)
      BY <1>1, <1>3 DEF Smaller
    <2> HIDE DEF got, most
    <2>2. \A m \in 1..most : got[m] \in Row
      BY <1>3, <2>1
    <2>3. raw = SubSeq(got, 1, most)
      BY DEF most
    <2>4. /\ SubSeq(got, 1, most) \in Seq(Row)
          /\ Len(SubSeq(got, 1, most)) = IF 1 <= most THEN most - 1 + 1 ELSE 0
          /\ \A m \in 1..(most - 1 + 1) : SubSeq(got, 1, most)[m] = got[1 + m - 1]
      BY <2>1, <2>2, SubSeqProperties
    <2> HIDE DEF raw
    <2>5. Len(raw) = most /\ raw \in Seq(Row)
      BY <2>1, <2>3, <2>4
    <2>6. \A m \in 1..most : raw[m] = got[m] /\ m \in 1..Len(got)
      BY <2>1, <2>3, <2>4
    <2> QED BY <2>5, <2>6 DEF most
  <1>5. /\ load' = [pc |-> "ask", offset |-> offset, raw |-> raw, hasNext |-> Len(got) > Limit,
                    todo |-> {r.owner : r \in Elements(raw)}, can |-> {}]
        /\ could' = sees /\ UNCHANGED <<feed, lastId, sees, page>>
    BY DEF Read
  <1> HIDE DEF got, raw, last, n
  <1>6. {r.owner : r \in Elements(raw)} = {raw[m].owner : m \in 1..Len(raw)}
    BY DEF Elements
  <1>7. \A m \in 1..Len(raw) : \E k \in VisibleAt : raw[m] = feed[k]
    <2> SUFFICES ASSUME NEW m \in 1..Len(raw) PROVE \E k \in VisibleAt : raw[m] = feed[k]
      OBVIOUS
    <2>1. m + offset \in 1..n /\ raw[m] = Visible[m + offset]
      BY <1>3, <1>4
    <2> QED BY <1>2, <2>1
  <1>8. ASSUME NEW k \in VisibleAt, Rank(k) > offset
        PROVE  \/ \E m \in 1..Len(raw) : raw[m] = feed[k]
               \/ Len(got) > Limit /\ Rank(k) > offset + Len(raw)
    <2>1. Rank(k) \in 1..n /\ Visible[Rank(k)] = feed[k] /\ Rank(k) \in Int
      BY <1>1, <1>2, RankIsPlace, RowTypes
    <2>2. CASE Rank(k) - offset \in 1..Len(raw)
      <3>1. raw[Rank(k) - offset] = Visible[Rank(k) - offset + offset]
        BY <1>3, <1>4, <2>2
      <3>2. Rank(k) - offset + offset = Rank(k)
        BY <2>1
      <3> QED BY <2>1, <2>2, <3>1, <3>2
    <2>3. CASE Rank(k) - offset \notin 1..Len(raw)
      <3>1. Len(raw) \in Nat /\ Len(got) \in Nat /\ Rank(k) > offset + Len(raw)
        BY <1>3, <1>4, <1>8, <2>1, <2>3, LenProperties
      <3> QED BY <1>1, <1>3, <1>4, <2>1, <3>1 DEF last, Smaller, Fetch
    <2> QED BY <2>2, <2>3
  <1>9. {raw[m].owner : m \in 1..Len(raw)} \in SUBSET Owner
    BY <1>7, RowTypes
  <1>10. load' \in Load
    <2>1. (Len(got) > Limit) \in BOOLEAN
      OBVIOUS
    <2> QED BY <1>4, <1>5, <1>6, <1>9, <2>1 DEF Load
  <1> QED BY <1>5, <1>6, <1>7, <1>8, <1>10

-----------------------------------------------------------------------------
(* The invariant is inductive: LoadFeed *)

LEMMA InitInv == Init => WInv
  <1> SUFFICES ASSUME Init PROVE WInv
    OBVIOUS
  <1>1. feed = << >> /\ Len(feed) = 0 /\ load = Idle /\ page = NoPage /\ walk = NoWalk /\ lastId = 0
    BY DEF Init
  <1>2. << >> \in Seq(Row) /\ Len(load.raw) = 0 /\ Len(page.rows) = 0
    BY <1>1 DEF Idle, NoPage
  <1>3. NTypes
    BY <1>1, <1>2, NewsPageAssumption DEF Init, NTypes, Load, Idle, NoPage, NoWalk
  <1>4. NewestFirst /\ RawIsOfTheFeed /\ GrantedMeanwhile /\ ShowsOnlyViewable
    BY <1>1, <1>2 DEF NewestFirst, RawIsOfTheFeed, GrantedMeanwhile, ShowsOnlyViewable, Elements, Idle
  <1>5. walk.owed = {} /\ ~walk.done
    BY <1>1 DEF NoWalk
  <1> QED BY <1>3, <1>4, <1>5 DEF WInv, OwedIsVisible, OwedIsAhead, OwedIsGranted, DoneIsDone

\* A page is read: what the walk owes is behind the offset.
LEMMA ReadStep ==
  ASSUME WInv, NEW offset \in Nat, Read(offset),
         walk' \in [on: BOOLEAN, done: BOOLEAN, drift: BOOLEAN, owed: SUBSET (1..MaxRows)],
         ~walk'.done,
         \A i \in walk'.owed :
             \E k \in 1..Len(feed) : feed[k].id = i /\ ~feed[k].hidden /\ feed[k].owner \in sees,
         ~walk'.drift => \A i \in walk'.owed : Place(i, Shown(feed)) > offset
  PROVE  WInv'
  <1>1. NTypes /\ NewestFirst
    BY DEF WInv
  <1>2. /\ load' \in Load /\ load'.pc = "ask" /\ load'.offset = offset
        /\ load'.todo = {load'.raw[m].owner : m \in 1..Len(load'.raw)} /\ load'.can = {}
        /\ could' = sees /\ UNCHANGED <<feed, lastId, sees, page>>
        /\ \A m \in 1..Len(load'.raw) : \E k \in VisibleAt : load'.raw[m] = feed[k]
        /\ \A k \in VisibleAt :
              Rank(k) > offset =>
                \/ \E m \in 1..Len(load'.raw) : load'.raw[m] = feed[k]
                \/ load'.hasNext /\ Rank(k) > offset + Len(load'.raw)
    BY <1>1, ReadPage
  <1>3. NTypes'
    BY <1>1, <1>2 DEF NTypes
  <1>4. NewestFirst'
    BY <1>1, <1>2 DEF NewestFirst
  <1>5. RawIsOfTheFeed'
    <2> SUFFICES ASSUME NEW m \in 1..Len(load'.raw)
                 PROVE  /\ load'.raw[m].id <= lastId
                        /\ \A k \in 1..Len(feed) :
                             feed[k].id = load'.raw[m].id => feed[k].owner = load'.raw[m].owner
      BY <1>2 DEF RawIsOfTheFeed
    <2>1. PICK j \in 1..Len(feed) : load'.raw[m] = feed[j]
      BY <1>2 DEF VisibleAt
    <2>2. \A k \in 1..Len(feed) : feed[k].id = feed[j].id => k = j
      BY <1>1, RowTypes DEF NewestFirst
    <2> QED BY <1>1, <2>1, <2>2 DEF NewestFirst
  <1>6. GrantedMeanwhile' /\ ShowsOnlyViewable'
    BY <1>2 DEF WInv, GrantedMeanwhile, ShowsOnlyViewable
  <1>7. OwedIsVisible'
    BY <1>2 DEF OwedIsVisible
  <1>8. OwedIsAhead'
    <2> SUFFICES ASSUME ~walk'.drift, NEW i \in walk'.owed
                 PROVE  i \in RawIds' \/ (load'.hasNext /\ Place(i, Shown(feed)) > Reached')
      BY <1>2 DEF OwedIsAhead
    <2>1. PICK k \in VisibleAt : feed[k].id = i
      BY DEF VisibleAt
    <2>2. Rank(k) = Place(i, Shown(feed)) /\ Rank(k) > offset
      BY <1>1, <2>1, RankIsPlace DEF VisibleAt
    <2>3. Reached' = offset + Len(load'.raw)
      BY <1>2 DEF Reached
    <2>4. CASE \E m \in 1..Len(load'.raw) : load'.raw[m] = feed[k]
      <3>1. PICK m \in 1..Len(load'.raw) : load'.raw[m].id = i
        BY <2>1, <2>4
      <3> QED BY <3>1 DEF RawIds
    <2>5. CASE load'.hasNext /\ Rank(k) > offset + Len(load'.raw)
      BY <2>2, <2>3, <2>5
    <2> QED BY <1>2, <2>2, <2>4, <2>5
  <1>9. OwedIsGranted' /\ DoneIsDone'
    BY <1>2 DEF OwedIsGranted, DoneIsDone
  <1> QED BY <1>3, <1>4, <1>5, <1>6, <1>7, <1>8, <1>9 DEF WInv

LEMMA OpenFirstStep == ASSUME WInv, OpenFirst PROVE WInv'
  <1>1. Read(0) /\ walk' = [on |-> TRUE, done |-> FALSE, drift |-> FALSE, owed |-> Owed] /\ NTypes /\ NewestFirst
    BY DEF WInv, OpenFirst
  <1>2. ASSUME NEW i \in Owed
        PROVE  \E k \in VisibleAt : feed[k].id = i /\ feed[k].owner \in sees
    <2>1. PICK m \in 1..Len(Visible) : Visible[m].id = i /\ Visible[m].owner \in sees
      BY DEF Owed, Elements
    <2>2. feed \in Seq(Row) /\ VisibleAt \in SUBSET (1..Len(feed)) /\ Visible = Pick(feed, VisibleAt)
      BY <1>1, RowTypes DEF NTypes, Visible, VisibleAt
    <2>3. PICK k \in VisibleAt : Visible[m] = feed[k]
      <3>1. \A n \in 1..Len(Pick(feed, VisibleAt)) : \E k \in VisibleAt : Pick(feed, VisibleAt)[n] = feed[k]
        BY <2>2, Picked
      <3> QED BY <2>2, <3>1
    <2> QED BY <2>1, <2>3
  <1>3. walk' \in [on: BOOLEAN, done: BOOLEAN, drift: BOOLEAN, owed: SUBSET (1..MaxRows)]
    BY <1>1, <1>2, RowTypes
  <1>4. \A i \in walk'.owed : /\ \E k \in 1..Len(feed) : feed[k].id = i /\ ~feed[k].hidden /\ feed[k].owner \in sees
                              /\ i \in Shown(feed)
    BY <1>1, <1>2 DEF VisibleAt, Shown
  <1>5. \A i \in walk'.owed : Place(i, Shown(feed)) > 0
    <2>1. \A i \in Shown(feed) : Place(i, Shown(feed)) \in 1..Cardinality(Shown(feed))
      BY <1>1, RowTypes, Places
    <2>2. Cardinality(Shown(feed)) \in Nat
      BY <1>1, RowTypes, FS_CardinalityType
    <2> QED BY <1>4, <2>1, <2>2
  <1> QED BY <1>1, <1>3, <1>4, <1>5, ReadStep

LEMMA OpenNextStep == ASSUME WInv, OpenNext PROVE WInv'
  <1>1. page.next # 0 /\ page.next \in Nat /\ Read(page.next) /\ walk' = walk /\ load.pc = "idle"
    BY DEF OpenNext, Read, WInv, NTypes
  <1>2. RawIds = {} /\ Reached = page.next
    BY <1>1 DEF RawIds, Reached, WInv, NTypes
  <1>3. ~walk.done
    BY <1>1 DEF WInv, DoneIsDone
  <1>4. ~walk.drift => \A i \in walk.owed : Place(i, Shown(feed)) > page.next
    BY <1>2 DEF WInv, OwedIsAhead
  <1> QED BY <1>1, <1>3, <1>4, ReadStep DEF WInv, NTypes, OwedIsVisible

LEMMA OpenPrevStep == ASSUME WInv, OpenPrev PROVE WInv'
  <1>1. Read(PrevPage) /\ walk' = NoWalk
    BY DEF OpenPrev
  <1>2. PrevPage \in Nat
    BY NewsPageAssumption DEF PrevPage, WInv, NTypes
  <1>3. /\ walk' \in [on: BOOLEAN, done: BOOLEAN, drift: BOOLEAN, owed: SUBSET (1..MaxRows)]
        /\ ~walk'.done /\ walk'.owed = {}
    BY <1>1 DEF NoWalk
  <1> QED BY <1>1, <1>2, <1>3, ReadStep

LEMMA AskCanViewStep == ASSUME WInv, NEW o \in Owner, AskCanView(o) PROVE WInv'
  <1>1. /\ load.pc = "ask" /\ o \in load.todo
        /\ load' = [load EXCEPT !.todo = @ \ {o}, !.can = @ \cup ({o} \cap sees)]
        /\ UNCHANGED <<feed, lastId, sees, page, could, walk>>
    BY DEF AskCanView, aux
  <1>2. load \in Load
    BY DEF WInv, NTypes
  <1>3. /\ load' \in Load /\ load'.pc = "ask" /\ load'.offset = load.offset /\ load'.raw = load.raw
        /\ load'.hasNext = load.hasNext
        /\ load'.todo = load.todo \ {o} /\ load'.can = load.can \cup ({o} \cap sees)
    BY <1>1, <1>2 DEF Load
  <1>4. NTypes' /\ NewestFirst' /\ RawIsOfTheFeed' /\ ShowsOnlyViewable' /\ OwedIsVisible'
    BY <1>1, <1>3 DEF WInv, NTypes, NewestFirst, RawIsOfTheFeed, ShowsOnlyViewable, OwedIsVisible
  <1>5. GrantedMeanwhile'
    BY <1>1, <1>3 DEF WInv, GrantedMeanwhile
  <1>6. OwedIsAhead'
    BY <1>1, <1>3 DEF WInv, OwedIsAhead, RawIds, Reached
  <1>7. OwedIsGranted'
    <2> SUFFICES ASSUME NEW i \in walk.owed, NEW m \in 1..Len(load.raw), load.raw[m].id = i
                 PROVE  load.raw[m].owner \in load'.todo \cup load'.can
      BY <1>1, <1>3 DEF OwedIsGranted
    <2>1. load.raw[m].owner \in load.todo \cup load.can
      BY DEF WInv, OwedIsGranted
    <2>2. load.raw[m].owner \in sees
      BY DEF WInv, OwedIsVisible, RawIsOfTheFeed
    <2> QED BY <1>3, <2>1, <2>2
  <1>8. DoneIsDone'
    BY <1>1 DEF WInv, DoneIsDone
  <1> QED BY <1>4, <1>5, <1>6, <1>7, <1>8 DEF WInv

LEMMA ShowStep == ASSUME WInv, Show PROVE WInv'
  <1> DEFINE K == {k \in 1..Len(load.raw) : load.raw[k].owner \in load.can}
             v == Views(load)
  <1>1. /\ load.pc = "ask" /\ load.todo = {}
        /\ page' = [offset |-> load.offset, rows |-> v, next |-> NextPage(load), could |-> could]
        /\ load' = Idle
        /\ walk' = [walk EXCEPT !.owed = @ \ {r.id : r \in Elements(v)}, !.done = ~load.hasNext]
        /\ UNCHANGED <<feed, lastId, sees, could>>
    BY DEF Show
  <1>2. /\ load \in Load /\ load.raw \in Seq(Row) /\ K \in SUBSET (1..Len(load.raw))
        /\ could \subseteq Owner /\ load.offset \in Nat /\ Len(load.raw) \in Nat
    BY DEF WInv, NTypes, Load
  <1>3. /\ v \in Seq(Row) /\ Len(v) = Cardinality(K)
        /\ \A k \in K : Up(k, K) \in 1..Cardinality(K) /\ v[Up(k, K)] = load.raw[k]
        /\ \A n \in 1..Cardinality(K) : \E k \in K : v[n] = load.raw[k]
    <2> DEFINE p == Pick(load.raw, K)
    <2>1. v = p
      BY DEF Views
    <2>2. /\ p \in Seq(Row) /\ Len(p) = Cardinality(K)
          /\ \A k \in K : Up(k, K) \in 1..Cardinality(K) /\ p[Up(k, K)] = load.raw[k]
          /\ \A n \in 1..Cardinality(K) : \E k \in K : p[n] = load.raw[k]
      <3> HIDE DEF K
      <3> QED BY <1>2, Picked
    <2> HIDE DEF p, v, K
    <2> QED BY <2>1, <2>2
  <1> HIDE DEF v
  <1>4. \A r \in Elements(v) : r.owner \in load.can
    BY <1>3 DEF Elements
  <1>5. walk'.on = walk.on /\ walk'.done = ~load.hasNext /\ walk'.drift = walk.drift
        /\ walk'.owed = walk.owed \ {r.id : r \in Elements(v)}
    BY <1>1 DEF WInv, NTypes
  <1>6. \A i \in walk.owed \cap RawIds : i \notin walk'.owed
    <2> SUFFICES ASSUME NEW i \in walk.owed, NEW m \in 1..Len(load.raw), load.raw[m].id = i
                 PROVE  i \in {r.id : r \in Elements(v)}
      BY <1>5 DEF RawIds
    <2>1. m \in K
      BY <1>1 DEF WInv, OwedIsGranted
    <2> QED BY <1>3, <2>1 DEF Elements
  <1>7. page'.next = NextPage(load) /\ page'.rows = v /\ page'.could = could
    BY <1>1
  <1>8. NTypes'
    <2>1. NextPage(load) \in Nat
      BY <1>2 DEF NextPage
    <2>2. page' \in [offset: Nat, rows: Seq(Row), next: Nat, could: SUBSET Owner]
      BY <1>1, <1>2, <1>3, <2>1
    <2>3. walk' \in [on: BOOLEAN, done: BOOLEAN, drift: BOOLEAN, owed: SUBSET (1..MaxRows)]
      BY <1>1, <1>2 DEF WInv, NTypes, Load
    <2>4. load' \in Load /\ load'.raw = << >>
      BY <1>1 DEF Idle, Load
    <2> QED BY <1>1, <2>2, <2>3, <2>4 DEF WInv, NTypes
  <1>9. Len(load'.raw) = 0 /\ load'.pc = "idle" /\ load'.can = {}
    BY <1>1 DEF Idle
  <1>10. NewestFirst' /\ RawIsOfTheFeed' /\ GrantedMeanwhile'
    BY <1>1, <1>9 DEF WInv, NewestFirst, RawIsOfTheFeed, GrantedMeanwhile
  <1>11. ShowsOnlyViewable'
    BY <1>4, <1>7 DEF WInv, GrantedMeanwhile, ShowsOnlyViewable
  <1>12. OwedIsVisible'
    BY <1>1, <1>5 DEF WInv, OwedIsVisible
  <1>13. ASSUME ~walk.drift, NEW i \in walk'.owed
         PROVE  load.hasNext /\ Place(i, Shown(feed)) > page'.next
    BY <1>1, <1>5, <1>6, <1>7, <1>13 DEF WInv, OwedIsAhead, Reached, NextPage
  <1>14. OwedIsAhead'
    BY <1>1, <1>5, <1>9, <1>13 DEF OwedIsAhead, Reached
  <1>15. OwedIsGranted'
    BY <1>9 DEF OwedIsGranted
  <1>16. DoneIsDone'
    <2> SUFFICES ASSUME walk'.done, ~walk'.drift PROVE walk'.owed = {}
      BY <1>5, <1>7, <1>9 DEF DoneIsDone, NextPage
    <2> QED BY <1>5, <1>13
  <1> QED BY <1>8, <1>10, <1>11, <1>12, <1>14, <1>15, <1>16 DEF WInv

LEMMA FailStep == ASSUME WInv, Fail PROVE WInv'
  <1>1. load' = Idle /\ page' = NoPage /\ walk' = NoWalk /\ UNCHANGED <<feed, lastId, sees, could>>
    BY DEF Fail
  <1>2. load' \in Load /\ load'.raw = << >> /\ load'.pc = "idle" /\ load'.can = {}
    BY <1>1 DEF Idle, Load
  <1>3. page'.rows = << >> /\ walk'.owed = {} /\ ~walk'.done
    BY <1>1 DEF NoPage, NoWalk
  <1>4. NTypes'
    BY <1>1, <1>2 DEF WInv, NTypes, NoPage, NoWalk
  <1>5. NewestFirst' /\ RawIsOfTheFeed' /\ GrantedMeanwhile' /\ ShowsOnlyViewable'
    BY <1>1, <1>2, <1>3 DEF WInv, NewestFirst, RawIsOfTheFeed, GrantedMeanwhile, ShowsOnlyViewable, Elements
  <1> QED BY <1>3, <1>4, <1>5
          DEF WInv, OwedIsVisible, OwedIsAhead, OwedIsGranted, DoneIsDone

-----------------------------------------------------------------------------
(* The invariant is inductive: the feed and the permissions meanwhile *)

\* What comes into sight only moves the entries back.
LEMMA AheadOfArrivals ==
  ASSUME WInv, UNCHANGED <<load, page, walk>>, Shown(feed) \subseteq Shown(feed'),
         Shown(feed') \in SUBSET Int, IsFiniteSet(Shown(feed'))
  PROVE  OwedIsAhead'
  <1>1. RawIds' = RawIds /\ Reached' = Reached /\ Reached \in Nat
    BY DEF RawIds, Reached, WInv, NTypes, Load
  <1>2. ASSUME NEW i \in walk.owed
        PROVE  /\ Place(i, Shown(feed)) \in Nat /\ Place(i, Shown(feed')) \in Nat
               /\ Place(i, Shown(feed)) <= Place(i, Shown(feed'))
    <2>1. i \in Int
      BY NewsPageAssumption DEF WInv, NTypes
    <2> QED BY <2>1, RowTypes, PlaceGrows, PlaceType DEF WInv
  <1> QED BY <1>1, <1>2 DEF WInv, OwedIsAhead

\* What leaves, leaves the others where they are, or the walk has drifted.
LEMMA AheadOfDepartures ==
  ASSUME WInv, UNCHANGED <<load, page>>, NEW D \in SUBSET Shown(feed),
         Shown(feed') = Shown(feed) \ D, walk'.owed \subseteq walk.owed \ D,
         ~walk'.drift => ~walk.drift /\ \A d \in D : Place(d, Shown(feed)) > Reached
  PROVE  OwedIsAhead'
  <1>1. RawIds' = RawIds /\ Reached' = Reached /\ Reached \in Nat
    BY DEF RawIds, Reached, WInv, NTypes, Load
  <1>2. ASSUME ~walk'.drift, NEW i \in walk'.owed, Place(i, Shown(feed)) > Reached
        PROVE  Place(i, Shown(feed')) > Reached
    <2>1. i \in Shown(feed) \ D
      BY DEF WInv, OwedIsVisible, Shown
    <2> QED BY <1>1, <1>2, <2>1, RowTypes, PlaceKept DEF WInv
  <1> QED BY <1>1, <1>2 DEF WInv, OwedIsAhead

LEMMA InsertRowStep ==
  ASSUME WInv, NEW o \in Owner, NEW hidden \in BOOLEAN, InsertRow(o, hidden)
  PROVE  WInv'
  <1> DEFINE new == [id |-> lastId + 1, owner |-> o, hidden |-> hidden]
  <1>1. /\ lastId < MaxRows /\ lastId' = lastId + 1 /\ feed' = << new >> \o feed
        /\ UNCHANGED <<sees, load, page, could, walk>>
    BY DEF InsertRow, aux
  <1>2. NTypes /\ NewestFirst /\ feed \in Seq(Row) /\ Len(feed) \in Nat /\ lastId \in Nat
    BY NewsPageAssumption DEF WInv, NTypes
  <1>3. new \in Row /\ new.id = lastId + 1
    BY <1>1, <1>2, NewsPageAssumption DEF Row
  <1> HIDE DEF new
  <1>4. /\ feed' \in Seq(Row) /\ Len(feed') = Len(feed) + 1
        /\ \A k \in 1..Len(feed') : feed'[k] = IF k = 1 THEN new ELSE feed[k - 1]
    <2>1. << new >> \in Seq(Row) /\ Len(<< new >>) = 1 /\ << new >>[1] = new
      BY <1>3
    <2> QED BY <1>1, <1>2, <2>1, ConcatProperties
  <1>5. \A k \in 1..Len(feed) : k + 1 \in 1..Len(feed') /\ feed'[k + 1] = feed[k]
    BY <1>2, <1>4
  <1>6. \A k \in 1..Len(feed') : k = 1 \/ k - 1 \in 1..Len(feed)
    BY <1>2, <1>4
  <1>7. NTypes'
    BY <1>1, <1>2, <1>4, NewsPageAssumption DEF NTypes
  <1>8. NewestFirst'
    <2>1. \A k \in 1..Len(feed) : feed[k].id \in Int
      BY <1>2, RowTypes
    <2>2. \A k \in 1..Len(feed') : feed'[k].id <= lastId'
      <3> SUFFICES ASSUME NEW k \in 1..Len(feed') PROVE feed'[k].id <= lastId'
        OBVIOUS
      <3>1. CASE k = 1
        BY <1>1, <1>2, <1>3, <1>4, <3>1
      <3>2. CASE k # 1
        <4>1. k - 1 \in 1..Len(feed) /\ feed'[k] = feed[k - 1]
          BY <1>2, <1>4, <3>2
        <4>2. feed[k - 1].id <= lastId /\ feed[k - 1].id \in Int
          BY <1>2, <2>1, <4>1 DEF NewestFirst
        <4> QED BY <1>1, <1>2, <4>1, <4>2
      <3> QED BY <3>1, <3>2
    <2>3. ASSUME NEW j \in 1..Len(feed'), NEW k \in 1..Len(feed'), j < k
          PROVE  feed'[j].id > feed'[k].id
      <3>1. k - 1 \in 1..Len(feed) /\ feed'[k] = feed[k - 1]
        BY <1>2, <1>4, <2>3
      <3>2. CASE j = 1
        BY <1>2, <1>3, <1>4, <2>1, <3>1, <3>2 DEF NewestFirst
      <3>3. CASE j # 1
        <4>1. j - 1 \in 1..Len(feed) /\ feed'[j] = feed[j - 1] /\ j - 1 < k - 1
          BY <1>2, <1>4, <2>3, <3>3
        <4> QED BY <1>2, <3>1, <4>1 DEF NewestFirst
      <3> QED BY <3>2, <3>3
    <2> QED BY <2>2, <2>3 DEF NewestFirst
  <1>9. RawIsOfTheFeed'
    <2> SUFFICES ASSUME NEW m \in 1..Len(load.raw)
                 PROVE  /\ load.raw[m].id <= lastId'
                        /\ \A k \in 1..Len(feed') :
                             feed'[k].id = load.raw[m].id => feed'[k].owner = load.raw[m].owner
      BY <1>1 DEF RawIsOfTheFeed
    <2>1. load.raw[m].id <= lastId /\ load.raw[m].id \in Int
      <3>1. load.raw[m] \in Row
        BY DEF WInv, NTypes, Load
      <3> QED BY <3>1 DEF WInv, RawIsOfTheFeed, Row
    <2>2. load.raw[m].id # new.id /\ load.raw[m].id <= lastId'
      BY <1>1, <1>2, <1>3, <2>1
    <2>3. ASSUME NEW k \in 1..Len(feed'), feed'[k].id = load.raw[m].id
          PROVE  feed'[k].owner = load.raw[m].owner
      <3>1. k - 1 \in 1..Len(feed) /\ feed'[k] = feed[k - 1]
        BY <1>4, <1>6, <2>2, <2>3
      <3> QED BY <2>3, <3>1 DEF WInv, RawIsOfTheFeed
    <2> QED BY <2>2, <2>3
  <1>10. GrantedMeanwhile' /\ ShowsOnlyViewable'
    BY <1>1 DEF WInv, GrantedMeanwhile, ShowsOnlyViewable
  <1>11. OwedIsVisible'
    <2> SUFFICES ASSUME NEW i \in walk.owed
                 PROVE  \E k \in 1..Len(feed') :
                            feed'[k].id = i /\ ~feed'[k].hidden /\ feed'[k].owner \in sees
      BY <1>1 DEF OwedIsVisible
    <2>1. PICK k \in 1..Len(feed) : feed[k].id = i /\ ~feed[k].hidden /\ feed[k].owner \in sees
      BY DEF WInv, OwedIsVisible
    <2> QED BY <1>5, <2>1
  <1>12. OwedIsAhead'
    <2>1. Shown(feed) \subseteq Shown(feed')
      BY <1>5 DEF Shown
    <2>2. Shown(feed') \in SUBSET Int /\ IsFiniteSet(Shown(feed'))
      BY <1>4, ShownTypes
    <2> QED BY <1>1, <2>1, <2>2, AheadOfArrivals
  <1>13. OwedIsGranted' /\ DoneIsDone'
    BY <1>1 DEF WInv, OwedIsGranted, DoneIsDone
  <1> QED BY <1>7, <1>8, <1>9, <1>10, <1>11, <1>12, <1>13 DEF WInv

LEMMA DeleteRowStep == ASSUME WInv, NEW k \in 1..Len(feed), DeleteRow(k) PROVE WInv'
  <1> DEFINE D == IF feed[k].hidden THEN {} ELSE {feed[k].id}
             s1 == SubSeq(feed, 1, k - 1)
             s2 == SubSeq(feed, k + 1, Len(feed))
  <1>1. /\ feed' = s1 \o s2
        /\ walk' = [walk EXCEPT !.owed = @ \ {feed[k].id},
                      !.drift = @ \/ (~feed[k].hidden /\ Rank(k) <= Reached)]
        /\ UNCHANGED <<lastId, sees, load, page, could>>
    BY DEF DeleteRow, Leaves
  <1>2. /\ NTypes /\ NewestFirst /\ feed \in Seq(Row) /\ Len(feed) \in Nat
        /\ \A j \in 1..Len(feed) : feed[j] \in Row /\ feed[j].id \in Int
        /\ \A i, j \in 1..Len(feed) : i # j => feed[i].id # feed[j].id
    BY RowTypes DEF WInv, NTypes, NewestFirst
  <1>3. /\ feed' \in Seq(Row) /\ Len(feed') = Len(feed) - 1
        /\ \A j \in 1..Len(feed') : feed'[j] = IF j < k THEN feed[j] ELSE feed[j + 1]
    <2>1. /\ s1 \in Seq(Row) /\ Len(s1) = k - 1
          /\ \A j \in 1..(k - 1) : s1[j] = feed[j]
      <3>1. \A j \in 1..(k - 1) : feed[j] \in Row
        BY <1>2
      <3>2. /\ s1 \in Seq(Row) /\ Len(s1) = IF 1 <= k - 1 THEN k - 1 - 1 + 1 ELSE 0
            /\ \A j \in 1..(k - 1 - 1 + 1) : s1[j] = feed[1 + j - 1]
        BY <1>2, <3>1, SubSeqProperties
      <3> HIDE DEF s1
      <3> QED BY <1>2, <3>2
    <2>2. /\ s2 \in Seq(Row) /\ Len(s2) = Len(feed) - k
          /\ \A j \in 1..(Len(feed) - k) : s2[j] = feed[k + j]
      <3>1. \A j \in (k + 1)..Len(feed) : feed[j] \in Row
        BY <1>2
      <3>2. /\ s2 \in Seq(Row) /\ Len(s2) = IF k + 1 <= Len(feed) THEN Len(feed) - (k + 1) + 1 ELSE 0
            /\ \A j \in 1..(Len(feed) - (k + 1) + 1) : s2[j] = feed[(k + 1) + j - 1]
        BY <1>2, <3>1, SubSeqProperties
      <3> HIDE DEF s2
      <3> QED BY <1>2, <3>2
    <2> HIDE DEF s1, s2
    <2>3. /\ feed' \in Seq(Row) /\ Len(feed') = Len(s1) + Len(s2)
          /\ \A j \in 1..(Len(s1) + Len(s2)) : feed'[j] = IF j <= Len(s1) THEN s1[j] ELSE s2[j - Len(s1)]
      BY <1>1, <2>1, <2>2, ConcatProperties
    <2>4. Len(feed') = Len(feed) - 1
      BY <1>2, <2>1, <2>2, <2>3
    <2>5. ASSUME NEW j \in 1..Len(feed') PROVE feed'[j] = IF j < k THEN feed[j] ELSE feed[j + 1]
      <3>1. CASE j < k
        BY <1>2, <2>1, <2>2, <2>3, <2>4, <3>1
      <3>2. CASE j >= k
        <4>1. j - (k - 1) \in 1..(Len(feed) - k) /\ k + (j - (k - 1)) = j + 1
          BY <1>2, <2>4, <3>2
        <4>2. feed'[j] = s2[j - (k - 1)]
          BY <1>2, <2>1, <2>2, <2>3, <2>4, <3>2
        <4> QED BY <1>2, <2>2, <3>2, <4>1, <4>2
      <3> QED BY <1>2, <3>1, <3>2
    <2> QED BY <2>3, <2>4, <2>5
  <1> HIDE DEF s1, s2
  <1>4. ASSUME NEW j \in 1..Len(feed')
        PROVE  \E i \in 1..Len(feed) : i # k /\ feed'[j] = feed[i] /\ (i = j \/ i = j + 1) /\ (j >= k => i > k)
                                       /\ (j < k => i = j) /\ (j >= k => i = j + 1)
    <2>1. CASE j < k
      BY <1>2, <1>3, <2>1
    <2>2. CASE j >= k
      <3>1. j + 1 \in 1..Len(feed) /\ feed'[j] = feed[j + 1] /\ j + 1 # k
        BY <1>2, <1>3, <2>2
      <3> QED BY <1>2, <2>2, <3>1
    <2> QED BY <1>2, <2>1, <2>2
  <1>5. ASSUME NEW i \in 1..Len(feed), i # k
        PROVE  \E j \in 1..Len(feed') : feed'[j] = feed[i]
    <2>1. CASE i < k
      <3>1. i \in 1..Len(feed') /\ feed'[i] = feed[i]
        BY <1>2, <1>3, <2>1
      <3> QED BY <3>1
    <2>2. CASE i > k
      <3>1. i - 1 \in 1..Len(feed') /\ ~(i - 1 < k) /\ i - 1 + 1 = i
        BY <1>2, <1>3, <2>2
      <3>2. feed'[i - 1] = feed[i]
        BY <1>3, <3>1
      <3> QED BY <3>1, <3>2
    <2> QED BY <1>2, <1>5, <2>1, <2>2
  <1>6. walk'.on = walk.on /\ walk'.done = walk.done /\ walk'.owed = walk.owed \ {feed[k].id}
        /\ walk'.drift = (walk.drift \/ (~feed[k].hidden /\ Rank(k) <= Reached))
    BY <1>1 DEF WInv, NTypes
  <1>7. NTypes'
    <2>1. walk' \in [on: BOOLEAN, done: BOOLEAN, drift: BOOLEAN, owed: SUBSET (1..MaxRows)]
      BY <1>1 DEF WInv, NTypes
    <2> QED BY <1>1, <1>2, <1>3, <2>1 DEF NTypes
  <1>8. NewestFirst'
    <2>1. \A j \in 1..Len(feed') : feed'[j].id <= lastId'
      BY <1>1, <1>2, <1>4 DEF NewestFirst
    <2>2. ASSUME NEW i \in 1..Len(feed'), NEW j \in 1..Len(feed'), i < j
          PROVE  feed'[i].id > feed'[j].id
      <3>1. PICK a \in 1..Len(feed) : feed'[i] = feed[a] /\ (i < k => a = i) /\ (i >= k => a = i + 1)
        BY <1>4
      <3>2. PICK b \in 1..Len(feed) : feed'[j] = feed[b] /\ (j < k => b = j) /\ (j >= k => b = j + 1)
        BY <1>4
      <3>3. a < b
        BY <1>2, <1>3, <2>2, <3>1, <3>2
      <3> QED BY <1>2, <3>1, <3>2, <3>3 DEF NewestFirst
    <2> QED BY <2>1, <2>2 DEF NewestFirst
  <1>9. RawIsOfTheFeed'
    <2> SUFFICES ASSUME NEW m \in 1..Len(load.raw)
                 PROVE  /\ load.raw[m].id <= lastId
                        /\ \A j \in 1..Len(feed') :
                             feed'[j].id = load.raw[m].id => feed'[j].owner = load.raw[m].owner
      BY <1>1 DEF RawIsOfTheFeed
    <2>1. ASSUME NEW j \in 1..Len(feed'), feed'[j].id = load.raw[m].id
          PROVE  feed'[j].owner = load.raw[m].owner
      <3>1. PICK a \in 1..Len(feed) : feed'[j] = feed[a]
        BY <1>4
      <3> QED BY <2>1, <3>1 DEF WInv, RawIsOfTheFeed
    <2> QED BY <2>1 DEF WInv, RawIsOfTheFeed
  <1>10. GrantedMeanwhile' /\ ShowsOnlyViewable'
    BY <1>1 DEF WInv, GrantedMeanwhile, ShowsOnlyViewable
  <1>11. OwedIsVisible'
    <2> SUFFICES ASSUME NEW i \in walk'.owed
                 PROVE  \E j \in 1..Len(feed') :
                            feed'[j].id = i /\ ~feed'[j].hidden /\ feed'[j].owner \in sees
      BY <1>1 DEF OwedIsVisible
    <2>1. PICK j \in 1..Len(feed) : feed[j].id = i /\ ~feed[j].hidden /\ feed[j].owner \in sees
      BY <1>6 DEF WInv, OwedIsVisible
    <2>2. j # k
      BY <1>6, <2>1
    <2> QED BY <1>5, <2>1, <2>2
  <1>12. OwedIsAhead'
    <2>1. D \in SUBSET Shown(feed)
      BY DEF Shown
    <2>2. Shown(feed') = Shown(feed) \ D
      <3>1. ASSUME NEW i \in Shown(feed') PROVE i \in Shown(feed) /\ i \notin D
        <4>1. PICK j \in 1..Len(feed') : feed'[j].id = i /\ ~feed'[j].hidden
          BY <3>1 DEF Shown
        <4>2. PICK a \in 1..Len(feed) : a # k /\ feed'[j] = feed[a]
          BY <1>4
        <4> QED BY <1>2, <4>1, <4>2 DEF Shown
      <3>2. ASSUME NEW i \in Shown(feed), i \notin D PROVE i \in Shown(feed')
        <4>1. PICK a \in 1..Len(feed) : feed[a].id = i /\ ~feed[a].hidden
          BY <3>2 DEF Shown
        <4>2. a # k
          BY <3>2, <4>1
        <4>3. PICK j \in 1..Len(feed') : feed'[j] = feed[a]
          BY <1>5, <4>2
        <4> QED BY <4>1, <4>3 DEF Shown
      <3> QED BY <3>1, <3>2
    <2>3. ~walk'.drift => ~walk.drift /\ \A d \in D : Place(d, Shown(feed)) > Reached
      <3>1. Rank(k) = Place(feed[k].id, Shown(feed)) /\ Rank(k) \in Nat
        BY <1>2, RankIsPlace
      <3>2. Reached \in Nat
        BY DEF Reached, WInv, NTypes, Load
      <3>3. CASE ~feed[k].hidden
        <4>1. D = {feed[k].id}
          BY <3>3
        <4>2. ~walk'.drift => ~walk.drift /\ ~(Rank(k) <= Reached)
          BY <1>6, <3>3
        <4> QED BY <3>1, <3>2, <4>1, <4>2
      <3>4. CASE feed[k].hidden
        BY <1>6, <3>4
      <3> QED BY <3>3, <3>4
    <2>4. walk'.owed \subseteq walk.owed \ D
      BY <1>6
    <2> HIDE DEF D
    <2> QED BY <1>1, <2>1, <2>2, <2>3, <2>4, AheadOfDepartures
  <1>13. OwedIsGranted' /\ DoneIsDone'
    BY <1>1, <1>6 DEF WInv, OwedIsGranted, DoneIsDone
  <1> QED BY <1>7, <1>8, <1>9, <1>10, <1>11, <1>12, <1>13 DEF WInv

\* Hiding and showing one owner's rows touches nothing but their flags.
LEMMA Flagged ==
  ASSUME WInv, NEW o \in Owner, NEW b \in BOOLEAN, UNCHANGED <<lastId, load>>,
         feed' = [k \in 1..Len(feed) |->
                    IF feed[k].owner = o THEN [feed[k] EXCEPT !.hidden = b] ELSE feed[k]]
  PROVE  /\ feed' \in Seq(Row) /\ Len(feed') = Len(feed)
         /\ \A k \in 1..Len(feed) :
              /\ feed'[k].id = feed[k].id /\ feed'[k].owner = feed[k].owner
              /\ feed'[k].hidden = IF feed[k].owner = o THEN b ELSE feed[k].hidden
         /\ NewestFirst' /\ RawIsOfTheFeed'
  <1>1. Len(feed) \in Nat /\ \A k \in 1..Len(feed) : feed[k] \in Row
    BY RowTypes DEF WInv
  <1>2. ASSUME NEW k \in 1..Len(feed)
        PROVE  /\ feed'[k] \in Row /\ feed'[k].id = feed[k].id /\ feed'[k].owner = feed[k].owner
               /\ feed'[k].hidden = IF feed[k].owner = o THEN b ELSE feed[k].hidden
    BY <1>1 DEF Row
  <1>3. feed' \in [1..Len(feed) -> Row]
    BY <1>1 DEF Row
  <1>4. feed' \in Seq(Row) /\ Len(feed') = Len(feed)
    <2>1. feed' \in Seq(Row)
      BY <1>1, <1>3, SeqDef
    <2>2. DOMAIN feed' = 1..Len(feed') /\ DOMAIN feed' = 1..Len(feed) /\ Len(feed') \in Nat
      BY <1>3, <2>1, LenProperties
    <2> QED BY <1>1, <2>1, <2>2
  <1>5. NewestFirst' /\ RawIsOfTheFeed'
    BY <1>2, <1>4 DEF WInv, NewestFirst, RawIsOfTheFeed
  <1> QED BY <1>2, <1>4, <1>5

LEMMA HideRowsStep == ASSUME WInv, NEW o \in Owner, HideRows(o) PROVE WInv'
  <1> DEFINE D == {feed[k].id : k \in {m \in VisibleAt : feed[m].owner = o}}
  <1>1. /\ walk' = [walk EXCEPT !.owed = {i \in @ : \A r \in Elements(feed) : r.id = i => r.owner # o},
                      !.drift = @ \/ \E k \in 1..Len(feed) :
                                   feed[k].owner = o /\ ~feed[k].hidden /\ Rank(k) <= Reached]
        /\ UNCHANGED <<lastId, sees, load, page, could>>
    BY DEF HideRows
  <1>2. /\ NTypes /\ NewestFirst /\ Len(feed) \in Nat
        /\ \A i, j \in 1..Len(feed) : i # j => feed[i].id # feed[j].id
    BY RowTypes DEF WInv, NewestFirst
  <1>3. /\ feed' \in Seq(Row) /\ Len(feed') = Len(feed)
        /\ \A k \in 1..Len(feed) :
              /\ feed'[k].id = feed[k].id /\ feed'[k].owner = feed[k].owner
              /\ feed'[k].hidden = IF feed[k].owner = o THEN TRUE ELSE feed[k].hidden
        /\ NewestFirst' /\ RawIsOfTheFeed'
    BY <1>1, Flagged DEF HideRows
  <1>4. /\ walk'.on = walk.on /\ walk'.done = walk.done
        /\ walk'.owed \subseteq walk.owed
        /\ \A i \in walk'.owed : \A k \in 1..Len(feed) : feed[k].id = i => feed[k].owner # o
    BY <1>1 DEF WInv, NTypes, Elements
  <1>5. ~walk'.drift => /\ ~walk.drift
                        /\ \A k \in 1..Len(feed) :
                             feed[k].owner = o /\ ~feed[k].hidden => ~(Rank(k) <= Reached)
    BY <1>1 DEF WInv, NTypes
  <1>6. NTypes'
    <2>1. walk' \in [on: BOOLEAN, done: BOOLEAN, drift: BOOLEAN, owed: SUBSET (1..MaxRows)]
      BY <1>1 DEF WInv, NTypes
    <2> QED BY <1>1, <1>2, <1>3, <2>1 DEF NTypes
  <1>7. GrantedMeanwhile' /\ ShowsOnlyViewable'
    BY <1>1 DEF WInv, GrantedMeanwhile, ShowsOnlyViewable
  <1>8. OwedIsVisible'
    <2> SUFFICES ASSUME NEW i \in walk'.owed
                 PROVE  \E j \in 1..Len(feed') :
                            feed'[j].id = i /\ ~feed'[j].hidden /\ feed'[j].owner \in sees
      BY <1>1 DEF OwedIsVisible
    <2>1. PICK j \in 1..Len(feed) : feed[j].id = i /\ ~feed[j].hidden /\ feed[j].owner \in sees
      BY <1>4 DEF WInv, OwedIsVisible
    <2> QED BY <1>3, <1>4, <2>1
  <1>9. OwedIsAhead'
    <2>1. D \in SUBSET Shown(feed)
      BY DEF Shown, VisibleAt
    <2>2. Shown(feed') = Shown(feed) \ D
      <3>1. ASSUME NEW i \in Shown(feed') PROVE i \in Shown(feed) /\ i \notin D
        <4>1. PICK j \in 1..Len(feed) : feed[j].id = i /\ ~feed[j].hidden /\ feed[j].owner # o
          BY <1>3, <3>1 DEF Shown
        <4>2. i \in Shown(feed)
          BY <4>1 DEF Shown
        <4> QED BY <1>2, <4>1, <4>2 DEF VisibleAt
      <3>2. ASSUME NEW i \in Shown(feed), i \notin D PROVE i \in Shown(feed')
        <4>1. PICK a \in 1..Len(feed) : feed[a].id = i /\ ~feed[a].hidden
          BY DEF Shown
        <4>2. feed[a].owner # o
          BY <3>2, <4>1 DEF VisibleAt
        <4>3. a \in 1..Len(feed') /\ feed'[a].id = i /\ ~feed'[a].hidden
          BY <1>3, <4>1, <4>2
        <4> QED BY <4>3 DEF Shown
      <3> QED BY <3>1, <3>2
    <2>3. ~walk'.drift => ~walk.drift /\ \A d \in D : Place(d, Shown(feed)) > Reached
      <3> SUFFICES ASSUME ~walk'.drift, NEW d \in D PROVE Place(d, Shown(feed)) > Reached
        BY <1>5
      <3>1. PICK k \in 1..Len(feed) : ~feed[k].hidden /\ feed[k].owner = o /\ feed[k].id = d
        BY DEF VisibleAt
      <3>2. Rank(k) = Place(d, Shown(feed)) /\ Rank(k) \in Nat
        BY <1>2, <3>1, RankIsPlace
      <3>3. Reached \in Nat
        BY DEF Reached, WInv, NTypes, Load
      <3> QED BY <1>5, <3>1, <3>2, <3>3
    <2>4. walk'.owed \subseteq walk.owed \ D
      BY <1>4 DEF VisibleAt
    <2> HIDE DEF D
    <2> QED BY <1>1, <2>1, <2>2, <2>3, <2>4, AheadOfDepartures
  <1>10. OwedIsGranted'
    BY <1>1, <1>4 DEF WInv, OwedIsGranted
  <1>11. DoneIsDone'
    BY <1>1, <1>4, <1>5 DEF WInv, DoneIsDone
  <1> QED BY <1>3, <1>6, <1>7, <1>8, <1>9, <1>10, <1>11 DEF WInv

LEMMA ShowRowsStep == ASSUME WInv, NEW o \in Owner, ShowRows(o) PROVE WInv'
  <1>1. UNCHANGED <<lastId, sees, load, page, could, walk>>
    BY DEF ShowRows, aux
  <1>2. /\ feed' \in Seq(Row) /\ Len(feed') = Len(feed)
        /\ \A k \in 1..Len(feed) :
              /\ feed'[k].id = feed[k].id /\ feed'[k].owner = feed[k].owner
              /\ feed'[k].hidden = IF feed[k].owner = o THEN FALSE ELSE feed[k].hidden
        /\ NewestFirst' /\ RawIsOfTheFeed'
    BY <1>1, Flagged DEF ShowRows
  <1>3. NTypes' /\ GrantedMeanwhile' /\ ShowsOnlyViewable' /\ OwedIsGranted' /\ DoneIsDone'
    BY <1>1, <1>2 DEF WInv, NTypes, GrantedMeanwhile, ShowsOnlyViewable, OwedIsGranted, DoneIsDone
  <1>4. \A k \in 1..Len(feed) : ~feed[k].hidden => ~feed'[k].hidden
    BY <1>2
  <1>5. OwedIsVisible'
    <2> SUFFICES ASSUME NEW i \in walk.owed
                 PROVE  \E j \in 1..Len(feed') :
                            feed'[j].id = i /\ ~feed'[j].hidden /\ feed'[j].owner \in sees
      BY <1>1 DEF OwedIsVisible
    <2>1. PICK j \in 1..Len(feed) : feed[j].id = i /\ ~feed[j].hidden /\ feed[j].owner \in sees
      BY DEF WInv, OwedIsVisible
    <2> QED BY <1>2, <1>4, <2>1
  <1>6. OwedIsAhead'
    <2>1. Shown(feed) \subseteq Shown(feed')
      BY <1>2, <1>4 DEF Shown
    <2>2. Shown(feed') \in SUBSET Int /\ IsFiniteSet(Shown(feed'))
      BY <1>2, ShownTypes
    <2> QED BY <1>1, <2>1, <2>2, AheadOfArrivals
  <1> QED BY <1>2, <1>3, <1>5, <1>6 DEF WInv

LEMMA RefuseStep == ASSUME WInv, NEW o \in Owner, Refuse(o) PROVE WInv'
  <1>1. /\ sees' = sees \ {o}
        /\ walk' = [walk EXCEPT !.owed = {i \in @ : \A r \in Elements(feed) : r.id = i => r.owner # o}]
        /\ UNCHANGED <<feed, lastId, load, page, could>>
    BY DEF Refuse
  <1>2. /\ walk'.on = walk.on /\ walk'.done = walk.done /\ walk'.drift = walk.drift
        /\ walk'.owed \subseteq walk.owed
        /\ \A i \in walk'.owed : \A k \in 1..Len(feed) : feed[k].id = i => feed[k].owner # o
    BY <1>1 DEF WInv, NTypes, Elements
  <1>3. NTypes'
    <2>1. walk' \in [on: BOOLEAN, done: BOOLEAN, drift: BOOLEAN, owed: SUBSET (1..MaxRows)]
      BY <1>1 DEF WInv, NTypes
    <2> QED BY <1>1, <2>1 DEF WInv, NTypes
  <1>4. NewestFirst' /\ RawIsOfTheFeed' /\ GrantedMeanwhile' /\ ShowsOnlyViewable'
    BY <1>1 DEF WInv, NewestFirst, RawIsOfTheFeed, GrantedMeanwhile, ShowsOnlyViewable
  <1>5. OwedIsVisible'
    BY <1>1, <1>2 DEF WInv, OwedIsVisible
  <1>6. OwedIsAhead'
    BY <1>1, <1>2 DEF WInv, OwedIsAhead, RawIds, Reached
  <1>7. OwedIsGranted' /\ DoneIsDone'
    BY <1>1, <1>2 DEF WInv, OwedIsGranted, DoneIsDone
  <1> QED BY <1>3, <1>4, <1>5, <1>6, <1>7 DEF WInv

LEMMA GrantStep == ASSUME WInv, NEW o \in Owner, Grant(o) PROVE WInv'
  <1>1. /\ sees' = sees \cup {o} /\ could' = could \cup {o}
        /\ UNCHANGED <<feed, lastId, load, page, walk>>
    BY DEF Grant
  <1>2. NTypes' /\ NewestFirst' /\ RawIsOfTheFeed' /\ GrantedMeanwhile' /\ ShowsOnlyViewable'
    BY <1>1 DEF WInv, NTypes, NewestFirst, RawIsOfTheFeed, GrantedMeanwhile, ShowsOnlyViewable
  <1>3. OwedIsVisible' /\ OwedIsAhead' /\ OwedIsGranted' /\ DoneIsDone'
    BY <1>1 DEF WInv, OwedIsVisible, OwedIsAhead, OwedIsGranted, DoneIsDone, RawIds, Reached
  <1> QED BY <1>2, <1>3 DEF WInv

-----------------------------------------------------------------------------
(* The theorems *)

LEMMA WalkInvariant == Spec => []WInv
  <1>1. WInv /\ [Next]_vars => WInv'
    <2> SUFFICES ASSUME WInv, [Next]_vars PROVE WInv'
      OBVIOUS
    <2>1. CASE UNCHANGED vars
      <3> USE <2>1 DEF vars, aux
      <3>1. NTypes' /\ NewestFirst' /\ RawIsOfTheFeed'
        BY DEF WInv, NTypes, NewestFirst, RawIsOfTheFeed
      <3>2. GrantedMeanwhile' /\ ShowsOnlyViewable' /\ OwedIsVisible'
        BY DEF WInv, GrantedMeanwhile, ShowsOnlyViewable, OwedIsVisible
      <3>3. OwedIsAhead'
        <4>1. RawIds' = RawIds /\ Reached' = Reached /\ Shown(feed') = Shown(feed)
          BY DEF RawIds, Reached
        <4> QED BY <4>1 DEF WInv, OwedIsAhead
      <3>4. OwedIsGranted' /\ DoneIsDone'
        BY DEF WInv, OwedIsGranted, DoneIsDone
      <3> QED BY <3>1, <3>2, <3>3, <3>4 DEF WInv
    <2>2. CASE OpenFirst \/ OpenNext \/ OpenPrev
      BY <2>2, OpenFirstStep, OpenNextStep, OpenPrevStep
    <2>3. CASE Show \/ Fail
      BY <2>3, ShowStep, FailStep
    <2>4. ASSUME NEW o \in Owner,
                 \/ AskCanView(o) \/ HideRows(o) \/ ShowRows(o) \/ Refuse(o) \/ Grant(o)
                 \/ \E hidden \in BOOLEAN : InsertRow(o, hidden)
          PROVE  WInv'
      BY <2>4, AskCanViewStep, InsertRowStep, HideRowsStep, ShowRowsStep, RefuseStep, GrantStep
    <2>5. ASSUME NEW k \in 1..Len(feed), DeleteRow(k) PROVE WInv'
      BY <2>5, DeleteRowStep
    <2> QED BY <2>1, <2>2, <2>3, <2>4, <2>5 DEF Next
  <1> QED BY <1>1, InitInv, PTL DEF Spec

\* A load keeps rows of the feed, an offset and owners, and a page its rows and
\* the offset of the next, however the feed changes.
THEOREM NewsPageTypes == Spec => []TypeOK
  <1>1. WInv => TypeOK
    BY DEF WInv, NTypes, TypeOK
  <1> QED BY <1>1, WalkInvariant, PTL

\* Whatever the feed-builder inserts, hides, shows or deletes between the
\* statements of LoadFeed, and however permissions change, an entry on a page
\* is of a wall CanView granted since the page was asked for
\* (news/service.go:127-131), for any number of owners and rows and any page size.
THEOREM PagesShowOnlyViewable == Spec => []ShowsOnlyViewable
  <1>1. WInv => ShowsOnlyViewable
    BY DEF WInv
  <1> QED BY <1>1, WalkInvariant, PTL

\* The offsets of the next links (news/service.go:163) skip nothing: of what
\* was visible and permitted all along, a walk to the last page has shown
\* everything, unless a row in front of the offset went away.
THEOREM WalksSkipNothing == Spec => []NothingSkipped
  <1>1. WInv => NothingSkipped
    BY DEF WInv, DoneIsDone, NothingSkipped
  <1> QED BY <1>1, WalkInvariant, PTL

=============================================================================
