--------------------------- MODULE AccountsProofs ---------------------------
(***************************************************************************)
(* Theorems about Accounts for any number of users, invites and concurrent *)
(* registrations.                                                          *)
(***************************************************************************)
EXTENDS Accounts, FiniteSetTheorems, TLAPS

\* The statements a registration with an invite executes before its Commit.
Inviting == {"consume", "insert", "commit"}

\* A row that is inserted and not committed has an id and an e-mail no other
\* row has, committed or not: what the indexes see to.
PendingRowsAreNew ==
    \A r \in Request : At(r, "commit") =>
        /\ reg[r].id \in User
        /\ \A x \in users : x.id # reg[r].id /\ x.email # reg[r].email
        /\ \A s \in Request : At(s, "commit") /\ s # r =>
             reg[s].id # reg[r].id /\ reg[s].email # reg[r].email

\* A registration at work has an e-mail, and past its INSERT an id.
WorkIsKnown ==
    \A r \in Request :
        /\ Active(r) => reg[r].email \in Email
        /\ reg[r].pc \in {"request", "wall", "profile", "issue"} => reg[r].id \in User
        /\ At(r, "request") => reg[r].inviter \in User

\* Whoever invited somebody has a row.
InvitersExist == \A x \in users : x.invitedBy \in Ids(users) \cup {None}

IInv == /\ TypeOK /\ IsFiniteSet(users)
        /\ PendingRowsAreNew /\ WorkIsKnown /\ InvitersExist
        /\ InvitesAddUp /\ OneAccountPerEmail

-----------------------------------------------------------------------------

LEMMA NoneIsNobody == ASSUME IInv, NEW u \in User PROVE u # None
  BY AccountsAssumption

LEMMA InitInv == Init => IInv
  <1> SUFFICES ASSUME Init PROVE IInv
    OBVIOUS
  <1> USE AccountsAssumption DEF Init
  <1>1. TypeOK
    BY DEF TypeOK, Row, Ids, Idle, Registration, Step, Table, Scope
  <1>2. PendingRowsAreNew /\ WorkIsKnown
    BY DEF PendingRowsAreNew, WorkIsKnown, At, Active, Idle
  <1>3. InvitersExist
    BY DEF InvitersExist
  <1>4. OneAccountPerEmail
    BY DEF OneAccountPerEmail
  <1>5. ASSUME NEW x \in users
        PROVE  left[x.id] + Cardinality(Invited(x.id)) + Cardinality(Holding(x.id)) = InvitesPerUser
    <2>1. x.id \in User /\ x.id # None
      OBVIOUS
    <2>2. Invited(x.id) = {} /\ Holding(x.id) = {}
      BY <2>1 DEF Invited, Holding, Spending, Idle
    <2>3. left[x.id] = InvitesPerUser
      BY <2>1 DEF Ids
    <2> QED BY <2>2, <2>3, FS_EmptySet
  <1> QED BY <1>1, <1>2, <1>3, <1>4, <1>5 DEF IInv, InvitesAddUp

\* The sets InvitesAddUp counts are finite.
LEMMA Countable ==
  ASSUME IInv, NEW v
  PROVE  /\ IsFiniteSet(Invited(v)) /\ Cardinality(Invited(v)) \in Nat
         /\ IsFiniteSet(Holding(v)) /\ Cardinality(Holding(v)) \in Nat
  <1>1. Invited(v) \subseteq users /\ Holding(v) \subseteq Request
    BY DEF Invited, Holding
  <1> QED BY <1>1, FS_Subset, FS_CardinalityType, AccountsAssumption DEF IInv

\* A step that leaves the rows and the counters alone and in which nobody
\* opens or ends a transaction.
LEMMA NothingSpent ==
  ASSUME IInv, users' = users, left' = left,
         \A s \in Request, v \in User : Spending(s, v)' <=> Spending(s, v)
  PROVE  InvitesAddUp'
  <1>1. \A v : Invited(v)' = Invited(v)
    BY DEF Invited
  <1>2. \A v \in User : Holding(v)' = Holding(v)
    BY DEF Holding
  <1> QED BY <1>1, <1>2 DEF IInv, TypeOK, Row, InvitesAddUp

\* A registration goes on in a way that opens or ends no transaction.
LEMMA GoOnInv ==
  ASSUME IInv, NEW r \in Request, NEW n \in Registration,
         reg' = [reg EXCEPT ![r] = n],
         UNCHANGED <<users, left>>,
         requests' \in SUBSET (User \X User),
         saved' \in [Table -> [User -> Scope \cup {NoRow}]],
         reg[r].pc \notin {"insert", "commit"}, n.pc \notin {"insert", "commit"},
         n.pc = "consume" => n.inviter \in Ids(users),
         n.pc # "idle" => n.email \in Email,
         n.pc \in {"request", "wall", "profile", "issue"} => n.id \in User,
         n.pc # "request"
  PROVE  IInv'
  <1> USE DEF IInv
  <1>1. \A s \in Request : reg'[s] = IF s = r THEN n ELSE reg[s]
    BY DEF TypeOK
  <1>2. TypeOK'
    BY <1>1 DEF TypeOK, Registration, Ids
  <1>3. PendingRowsAreNew'
    BY <1>1 DEF PendingRowsAreNew, At
  <1>4. WorkIsKnown'
    BY <1>1 DEF WorkIsKnown, At, Active
  <1>5. \A s \in Request, w \in User : Spending(s, w)' <=> Spending(s, w)
    BY <1>1 DEF Spending
  <1>6. InvitesAddUp'
    BY <1>5, NothingSpent
  <1>7. InvitersExist' /\ OneAccountPerEmail' /\ IsFiniteSet(users)'
    BY DEF InvitersExist, Ids, OneAccountPerEmail
  <1> QED BY <1>2, <1>3, <1>4, <1>6, <1>7

\* A registration ends without a transaction.
LEMMA ReturnInv ==
  ASSUME IInv, NEW r \in Request, Return(r), UNCHANGED tables,
         reg[r].pc \notin {"insert", "commit"}
  PROVE  IInv'
  <1>1. Idle \in Registration /\ Idle.pc = "idle"
    BY DEF Idle, Registration, Step
  <1>2. requests' \in SUBSET (User \X User) /\ saved' \in [Table -> [User -> Scope \cup {NoRow}]]
    BY DEF tables, IInv, TypeOK
  <1>3. UNCHANGED <<users, left>> /\ reg' = [reg EXCEPT ![r] = Idle]
    BY DEF tables, Return
  <1> QED BY <1>1, <1>2, <1>3, GoOnInv

\* A registration goes to its next statement; no transaction is open.
LEMMA GotoInv ==
  ASSUME IInv, NEW r \in Request, NEW pc \in {"wall", "profile", "issue"}, Goto(r, pc),
         reg[r].pc \in {"request", "wall", "profile"},
         UNCHANGED <<users, left>>,
         requests' \in SUBSET (User \X User),
         saved' \in [Table -> [User -> Scope \cup {NoRow}]]
  PROVE  IInv'
  <1> DEFINE n == [reg[r] EXCEPT !.pc = pc]
  <1>1. reg[r] \in Registration /\ reg[r].email \in Email /\ reg[r].id \in User
    BY DEF IInv, TypeOK, WorkIsKnown, Active, At
  <1>2. n \in Registration /\ n.pc = pc /\ n.email = reg[r].email /\ n.id = reg[r].id
    BY <1>1 DEF Registration, Step
  <1>3. reg' = [reg EXCEPT ![r] = n]
    BY <1>1 DEF Goto
  <1> HIDE DEF n
  <1> QED BY <1>1, <1>2, <1>3, GoOnInv

LEMMA BeginInv ==
  ASSUME IInv, NEW r \in Request, NEW e \in Email,
         BeginOpen(r, e) \/ \E v \in User : BeginInvited(r, e, v)
  PROVE  IInv'
  <1>1. PICK v \in User \cup {None}, pc \in {"create", "consume"} :
          Begin(r, e, v, pc) /\ (pc = "consume" => v \in Ids(users))
    BY DEF BeginOpen, BeginInvited
  <1> DEFINE n == [pc |-> pc, email |-> e, inviter |-> v, id |-> None]
  <1>2. n \in Registration /\ n.pc = pc /\ n.inviter = v /\ n.email = e
    BY DEF Registration, Step
  <1>3. reg' = [reg EXCEPT ![r] = n] /\ UNCHANGED tables /\ reg[r].pc = "idle"
    BY <1>1 DEF Begin, At
  <1>4. requests' \in SUBSET (User \X User) /\ saved' \in [Table -> [User -> Scope \cup {NoRow}]]
    BY <1>3 DEF tables, IInv, TypeOK
  <1> HIDE DEF n
  <1> QED BY <1>1, <1>2, <1>3, <1>4, GoOnInv DEF tables

-----------------------------------------------------------------------------
(* Transactions *)

\* A registration opens its transaction and takes an invite.
LEMMA ConsumeInv == ASSUME IInv, NEW r \in Request, Consume(r) PROVE IInv'
  <1> DEFINE w == reg[r].inviter
  <1>1. reg[r].pc = "consume" /\ w \in Ids(users) /\ w \in User /\ reg[r] \in Registration
    BY DEF Consume, At, IInv, TypeOK, Ids, Row
  <1>2. CASE left[w] > 0
    <2>1. left' = [left EXCEPT ![w] = @ - 1] /\ Goto(r, "insert")
          /\ UNCHANGED <<users, requests, saved>>
      BY <1>2 DEF Consume, HasInvite
    <2>2. \A s \in Request : reg'[s] = IF s = r THEN [reg[r] EXCEPT !.pc = "insert"] ELSE reg[s]
      BY <2>1, <1>1 DEF Goto, IInv, TypeOK
    <2>3. left' \in [User -> Nat] /\ left'[w] = left[w] - 1
          /\ \A v \in User : v # w => left'[v] = left[v]
      BY <2>1, <1>1, <1>2 DEF IInv, TypeOK
    <2>4. reg' \in [Request -> Registration]
      BY <2>1, <1>1 DEF Goto, IInv, TypeOK, Registration, Step
    <2>5. TypeOK'
      <3>1. \A s \in Request : reg'[s].pc \in {"consume", "insert", "commit"} => reg'[s].inviter \in Ids(users)
        BY <2>2, <1>1 DEF IInv, TypeOK, Registration
      <3> QED BY <2>1, <2>3, <2>4, <3>1 DEF IInv, TypeOK, Ids
    <2>6. PendingRowsAreNew' /\ WorkIsKnown'
      BY <2>1, <2>2, <1>1 DEF IInv, PendingRowsAreNew, WorkIsKnown, At, Active, Registration
    <2>7. InvitersExist' /\ OneAccountPerEmail' /\ IsFiniteSet(users)'
      BY <2>1 DEF IInv, InvitersExist, Ids, OneAccountPerEmail
    <2>8. InvitesAddUp'
      <3>1. SUFFICES ASSUME NEW x \in users
                     PROVE  left'[x.id] + Cardinality(Invited(x.id)') + Cardinality(Holding(x.id)')
                              = InvitesPerUser
        BY <2>1 DEF InvitesAddUp
      <3>2. Invited(x.id)' = Invited(x.id) /\ x.id \in User
        BY <2>1 DEF Invited, IInv, TypeOK, Row
      <3>3. CASE x.id # w
        <4>1. Holding(x.id)' = Holding(x.id)
          BY <2>2, <3>3, <1>1 DEF Holding, Spending, Registration
        <4> QED BY <4>1, <3>2, <3>3, <2>3 DEF IInv, InvitesAddUp
      <3>4. CASE x.id = w
        <4>1. Holding(x.id)' = Holding(x.id) \cup {r} /\ r \notin Holding(x.id)
          BY <2>2, <3>4, <1>1 DEF Holding, Spending, Registration
        <4>2. Cardinality(Holding(x.id)') = Cardinality(Holding(x.id)) + 1
          BY <4>1, Countable, FS_AddElement
        <4>3. left[x.id] + Cardinality(Invited(x.id)) + Cardinality(Holding(x.id)) = InvitesPerUser
          BY DEF IInv, InvitesAddUp
        <4>4. left[x.id] \in Nat /\ Cardinality(Invited(x.id)) \in Nat /\ Cardinality(Holding(x.id)) \in Nat
          BY <3>2, Countable DEF IInv, TypeOK
        <4> QED BY <4>2, <4>3, <4>4, <3>2, <3>4, <2>3
      <3> QED BY <3>3, <3>4
    <2> QED BY <2>1, <2>5, <2>6, <2>7, <2>8 DEF IInv
  <1>3. CASE ~(left[w] > 0)
    BY <1>1, <1>3, ReturnInv DEF Consume, HasInvite, tables
  <1> QED BY <1>2, <1>3

\* A registration ends its transaction without Commit and gives the invite back.
LEMMA RollbackInv ==
  ASSUME IInv, NEW r \in Request, reg[r].pc \in {"insert", "commit"},
         Return(r), left' = RolledBack(r), UNCHANGED <<users, requests, saved>>
  PROVE  IInv'
  <1> DEFINE w == reg[r].inviter
  <1>1. w \in Ids(users) /\ w \in User /\ reg[r] \in Registration /\ Spending(r, w)
    BY DEF IInv, TypeOK, Ids, Row, Spending
  <1>2. \A s \in Request : reg'[s] = IF s = r THEN Idle ELSE reg[s]
    BY DEF Return, IInv, TypeOK
  <1>3. left' = [left EXCEPT ![w] = @ + 1]
    BY DEF RolledBack
  <1>4. left' \in [User -> Nat] /\ left'[w] = left[w] + 1
        /\ \A v \in User : v # w => left'[v] = left[v]
    BY <1>1, <1>3 DEF IInv, TypeOK
  <1>5. reg' \in [Request -> Registration]
    BY DEF Return, IInv, TypeOK, Registration, Step, Idle
  <1>6. TypeOK'
    BY <1>2, <1>4, <1>5 DEF IInv, TypeOK, Ids, Idle
  <1>7. PendingRowsAreNew' /\ WorkIsKnown'
    BY <1>2 DEF IInv, PendingRowsAreNew, WorkIsKnown, At, Active, Idle
  <1>8. InvitersExist' /\ OneAccountPerEmail' /\ IsFiniteSet(users)'
    BY DEF IInv, InvitersExist, Ids, OneAccountPerEmail
  <1>9. InvitesAddUp'
    <2>1. SUFFICES ASSUME NEW x \in users
                   PROVE  left'[x.id] + Cardinality(Invited(x.id)') + Cardinality(Holding(x.id)')
                            = InvitesPerUser
      BY DEF InvitesAddUp
    <2>2. Invited(x.id)' = Invited(x.id) /\ x.id \in User
      BY DEF Invited, IInv, TypeOK, Row
    <2>3. CASE x.id # w
      <3>1. Holding(x.id)' = Holding(x.id)
        BY <1>2, <2>3 DEF Holding, Spending, Idle
      <3> QED BY <3>1, <2>2, <2>3, <1>4 DEF IInv, InvitesAddUp
    <2>4. CASE x.id = w
      <3>1. Holding(x.id)' = Holding(x.id) \ {r} /\ r \in Holding(x.id)
        BY <1>1, <1>2, <2>4 DEF Holding, Spending, Idle
      <3>2. Cardinality(Holding(x.id)') = Cardinality(Holding(x.id)) - 1
        BY <3>1, Countable, FS_RemoveElement
      <3>3. left[x.id] + Cardinality(Invited(x.id)) + Cardinality(Holding(x.id)) = InvitesPerUser
        BY DEF IInv, InvitesAddUp
      <3>4. left[x.id] \in Nat /\ Cardinality(Invited(x.id)) \in Nat /\ Cardinality(Holding(x.id)) \in Nat
        BY <2>2, Countable DEF IInv, TypeOK
      <3> QED BY <3>2, <3>3, <3>4, <2>2, <2>4, <1>4
    <2> QED BY <2>3, <2>4
  <1> QED BY <1>6, <1>7, <1>8, <1>9 DEF IInv

\* A transaction inserts its row: the id and the e-mail are taken from now on.
LEMMA InsertUserInv == ASSUME IInv, NEW r \in Request, InsertUser(r) PROVE IInv'
  <1>1. reg[r].pc = "insert" /\ reg[r] \in Registration /\ reg[r].email \in Email
    BY DEF InsertUser, At, IInv, TypeOK, WorkIsKnown, Active
  <1>2. CASE EmailTaken(r) /\ GiveUp(r) /\ UNCHANGED <<users, requests, saved>>
    BY <1>1, <1>2, RollbackInv DEF GiveUp
  <1>3. CASE /\ ~EmailTaken(r) /\ ~EmailInDoubt(r) /\ left' = left
             /\ \E u \in FreshIds : reg' = [reg EXCEPT ![r].pc = "commit", ![r].id = u]
             /\ UNCHANGED <<users, requests, saved>>
    <2>1. PICK u \in FreshIds : reg' = [reg EXCEPT ![r].pc = "commit", ![r].id = u]
      BY <1>3
    <2>2. u \in User /\ u \notin Ids(users) /\ \A s \in Request : reg[s].id # u
      BY DEF FreshIds
    <2>3. \A s \in Request : s # r => reg'[s] = reg[s]
      BY <2>1 DEF IInv, TypeOK
    <2>4. /\ reg'[r].pc = "commit" /\ reg'[r].id = u
          /\ reg'[r].email = reg[r].email /\ reg'[r].inviter = reg[r].inviter
      BY <2>1, <1>1 DEF IInv, TypeOK, Registration
    <2>5. reg' \in [Request -> Registration]
      BY <2>1, <2>2, <1>1 DEF IInv, TypeOK, Registration, Step
    <2>6. TypeOK'
      BY <1>1, <1>3, <2>3, <2>4, <2>5 DEF IInv, TypeOK, Ids
    <2>7. PendingRowsAreNew'
      <3>1. \A x \in users : x.id # u /\ x.email # reg[r].email
        BY <1>3, <2>2 DEF EmailTaken, Ids
      <3>2. \A s \in Request : At(s, "commit") => reg[s].id # u /\ reg[s].email # reg[r].email
        BY <1>3, <2>2 DEF EmailInDoubt
      <3>3. SUFFICES ASSUME NEW s \in Request, reg'[s].pc = "commit"
                     PROVE  /\ reg'[s].id \in User
                            /\ \A x \in users : x.id # reg'[s].id /\ x.email # reg'[s].email
                            /\ \A q \in Request : reg'[q].pc = "commit" /\ q # s =>
                                 reg'[q].id # reg'[s].id /\ reg'[q].email # reg'[s].email
        BY <1>3 DEF PendingRowsAreNew, At
      <3>4. CASE s = r
        BY <2>2, <2>3, <2>4, <3>1, <3>2, <3>4 DEF At
      <3>5. CASE s # r
        <4>1. reg'[s] = reg[s] /\ At(s, "commit")
          BY <2>3, <3>3, <3>5 DEF At
        <4>2. reg'[r].id # reg'[s].id /\ reg'[r].email # reg'[s].email
          BY <2>4, <3>2, <4>1
        <4>3. \A q \in Request : q # r => reg'[q] = reg[q]
          BY <2>3
        <4> QED BY <4>1, <4>2, <4>3 DEF IInv, PendingRowsAreNew, At
      <3> QED BY <3>4, <3>5
    <2>8. WorkIsKnown'
      BY <1>1, <2>3, <2>4 DEF IInv, WorkIsKnown, At, Active
    <2>9. \A s \in Request, v \in User : Spending(s, v)' <=> Spending(s, v)
      BY <1>1, <2>3, <2>4 DEF Spending
    <2>10. InvitesAddUp'
      BY <1>3, <2>9, NothingSpent
    <2>11. InvitersExist' /\ OneAccountPerEmail' /\ IsFiniteSet(users)'
      BY <1>3 DEF IInv, InvitersExist, Ids, OneAccountPerEmail
    <2> QED BY <2>6, <2>7, <2>8, <2>10, <2>11 DEF IInv
  <1> QED BY <1>2, <1>3 DEF InsertUser

\* A new row with a new id and a new e-mail, be it committed or created.
LEMMA NewRow ==
  ASSUME IInv, NEW y \in Row, users' = users \cup {y},
         \A x \in users : x.id # y.id /\ x.email # y.email,
         y.invitedBy \in Ids(users) \cup {None}
  PROVE  InvitersExist' /\ OneAccountPerEmail' /\ IsFiniteSet(users)'
  <1>1. IsFiniteSet(users)'
    BY FS_AddElement DEF IInv
  <1>2. InvitersExist'
    BY DEF IInv, InvitersExist, Ids
  <1>3. OneAccountPerEmail'
    BY DEF IInv, OneAccountPerEmail
  <1> QED BY <1>1, <1>2, <1>3

\* Nobody has spent, or is spending, an invite of an id without a row.
LEMMA NobodyInvitedBy ==
  ASSUME IInv, NEW u \in User, u \notin Ids(users)
  PROVE  Invited(u) = {} /\ Holding(u) = {}
  <1>1. u # None
    BY NoneIsNobody
  <1>2. Invited(u) = {}
    BY <1>1 DEF IInv, InvitersExist, Invited
  <1>3. Holding(u) = {}
    BY DEF IInv, TypeOK, Holding, Spending
  <1> QED BY <1>2, <1>3

LEMMA CommitInv == ASSUME IInv, NEW r \in Request, Commit(r) PROVE IInv'
  <1>0. /\ reg[r].pc = "commit" /\ reg[r] \in Registration /\ reg[r].email \in Email
        /\ reg[r].inviter \in Ids(users) /\ reg[r].inviter \in User /\ reg[r].id \in User
        /\ \A x \in users : x.id # reg[r].id /\ x.email # reg[r].email
    BY DEF Commit, At, IInv, TypeOK, WorkIsKnown, Active, PendingRowsAreNew, Ids, Row
  <1>1. PICK w \in User, u \in User :
          /\ w = reg[r].inviter /\ u = reg[r].id /\ w \in Ids(users)
          /\ \A x \in users : x.id # u /\ x.email # reg[r].email
    BY <1>0
  <1>2. PICK y \in Row : /\ y = [id |-> reg[r].id, email |-> reg[r].email, invitedBy |-> reg[r].inviter]
                         /\ y.id = u /\ y.email = reg[r].email /\ y.invitedBy = w
    <2> DEFINE z == [id |-> reg[r].id, email |-> reg[r].email, invitedBy |-> reg[r].inviter]
    <2>1. z \in Row
      BY <1>0 DEF Row
    <2>2. z.id = u /\ z.email = reg[r].email /\ z.invitedBy = w
      BY <1>1
    <2> QED BY <2>1, <2>2
  <1>3. users' = users \cup {y} /\ left' = [left EXCEPT ![u] = InvitesPerUser]
        /\ Goto(r, "request") /\ UNCHANGED <<requests, saved>>
    BY <1>1, <1>2 DEF Commit
  <1>4. \A s \in Request : s # r => reg'[s] = reg[s]
    BY <1>3 DEF Goto, IInv, TypeOK
  <1>5. /\ reg'[r].pc = "request" /\ reg'[r].id = u
        /\ reg'[r].email = reg[r].email /\ reg'[r].inviter = w
    BY <1>0, <1>1, <1>3 DEF Goto, IInv, TypeOK, Registration
  <1>6. reg' \in [Request -> Registration]
    BY <1>0, <1>1, <1>3 DEF Goto, IInv, TypeOK, Registration, Step
  <1>7. left' \in [User -> Nat] /\ left'[u] = InvitesPerUser
        /\ \A v \in User : v # u => left'[v] = left[v]
    BY <1>1, <1>3, AccountsAssumption DEF IInv, TypeOK
  <1>8. u \notin Ids(users) /\ u # w
    BY <1>1 DEF Ids
  <1>9. TypeOK'
    <2>1. \A s \in Request : reg'[s].pc \in {"consume", "insert", "commit"} => reg'[s].inviter \in Ids(users)'
      BY <1>3, <1>4, <1>5 DEF IInv, TypeOK, Ids
    <2> QED BY <1>2, <1>3, <1>6, <1>7, <2>1 DEF IInv, TypeOK
  <1>10. PendingRowsAreNew'
    <2>1. \A s \in Request : At(s, "commit") /\ s # r => reg[s].id # u /\ reg[s].email # reg[r].email
      BY <1>0, <1>1 DEF IInv, PendingRowsAreNew, At
    <2> QED BY <1>2, <1>3, <1>4, <1>5, <2>1 DEF IInv, PendingRowsAreNew, At
  <1>11. WorkIsKnown'
    BY <1>0, <1>1, <1>4, <1>5 DEF IInv, WorkIsKnown, At, Active
  <1>12. InvitersExist' /\ OneAccountPerEmail' /\ IsFiniteSet(users)'
    BY <1>1, <1>2, <1>3, NewRow
  <1>13. InvitesAddUp'
    <2>1. SUFFICES ASSUME NEW x \in users'
                   PROVE  left'[x.id] + Cardinality(Invited(x.id)') + Cardinality(Holding(x.id)')
                            = InvitesPerUser
      BY DEF InvitesAddUp
    <2>2. x.id \in User
      BY <1>9 DEF TypeOK, Row
    <2>3. CASE x = y
      <3>1. Invited(u) = {} /\ Holding(u) = {}
        BY <1>1, <1>8, NobodyInvitedBy
      <3>2. Invited(u)' = {}
        BY <3>1, <1>2, <1>3, <1>8 DEF Invited
      <3>3. Holding(u)' = {}
        BY <3>1, <1>4, <1>5 DEF Holding, Spending
      <3>4. Cardinality(Invited(x.id)') = 0 /\ Cardinality(Holding(x.id)') = 0 /\ left'[x.id] = InvitesPerUser
        BY <3>2, <3>3, <2>3, <1>2, <1>7, FS_EmptySet
      <3> QED BY <3>4, AccountsAssumption
    <2>4. CASE x \in users /\ x.id # w
      <3>1. Invited(x.id)' = Invited(x.id)
        BY <2>4, <1>2, <1>3 DEF Invited
      <3>2. Holding(x.id)' = Holding(x.id)
        BY <2>4, <1>0, <1>1, <1>4, <1>5 DEF Holding, Spending
      <3> QED BY <3>1, <3>2, <2>2, <2>4, <1>1, <1>7 DEF IInv, InvitesAddUp
    <2>5. CASE x \in users /\ x.id = w
      <3>1. Invited(w)' = Invited(w) \cup {y} /\ y \notin Invited(w)
        BY <1>1, <1>2, <1>3 DEF Invited
      <3>2. Holding(w)' = Holding(w) \ {r} /\ r \in Holding(w)
        BY <1>0, <1>1, <1>4, <1>5 DEF Holding, Spending
      <3>3. Cardinality(Invited(w)') = Cardinality(Invited(w)) + 1
        BY <3>1, Countable, FS_AddElement
      <3>4. Cardinality(Holding(w)') = Cardinality(Holding(w)) - 1
        BY <3>2, Countable, FS_RemoveElement
      <3>5. left[w] + Cardinality(Invited(w)) + Cardinality(Holding(w)) = InvitesPerUser
        BY <2>5 DEF IInv, InvitesAddUp
      <3>6. left[w] \in Nat /\ Cardinality(Invited(w)) \in Nat /\ Cardinality(Holding(w)) \in Nat
        BY <1>1, Countable DEF IInv, TypeOK
      <3>7. left'[w] = left[w]
        BY <1>1, <1>7, <1>8
      <3> QED BY <3>3, <3>4, <3>5, <3>6, <3>7, <2>5
    <2> QED BY <1>3, <2>3, <2>4, <2>5
  <1> QED BY <1>9, <1>10, <1>11, <1>12, <1>13 DEF IInv

LEMMA CreateInv == ASSUME IInv, NEW r \in Request, Create(r) PROVE IInv'
  <1>1. reg[r].pc = "create" /\ reg[r] \in Registration /\ reg[r].email \in Email
    BY DEF Create, At, IInv, TypeOK, WorkIsKnown, Active
  <1>2. CASE EmailTaken(r) /\ Return(r) /\ UNCHANGED tables
    BY <1>1, <1>2, ReturnInv
  <1>3. CASE /\ ~EmailTaken(r) /\ ~EmailInDoubt(r) /\ UNCHANGED <<requests, saved>>
             /\ \E u \in FreshIds :
                  /\ users' = users \cup {[id |-> u, email |-> reg[r].email, invitedBy |-> None]}
                  /\ left' = [left EXCEPT ![u] = InvitesPerUser]
                  /\ reg' = [reg EXCEPT ![r].pc = "wall", ![r].id = u]
    <2>1. PICK u \in FreshIds :
            /\ users' = users \cup {[id |-> u, email |-> reg[r].email, invitedBy |-> None]}
            /\ left' = [left EXCEPT ![u] = InvitesPerUser]
            /\ reg' = [reg EXCEPT ![r].pc = "wall", ![r].id = u]
      BY <1>3
    <2>2. u \in User /\ u \notin Ids(users) /\ \A s \in Request : reg[s].id # u
      BY DEF FreshIds
    <2>3. PICK y \in Row : users' = users \cup {y} /\ y.id = u /\ y.email = reg[r].email /\ y.invitedBy = None
      <3> DEFINE z == [id |-> u, email |-> reg[r].email, invitedBy |-> None]
      <3>1. z \in Row /\ z.id = u /\ z.email = reg[r].email /\ z.invitedBy = None
        BY <1>1, <2>2 DEF Row
      <3> QED BY <2>1, <3>1
    <2>4. \A s \in Request : s # r => reg'[s] = reg[s]
      BY <2>1 DEF IInv, TypeOK
    <2>5. reg'[r].pc = "wall" /\ reg'[r].id = u /\ reg'[r].email = reg[r].email
      BY <2>1, <1>1 DEF IInv, TypeOK, Registration
    <2>6. reg' \in [Request -> Registration]
      BY <2>1, <2>2, <1>1 DEF IInv, TypeOK, Registration, Step
    <2>7. left' \in [User -> Nat] /\ left'[u] = InvitesPerUser
          /\ \A v \in User : v # u => left'[v] = left[v]
      BY <2>1, <2>2, AccountsAssumption DEF IInv, TypeOK
    <2>8. \A x \in users : x.id # u /\ x.email # reg[r].email
      BY <1>3, <2>2 DEF EmailTaken, Ids
    <2>9. TypeOK'
      <3>1. \A s \in Request : reg'[s].pc \in {"consume", "insert", "commit"} => reg'[s].inviter \in Ids(users)'
        BY <2>3, <2>4, <2>5 DEF IInv, TypeOK, Ids
      <3> QED BY <1>3, <2>3, <2>6, <2>7, <3>1 DEF IInv, TypeOK
    <2>10. PendingRowsAreNew'
      <3>1. \A s \in Request : At(s, "commit") => reg[s].id # u /\ reg[s].email # reg[r].email
        BY <1>3, <2>2 DEF EmailInDoubt
      <3> QED BY <2>3, <2>4, <2>5, <3>1 DEF IInv, PendingRowsAreNew, At
    <2>11. WorkIsKnown'
      BY <1>1, <2>2, <2>4, <2>5 DEF IInv, WorkIsKnown, At, Active
    <2>12. InvitersExist' /\ OneAccountPerEmail' /\ IsFiniteSet(users)'
      BY <2>3, <2>8, NewRow
    <2>13. InvitesAddUp'
      <3>1. SUFFICES ASSUME NEW x \in users'
                     PROVE  left'[x.id] + Cardinality(Invited(x.id)') + Cardinality(Holding(x.id)')
                              = InvitesPerUser
        BY DEF InvitesAddUp
      <3>2. x.id \in User /\ x.id # None
        BY <2>9, AccountsAssumption DEF TypeOK, Row
      <3>3. Invited(x.id)' = Invited(x.id)
        BY <2>3, <3>2 DEF Invited
      <3>4. Holding(x.id)' = Holding(x.id)
        BY <1>1, <2>4, <2>5 DEF Holding, Spending
      <3>5. CASE x = y
        <4>1. Invited(x.id) = {} /\ Holding(x.id) = {}
          BY <2>2, <2>3, <3>5, NobodyInvitedBy
        <4>2. Cardinality(Invited(x.id)') = 0 /\ Cardinality(Holding(x.id)') = 0 /\ left'[x.id] = InvitesPerUser
          BY <4>1, <3>3, <3>4, <3>5, <2>3, <2>7, FS_EmptySet
        <4> QED BY <4>2, AccountsAssumption
      <3>6. CASE x \in users
        BY <3>2, <3>3, <3>4, <3>6, <2>7, <2>8 DEF IInv, InvitesAddUp
      <3> QED BY <2>3, <3>5, <3>6
    <2> QED BY <2>9, <2>10, <2>11, <2>12, <2>13 DEF IInv
  <1> QED BY <1>2, <1>3 DEF Create, tables

-----------------------------------------------------------------------------
(* Every step, and the theorems *)

LEMMA AfterwardsInv ==
  ASSUME IInv, NEW r \in Request, SendRequest(r) \/ (\E t \in Table : EnsureDefaults(r, t)) \/ Issue(r)
  PROVE  IInv'
  <1>1. CASE SendRequest(r)
    <2>1. reg[r].pc = "request" /\ reg[r].id \in User /\ reg[r].inviter \in User
      BY <1>1 DEF SendRequest, At, IInv, WorkIsKnown
    <2>2. requests' \in SUBSET (User \X User) /\ saved' \in [Table -> [User -> Scope \cup {NoRow}]]
      BY <1>1, <2>1 DEF SendRequest, IInv, TypeOK
    <2> QED BY <1>1, <2>1, <2>2, GotoInv DEF SendRequest
  <1>2. ASSUME NEW t \in Table, EnsureDefaults(r, t) PROVE IInv'
    <2>1. reg[r].pc = t /\ t \in {"wall", "profile"} /\ reg[r].id \in User
      BY <1>2 DEF EnsureDefaults, At, Table, IInv, WorkIsKnown
    <2>2. requests' \in SUBSET (User \X User) /\ saved' \in [Table -> [User -> Scope \cup {NoRow}]]
      BY <1>2, <2>1 DEF EnsureDefaults, WithDefault, Scope, IInv, TypeOK
    <2>3. PICK pc \in {"profile", "issue"} : Goto(r, pc)
      BY <1>2 DEF EnsureDefaults
    <2> QED BY <1>2, <2>1, <2>2, <2>3, GotoInv DEF EnsureDefaults
  <1>3. CASE Issue(r)
    BY <1>3, ReturnInv DEF Issue, At
  <1> QED BY <1>1, <1>2, <1>3

LEMMA FailInv == ASSUME IInv, NEW r \in Request, Fail(r) PROVE IInv'
  <1>1. CASE reg[r].pc \in {"insert", "commit"}
    BY <1>1, RollbackInv DEF Fail
  <1>2. CASE reg[r].pc \notin {"insert", "commit"}
    BY <1>2, ReturnInv DEF Fail, RolledBack, tables
  <1> QED BY <1>1, <1>2

\* Nothing but privacy settings changes.
LEMMA SaveInv ==
  ASSUME IInv, UNCHANGED <<users, left, requests, reg>>,
         saved' \in [Table -> [User -> Scope \cup {NoRow}]]
  PROVE  IInv'
  BY DEF IInv, TypeOK, Ids, PendingRowsAreNew, At, WorkIsKnown, Active, InvitersExist,
         InvitesAddUp, Invited, Holding, Spending, OneAccountPerEmail

LEMMA NextInv == ASSUME IInv, [Next]_vars PROVE IInv'
  <1>1. ASSUME NEW r \in Request, Advance(r) PROVE IInv'
    BY <1>1, CreateInv, ConsumeInv, InsertUserInv, CommitInv, AfterwardsInv DEF Advance
  <1>2. ASSUME NEW r \in Request, Fail(r) PROVE IInv'
    BY <1>2, FailInv
  <1>3. ASSUME NEW r \in Request, NEW e \in Email,
               BeginOpen(r, e) \/ \E v \in User : BeginInvited(r, e, v)
        PROVE  IInv'
    BY <1>3, BeginInv
  <1>4. ASSUME NEW t \in Table, NEW u \in Savers, NEW s \in Scope, SaveSettings(t, u, s) PROVE IInv'
    <2>1. saved' \in [Table -> [User -> Scope \cup {NoRow}]]
      BY <1>4 DEF SaveSettings, IInv, TypeOK
    <2> QED BY <1>4, <2>1, SaveInv DEF SaveSettings
  <1>5. ASSUME UNCHANGED vars PROVE IInv'
    BY <1>5, SaveInv DEF vars, tables, IInv, TypeOK
  <1> QED BY <1>1, <1>2, <1>3, <1>4, <1>5 DEF Next

\* The scope that applies to a user changes in steps that save it.
LEMMA OnlySavingMatters ==
  ASSUME IInv, [Next]_vars, NEW t \in Table, NEW u \in User, Effective(t, u)' # Effective(t, u)
  PROVE  \E s \in Scope : SaveSettings(t, u, s)
  <1>1. saved \in [Table -> [User -> Scope \cup {NoRow}]]
    BY DEF IInv, TypeOK
  <1>2. saved' # saved
    BY DEF Effective
  <1>3. ASSUME NEW r \in Request, NEW q \in Table, EnsureDefaults(r, q) PROVE FALSE
    <2>1. saved' = [saved EXCEPT ![q][reg[r].id] = WithDefault(@)]
      BY <1>3 DEF EnsureDefaults
    <2>2. saved'[t][u] \in {saved[t][u], WithDefault(saved[t][u])}
      BY <1>1, <2>1
    <2> QED BY <2>2 DEF Effective, WithDefault, NoRow
  <1>4. PICK q \in Table, v \in Savers, s \in Scope : SaveSettings(q, v, s)
    BY <1>2, <1>3
       DEF Next, vars, tables, Advance, Create, Consume, InsertUser, Commit, SendRequest,
           Issue, Fail, BeginOpen, BeginInvited, Begin
  <1>5. q = t /\ v = u
    BY <1>1, <1>4 DEF SaveSettings, Effective
  <1> QED BY <1>4, <1>5

\* The inductive invariant of Accounts holds in every reachable state.
THEOREM Invariance == Spec => []IInv
  BY InitInv, NextInv, PTL DEF Spec

\* Every variable keeps its type, and a transaction the row of its inviter.
THEOREM TypesHold == Spec => []TypeOK
  <1>1. IInv => TypeOK
    BY DEF IInv
  <1> QED BY <1>1, Invariance, PTL

\* However many registrations race for an invite, fail or are rolled back, each
\* invite is left, spent once or held by one open transaction (CreateWithInvite).
THEOREM InvitesAreConserved == Spec => []InvitesAddUp
  <1>1. IInv => InvitesAddUp
    BY DEF IInv
  <1> QED BY <1>1, Invariance, PTL

\* No e-mail and no id ever belongs to two accounts (users.email UNIQUE).
THEOREM EmailsAreUnique == Spec => []OneAccountPerEmail
  <1>1. IInv => OneAccountPerEmail
    BY DEF IInv
  <1> QED BY <1>1, Invariance, PTL

\* No registration, complete, broken off or late, changes the scope that
\* applies to a user; only saving settings does (EnsureDefaults).
THEOREM OnlyUsersChangeSettings == Spec => SettingsStand
  <1>1. IInv /\ [Next]_vars =>
          [\A t \in Table, u \in User :
             Effective(t, u)' # Effective(t, u) => \E s \in Scope : SaveSettings(t, u, s)]_vars
    BY OnlySavingMatters
  <1> QED BY <1>1, Invariance, PTL DEF Spec, SettingsStand
=============================================================================
