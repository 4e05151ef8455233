------------------------------ MODULE Accounts ------------------------------
(***************************************************************************)
(* Registration: POST /register from the service auth down to Postgres.    *)
(* With an invite the decrement of the inviter's counter and the INSERT of *)
(* the new user share a transaction, which holds the inviter's row and the *)
(* e-mail's entry in the unique index until it ends; everything after it   *)
(* (the friend request to the inviter, two rows of default privacy, the    *)
(* session) is a statement of its own, and the request may die between.    *)
(***************************************************************************)
EXTENDS Naturals, FiniteSets

CONSTANTS
    User, None,       \* ids; no user, no e-mail
    Email,
    Founders,         \* the rows of users at the start
    InvitesPerUser,   \* INVITES_PER_USER
    InviteOnly,       \* REGISTRATION_MODE = invite
    Request,          \* registrations that may be served at the same time
    Savers            \* the users who save privacy settings

\* The two privacy tables, and the scopes a row may hold as far as they matter:
\* what EnsureDefaults writes and something else.
Table == {"wall", "profile"}
Scope == {"friends", "public"}
NoRow == "none"

Step == {"idle", "create", "consume", "insert", "commit", "request", "wall", "profile", "issue"}

Row == [id: User, email: Email, invitedBy: User \cup {None}]
Registration == [pc: Step, email: Email \cup {None}, inviter: User \cup {None}, id: User \cup {None}]

Idle == [pc |-> "idle", email |-> None, inviter |-> None, id |-> None]

ASSUME AccountsAssumption ==
    /\ None \notin User
    /\ Founders \subseteq [id: User, email: Email, invitedBy: {None}]
    /\ \A x, y \in Founders : x.id = y.id \/ x.email = y.email => x = y
    /\ InvitesPerUser \in Nat /\ InviteOnly \in BOOLEAN /\ Savers \subseteq User
    /\ IsFiniteSet(Founders) /\ IsFiniteSet(Request)

VARIABLES
    users,      \* the committed rows of users
    left,       \* invites_remaining, open transactions' writes included
    requests,   \* friend requests to inviters: <<new user, inviter>>
    saved,      \* wall_privacy and profile_privacy: a scope per user, or no row
    reg         \* the registration each HTTP request is in

tables == <<users, left, requests, saved>>
vars == <<tables, reg>>

Ids(rows) == {x.id : x \in rows}

Init ==
    /\ users = Founders
    /\ left = [u \in User |-> IF u \in Ids(Founders) THEN InvitesPerUser ELSE 0]
    /\ requests = {}
    /\ saved = [t \in Table |-> [u \in User |-> NoRow]]
    /\ reg = [r \in Request |-> Idle]

At(r, pc) == reg[r].pc = pc
Active(r) == ~At(r, "idle")
Goto(r, pc) == reg' = [reg EXCEPT ![r].pc = pc]
Return(r) == reg' = [reg EXCEPT ![r] = Idle]

-----------------------------------------------------------------------------
(* Register *)

Begin(r, e, v, pc) ==
    /\ At(r, "idle")
    /\ reg' = [reg EXCEPT ![r] = [pc |-> pc, email |-> e, inviter |-> v, id |-> None]]
    /\ UNCHANGED tables

BeginOpen(r, e) == ~InviteOnly /\ Begin(r, e, None, "create")
BeginInvited(r, e, v) == v \in Ids(users) /\ Begin(r, e, v, "consume")

\* The transaction of r is open and has decremented the counter of v.
Spending(r, v) == reg[r].inviter = v /\ reg[r].pc \in {"insert", "commit"}

\* What the unique index says to an INSERT of r's e-mail: taken by a committed
\* row, or by a row whose transaction is still open, for which it waits.
EmailTaken(r) == \E x \in users : x.email = reg[r].email
NoWaiting(r) == FALSE                                \* a slip, for the mutants
EmailInDoubt(r) == \E s \in Request : At(s, "commit") /\ reg[s].email = reg[r].email

\* Ids no row has or is about to have.
FreshIds == User \ (Ids(users) \cup {reg[s].id : s \in Request})

\* users.Create: one statement.
Create(r) ==
    /\ At(r, "create") /\ ~EmailInDoubt(r)
    /\ \/ EmailTaken(r) /\ Return(r) /\ UNCHANGED <<users, left>>
       \/ /\ ~EmailTaken(r)
          /\ \E u \in FreshIds :
               /\ users' = users \cup {[id |-> u, email |-> reg[r].email, invitedBy |-> None]}
               /\ left' = [left EXCEPT ![u] = InvitesPerUser]
               /\ reg' = [reg EXCEPT ![r].pc = "wall", ![r].id = u]
    /\ UNCHANGED <<requests, saved>>

\* WHERE invites_remaining > 0.
AnyInvite(v) == TRUE                                 \* a slip, for the mutants
HasInvite(v) == left[v] > 0

\* The UPDATE of the counter: waits for the row, then reads it afresh.
Consume(r) ==
    /\ At(r, "consume")
    /\ \A s \in Request : ~Spending(s, reg[r].inviter)
    /\ IF HasInvite(reg[r].inviter)
       THEN left' = [left EXCEPT ![reg[r].inviter] = @ - 1] /\ Goto(r, "insert")
       ELSE left' = left /\ Return(r)
    /\ UNCHANGED <<users, requests, saved>>

\* What the counters are worth when the transaction of r ends without Commit.
KeptDecrement(r) == left                             \* a slip, for the mutants
RolledBack(r) ==
    IF reg[r].pc \in {"insert", "commit"} THEN [left EXCEPT ![reg[r].inviter] = @ + 1] ELSE left

\* What happens to a registration whose e-mail is taken.
TryAgain(r) == reg' = reg /\ left' = left            \* a slip, for the mutants
GiveUp(r) == Return(r) /\ left' = RolledBack(r)

InsertUser(r) ==
    /\ At(r, "insert") /\ ~EmailInDoubt(r)
    /\ \/ EmailTaken(r) /\ GiveUp(r)
       \/ /\ ~EmailTaken(r) /\ left' = left
          /\ \E u \in FreshIds : reg' = [reg EXCEPT ![r].pc = "commit", ![r].id = u]
    /\ UNCHANGED <<users, requests, saved>>

Commit(r) ==
    /\ At(r, "commit")
    /\ users' = users \cup {[id |-> reg[r].id, email |-> reg[r].email, invitedBy |-> reg[r].inviter]}
    /\ left' = [left EXCEPT ![reg[r].id] = InvitesPerUser]
    /\ Goto(r, "request")
    /\ UNCHANGED <<requests, saved>>

\* friends.SendRequest, whose error is dropped.
SendRequest(r) ==
    /\ At(r, "request")
    /\ requests' \in {requests, requests \cup {<<reg[r].id, reg[r].inviter>>}}
    /\ Goto(r, "wall")
    /\ UNCHANGED <<users, left, saved>>

-----------------------------------------------------------------------------
(* The rest of PostRegister, and the settings page *)

Overwritten(row) == "friends"                        \* a slip, for the mutants
WithDefault(row) == IF row = NoRow THEN "friends" ELSE row

EnsureDefaults(r, t) ==
    /\ At(r, t)
    /\ saved' = [saved EXCEPT ![t][reg[r].id] = WithDefault(@)]
    /\ Goto(r, IF t = "wall" THEN "profile" ELSE "issue")
    /\ UNCHANGED <<users, left, requests>>

Issue(r) == At(r, "issue") /\ Return(r) /\ UNCHANGED tables

\* A statement fails or the client goes away: an open transaction is rolled
\* back, whatever was committed stays.
Fail(r) ==
    /\ Active(r)
    /\ Return(r)
    /\ left' = RolledBack(r)
    /\ UNCHANGED <<users, requests, saved>>

\* A user may log in, and save settings, as soon as the row is committed.
SaveSettings(t, u, s) ==
    /\ u \in Ids(users)
    /\ saved' = [saved EXCEPT ![t][u] = s]
    /\ UNCHANGED <<users, left, requests, reg>>

-----------------------------------------------------------------------------

Advance(r) ==
    \/ Create(r) \/ Consume(r) \/ InsertUser(r) \/ Commit(r) \/ SendRequest(r)
    \/ \E t \in Table : EnsureDefaults(r, t)
    \/ Issue(r)

\* Bound: a registration only begins while an id is left for it.
Room == Cardinality({r \in Request : Active(r)}) < Cardinality(User \ Ids(users))

Next ==
    \/ \E r \in Request :
         \/ Advance(r) \/ Fail(r)
         \/ /\ Room
            /\ \E e \in Email : BeginOpen(r, e) \/ \E v \in User : BeginInvited(r, e, v)
    \/ \E t \in Table, u \in Savers, s \in Scope : SaveSettings(t, u, s)

Spec == Init /\ [][Next]_vars

\* Requests are served, and Postgres grants a row in the order it was asked
\* for, so nobody waits for it for ever while others get it again and again.
FairSpec ==
    /\ Spec
    /\ \A r \in Request :
         WF_vars(Advance(r)) /\ SF_vars(Consume(r)) /\ SF_vars(Create(r)) /\ SF_vars(InsertUser(r))

-----------------------------------------------------------------------------
(* Properties *)

TypeOK ==
    /\ users \in SUBSET Row
    /\ left \in [User -> Nat]
    /\ requests \in SUBSET (User \X User)
    /\ saved \in [Table -> [User -> Scope \cup {NoRow}]]
    /\ reg \in [Request -> Registration]
    /\ \A r \in Request : reg[r].pc \in {"consume", "insert", "commit"} => reg[r].inviter \in Ids(users)

Invited(v) == {x \in users : x.invitedBy = v}
Holding(v) == {r \in Request : Spending(r, v)}

\* Every invite is either left, or spent on one account, or held by one open
\* transaction, and comes back when that is rolled back, however registrations
\* on the same invite race, fail or find their e-mail taken (CreateWithInvite:
\* "атомарно декрементит счётчик", user_repo.go:52).
InvitesAddUp ==
    \A x \in users :
        left[x.id] + Cardinality(Invited(x.id)) + Cardinality(Holding(x.id)) = InvitesPerUser

\* No two accounts share an e-mail or an id, however registrations race
\* (ErrEmailAlreadyInUse).
OneAccountPerEmail ==
    \A x, y \in users : x.email = y.email \/ x.id = y.id => x = y

\* The scope that applies to a user: a missing row is worth the default.
Effective(t, u) == IF saved[t][u] = NoRow THEN "friends" ELSE saved[t][u]

\* What applies to a user only ever changes because he says so: a registration
\* that broke off leaves nobody without the defaults, and one that is late does
\* not undo what its user has saved meanwhile (EnsureDefaults, PrivacyRepo.Get).
SettingsStand ==
    [][\A t \in Table, u \in User :
         Effective(t, u)' # Effective(t, u) => \E s \in Scope : SaveSettings(t, u, s)]_vars

\* Registrations that wait for each other's rows all end (CreateWithInvite
\* locks the inviter first and the e-mail second).
RegistrationsEnd == \A r \in Request : Active(r) ~> ~Active(r)
=============================================================================
