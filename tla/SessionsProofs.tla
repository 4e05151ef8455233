--------------------------- MODULE SessionsProofs ---------------------------
(***************************************************************************)
(* Theorems about Sessions for any number of users, sessions and requests: *)
(* it implements Accounts, so that every theorem of AccountsProofs holds   *)
(* of it; a session acts for the one who opened it and for nobody else;    *)
(* and login refuses no right password but for an e-mail's twin.           *)
(***************************************************************************)
EXTENDS Sessions, AccountsProofs

VisitsTypeOK ==
    /\ sessions \in [Token -> User \cup {None}]
    /\ visit \in [Visit -> VisitState]
    /\ opened \in [Token -> User \cup {None}]

\* A row belongs to the one who opened it.
RowsAreTheirs == \A t \in Token : sessions[t] # None => opened[t] = sessions[t]

\* So does the request that carries it; once it is over it finds nobody.
VisitsAreTheirs ==
    \A v \in Visit :
        /\ visit[v].token # None => opened[visit[v].token] # None
        /\ VisitAt(v, "token") => visit[v].token # None /\ visit[v].user = None
        /\ visit[v].late => visit[v].token # None /\ sessions[visit[v].token] = None
        /\ visit[v].user # None =>
             visit[v].token # None /\ ~visit[v].late /\ opened[visit[v].token] = visit[v].user

\* A login is sent by somebody with an account, under his e-mail in some case.
LoginsAreKnown ==
    \A v \in Visit :
        /\ VisitAt(v, "refused") => visit[v].job = "login"
        /\ visit[v].job = "login" =>
             \E x \in users : x.id = visit[v].sender /\ Fold[x.email] = Fold[visit[v].email]

SInv == IInv /\ VisitsTypeOK /\ RowsAreTheirs /\ VisitsAreTheirs /\ LoginsAreKnown /\ LoginEntersOwn

-----------------------------------------------------------------------------
(* Accounts is what Sessions does to the tables of Accounts *)

LEMMA StepOfAccounts == ASSUME [SNext]_svars PROVE [Next]_vars
  <1>1. ASSUME NEW r \in Request, Register(r) \/ IssueNew(r) PROVE Next
    BY <1>1 DEF Register, IssueNew, Next, Advance
  <1>2. ASSUME NEW v \in Visit, Serve(v) PROVE [Next]_vars
    <2>1. CASE Save(v)
      BY <2>1 DEF Save, Next
    <2> QED BY <1>2, <2>1 DEF Serve, Middleware, Revoke, Login, Refuse, Drop
  <1>3. ASSUME NEW r \in Request, NEW e \in Email, Room,
               BeginOpen(r, e) \/ \E i \in User : BeginInvited(r, e, i)
        PROVE  Next
    BY <1>3 DEF Next
  <1> QED BY <1>1, <1>2, <1>3 DEF SNext, Send, Expire, svars

\* Whatever sessions, logins and logouts do, the tables and the registrations
\* of Sessions behave as those of Accounts.
THEOREM ImplementsAccounts == SSpec => Spec
  <1>1. SInit => Init
    BY DEF SInit
  <1>2. [SNext]_svars => [Next]_vars
    BY StepOfAccounts
  <1> QED BY <1>1, <1>2, PTL DEF SSpec, Spec

-----------------------------------------------------------------------------
(* The inductive invariant *)

LEMMA SInitInv == SInit => SInv
  <1> SUFFICES ASSUME SInit PROVE SInv
    OBVIOUS
  <1>1. IInv
    BY InitInv DEF SInit
  <1>2. NoVisit \in VisitState
    BY DEF NoVisit, VisitState, VisitStep
  <1>3. VisitsTypeOK
    BY <1>2 DEF SInit, VisitsTypeOK
  <1>4. \A v \in Visit : visit[v] = NoVisit
    BY DEF SInit
  <1>5. VisitsAreTheirs /\ LoginsAreKnown /\ LoginEntersOwn
    BY <1>4 DEF NoVisit, VisitsAreTheirs, LoginsAreKnown, LoginEntersOwn, VisitAt
  <1> QED BY <1>1, <1>3, <1>5 DEF SInit, SInv, RowsAreTheirs

\* Rows of users are never deleted.
LEMMA UsersStay == ASSUME IInv, [Next]_vars PROVE users \subseteq users'
  BY DEF Next, vars, tables, Advance, Create, Consume, InsertUser, Commit, SendRequest,
         EnsureDefaults, Issue, Fail, BeginOpen, BeginInvited, Begin, SaveSettings

\* What the invariant says of requests that are not touched survives new rows of
\* users, new sessions and the end of old ones.
LEMMA OthersInv ==
  ASSUME SInv, [Next]_vars, VisitsTypeOK', RowsAreTheirs',
         \A t \in Token : opened[t] # None => opened'[t] = opened[t] /\ sessions'[t] \in {sessions[t], None},
         \A v \in Visit : visit'[v] \in {visit[v], NoVisit}
  PROVE  SInv'
  <1>1. IInv'
    BY NextInv DEF SInv
  <1>2. users \subseteq users'
    BY UsersStay DEF SInv
  <1>3. \A v \in Visit : visit[v] \in VisitState
    BY DEF SInv, VisitsTypeOK
  <1>4. VisitsAreTheirs'
    BY <1>3 DEF SInv, VisitsAreTheirs, VisitAt, VisitState, NoVisit
  <1>5. LoginsAreKnown'
    BY <1>2, <1>3 DEF SInv, LoginsAreKnown, VisitAt, VisitState, NoVisit
  <1>6. LoginEntersOwn'
    BY <1>2, <1>3 DEF SInv, LoginEntersOwn, VisitAt, VisitState, NoVisit
  <1> QED BY <1>1, <1>4, <1>5, <1>6 DEF SInv

\* One request goes on; sessions stay as they are.
LEMMA GoOn ==
  ASSUME SInv, UNCHANGED <<vars, sessions, opened>>,
         NEW v \in Visit, NEW n \in VisitState, visit' = [visit EXCEPT ![v] = n],
         n.token # None => opened[n.token] # None,
         n.pc = "token" => n.token # None /\ n.user = None,
         n.late => n.token # None /\ sessions[n.token] = None,
         n.user # None => n.token # None /\ ~n.late /\ opened[n.token] = n.user,
         n.job = "login" => \E x \in users : x.id = n.sender /\ Fold[x.email] = Fold[n.email],
         n.pc = "refused" => n.job = "login" /\
            \E x, y \in users : x.id = n.sender /\ y # x /\ Fold[x.email] = Fold[y.email]
  PROVE  SInv'
  <1>1. IInv'
    BY NextInv DEF SInv
  <1>2. \A w \in Visit : visit'[w] = IF w = v THEN n ELSE visit[w]
    BY DEF SInv, VisitsTypeOK
  <1>3. VisitsTypeOK' /\ RowsAreTheirs'
    BY DEF SInv, VisitsTypeOK, RowsAreTheirs
  <1>4. VisitsAreTheirs'
    BY <1>2 DEF SInv, VisitsAreTheirs, VisitAt
  <1>5. users' = users
    BY DEF vars, tables
  <1>6. LoginsAreKnown'
    BY <1>2, <1>5 DEF SInv, LoginsAreKnown, VisitAt
  <1>7. LoginEntersOwn'
    BY <1>2, <1>5 DEF SInv, LoginEntersOwn, VisitAt
  <1> QED BY <1>1, <1>3, <1>4, <1>6, <1>7 DEF SInv

LEMMA SendInv ==
  ASSUME SInv, NEW v \in Visit, NEW job \in Job, NEW t \in Token \cup {None},
         NEW u \in User \cup {None}, NEW e \in Email \cup {None}, Send(v, job, t, u, e),
         t # None => t \in Given,
         job = "login" => \E x \in users : x.id = u /\ Fold[x.email] = Fold[e]
  PROVE  SInv'
  <1> DEFINE n == [pc |-> IF t = None THEN "handle" ELSE "token", job |-> job, token |-> t,
                   user |-> None, sender |-> u, email |-> e, late |-> t # None /\ Over(t)]
  <1>1. n \in VisitState
    BY DEF VisitState, VisitStep
  <1>2. /\ n.pc # "refused" /\ n.job = job /\ n.token = t /\ n.user = None
        /\ n.sender = u /\ n.email = e /\ (n.pc = "token" => t # None) /\ (n.late => t # None /\ sessions[t] = None)
    BY DEF Over
  <1>3. visit' = [visit EXCEPT ![v] = n] /\ UNCHANGED <<vars, sessions, opened>>
    BY DEF Send
  <1> HIDE DEF n
  <1> QED BY <1>1, <1>2, <1>3, GoOn DEF Given

LEMMA MiddlewareInv == ASSUME SInv, NEW v \in Visit, Middleware(v) PROVE SInv'
  <1> DEFINE t == visit[v].token
  <1>1. /\ visit[v] \in VisitState /\ visit[v].pc = "token" /\ visit[v].user = None
        /\ t \in Token /\ opened[t] # None /\ sessions[t] \in User \cup {None}
    BY DEF SInv, VisitsTypeOK, VisitState, VisitsAreTheirs, Middleware, VisitAt
  <1>2. PICK u \in {None, sessions[t]} :
          visit' = [visit EXCEPT ![v] = [visit[v] EXCEPT !.pc = "handle", !.user = u]]
    <2>1. CASE Pass(v, "handle")
      <3>1. [visit[v] EXCEPT !.pc = "handle", !.user = None] = [visit[v] EXCEPT !.pc = "handle"]
        BY <1>1 DEF VisitState
      <3> QED BY <2>1, <3>1, <1>1 DEF Pass, SInv, VisitsTypeOK
    <2>2. CASE visit' = [visit EXCEPT ![v].pc = "handle", ![v].user = sessions[t]]
      BY <2>2, <1>1 DEF SInv, VisitsTypeOK
    <2> QED BY <2>1, <2>2 DEF Middleware
  <1> DEFINE n == [visit[v] EXCEPT !.pc = "handle", !.user = u]
  <1>3. /\ n \in VisitState /\ n.pc = "handle" /\ n.token = t /\ n.user = u
        /\ n.late = visit[v].late /\ n.job = visit[v].job
        /\ n.sender = visit[v].sender /\ n.email = visit[v].email
    BY <1>1 DEF VisitState, VisitStep
  <1>4. n.late => sessions[t] = None
    BY <1>3 DEF SInv, VisitsAreTheirs
  <1>5. n.user # None => opened[t] = n.user /\ ~n.late
    BY <1>1, <1>3, <1>4 DEF SInv, RowsAreTheirs
  <1>6. n.job = "login" => \E x \in users : x.id = n.sender /\ Fold[x.email] = Fold[n.email]
    BY <1>3 DEF SInv, LoginsAreKnown
  <1>7. t # None
    BY <1>1, SessionsAssumption
  <1>8. visit' = [visit EXCEPT ![v] = n] /\ UNCHANGED <<vars, sessions, opened>>
    BY <1>2 DEF Middleware
  <1> HIDE DEF n, t
  <1> QED BY <1>1, <1>3, <1>4, <1>5, <1>6, <1>7, <1>8, GoOn

LEMMA RefuseInv == ASSUME SInv, NEW v \in Visit, Refuse(v) PROVE SInv'
  <1> DEFINE n == [visit[v] EXCEPT !.pc = "refused"]
  <1>1. visit[v] \in VisitState /\ visit[v].job = "login"
    BY DEF SInv, VisitsTypeOK, Refuse
  <1>2. /\ n \in VisitState /\ n.pc = "refused" /\ n.token = visit[v].token /\ n.user = visit[v].user
        /\ n.late = visit[v].late /\ n.job = "login"
        /\ n.sender = visit[v].sender /\ n.email = visit[v].email
    BY <1>1 DEF VisitState, VisitStep
  <1>3. PICK x \in users : x.id = visit[v].sender /\ Fold[x.email] = Fold[visit[v].email]
    BY <1>1 DEF SInv, LoginsAreKnown
  <1>4. PICK y \in Matching(visit[v].email) : y.id # visit[v].sender
    BY <1>3 DEF Refuse, Matching, RightPassword
  <1>5. y \in users /\ y # x /\ Fold[x.email] = Fold[y.email]
    BY <1>3, <1>4 DEF Matching
  <1>6. visit' = [visit EXCEPT ![v] = n] /\ UNCHANGED <<vars, sessions, opened>>
    BY <1>1 DEF Refuse, Pass, SInv, VisitsTypeOK
  <1>7. /\ n.token # None => opened[n.token] # None
        /\ n.late => n.token # None /\ sessions[n.token] = None
        /\ n.user # None => n.token # None /\ ~n.late /\ opened[n.token] = n.user
    BY <1>2 DEF SInv, VisitsAreTheirs
  <1> HIDE DEF n
  <1> QED BY <1>2, <1>3, <1>5, <1>6, <1>7, GoOn

\* A row under a token nobody has: earlier sessions are not concerned.
LEMMA NewSessionInv ==
  ASSUME SInv, NEW u \in User, NewSession(u, u), [Next]_vars,
         \A v \in Visit : visit'[v] \in {visit[v], NoVisit}, visit' \in [Visit -> VisitState]
  PROVE  SInv'
  <1>1. PICK t \in Token : /\ opened[t] = None /\ sessions' = [sessions EXCEPT ![t] = u]
                           /\ opened' = [opened EXCEPT ![t] = u]
    BY DEF NewSession, Given
  <1>2. sessions \in [Token -> User \cup {None}] /\ opened \in [Token -> User \cup {None}]
    BY DEF SInv, VisitsTypeOK
  <1>3. VisitsTypeOK' /\ RowsAreTheirs'
    BY <1>1, <1>2 DEF SInv, VisitsTypeOK, RowsAreTheirs
  <1>4. \A q \in Token : opened[q] # None => opened'[q] = opened[q] /\ sessions'[q] \in {sessions[q], None}
    BY <1>1, <1>2
  <1> QED BY <1>3, <1>4, OthersInv

\* Requests end, sessions go, nothing is opened.
LEMMA LeaveInv ==
  ASSUME SInv, [Next]_vars, opened' = opened,
         sessions' = sessions \/ \E t : sessions' = [sessions EXCEPT ![t] = None],
         visit' = visit \/ \E v \in Visit : Leave(v)
  PROVE  SInv'
  <1>1. NoVisit \in VisitState
    BY DEF NoVisit, VisitState, VisitStep
  <1>2. /\ sessions \in [Token -> User \cup {None}] /\ visit \in [Visit -> VisitState]
        /\ opened \in [Token -> User \cup {None}]
    BY DEF SInv, VisitsTypeOK
  <1>3. /\ \A t \in Token : sessions'[t] \in {sessions[t], None}
        /\ sessions' \in [Token -> User \cup {None}]
    BY <1>2
  <1>4. visit' \in [Visit -> VisitState] /\ \A v \in Visit : visit'[v] \in {visit[v], NoVisit}
    BY <1>1, <1>2 DEF Leave
  <1>5. VisitsTypeOK' /\ RowsAreTheirs'
    BY <1>2, <1>3, <1>4 DEF SInv, VisitsTypeOK, RowsAreTheirs
  <1> QED BY <1>3, <1>4, <1>5, OthersInv

LEMMA LoginInv == ASSUME SInv, NEW v \in Visit, Login(v) PROVE SInv'
  <1>1. PICK x \in users : x.id = visit[v].sender /\ NewSession(x.id, x.id)
    BY DEF Login, Matching, RightPassword
  <1>2. x.id \in User
    BY DEF SInv, IInv, TypeOK, Row
  <1>3. NoVisit \in VisitState /\ visit \in [Visit -> VisitState]
    BY DEF NoVisit, VisitState, VisitStep, SInv, VisitsTypeOK
  <1>4. visit' \in [Visit -> VisitState] /\ \A w \in Visit : visit'[w] \in {visit[w], NoVisit}
    BY <1>3 DEF Login, Leave
  <1>5. [Next]_vars
    BY DEF Login
  <1> QED BY <1>1, <1>2, <1>4, <1>5, NewSessionInv

LEMMA SNextInv == ASSUME SInv, [SNext]_svars PROVE SInv'
  <1>1. [Next]_vars
    BY StepOfAccounts
  <1>2. ASSUME NEW r \in Request, IssueNew(r) PROVE SInv'
    <2>1. reg[r].id \in User
      BY <1>2 DEF IssueNew, Issue, At, SInv, IInv, WorkIsKnown
    <2> QED BY <1>1, <1>2, <2>1, NewSessionInv DEF IssueNew, SInv, VisitsTypeOK
  <1>3. ASSUME NEW v \in Visit, Save(v) \/ Revoke(v) \/ Drop(v) PROVE SInv'
    <2>1. Leave(v) /\ opened' = opened
          /\ (sessions' = sessions \/ \E t : sessions' = [sessions EXCEPT ![t] = None])
      BY <1>3 DEF Save, Revoke, Drop
    <2> QED BY <1>1, <2>1, LeaveInv
  <1>4. ASSUME NEW v \in Visit, Serve(v) PROVE SInv'
    BY <1>3, <1>4, MiddlewareInv, LoginInv, RefuseInv DEF Serve
  <1>5. ASSUME NEW v \in Visit, NEW t \in Given, NEW job \in {"settings", "logout"},
               Send(v, job, t, None, None)
        PROVE  SInv'
    BY <1>5, SendInv DEF Given, Job
  <1>6. ASSUME NEW v \in Visit, NEW x \in users, NEW e \in Email,
               Fold[e] = Fold[x.email], Send(v, "login", None, x.id, e)
        PROVE  SInv'
    <2>1. x.id \in User
      BY DEF SInv, IInv, TypeOK, Row
    <2> QED BY <1>6, <2>1, SendInv DEF Job
  <1>7. ASSUME NEW t \in Token, Expire(t) PROVE SInv'
    BY <1>1, <1>7, LeaveInv DEF Expire
  <1>8. ASSUME UNCHANGED <<sessions, visit, opened>> PROVE SInv'
    BY <1>1, <1>8, LeaveInv
  <1> QED BY <1>2, <1>4, <1>5, <1>6, <1>7, <1>8 DEF SNext, Register, svars

\* The inductive invariant of Sessions holds in every reachable state.
THEOREM SInvariance == SSpec => []SInv
  BY SInitInv, SNextInv, PTL DEF SSpec

-----------------------------------------------------------------------------
(* What it is for *)

\* The scopes that apply to a user change only through requests with a session
\* he opened, which was not over when the request was sent (Middleware, Revoke).
THEOREM SessionsActForTheirOwners == SSpec => OnlyOwnersAct
  <1>1. ASSUME SInv, [SNext]_svars, NEW t \in Table, NEW u \in User, Effective(t, u)' # Effective(t, u)
        PROVE  \E v \in Visit : /\ visit[v].job = "settings" /\ ~visit[v].late
                                /\ visit[v].token # None /\ opened[visit[v].token] = u
    <2>1. PICK s \in Scope : SaveSettings(t, u, s)
      BY <1>1, StepOfAccounts, OnlySavingMatters DEF SInv
    <2>2. reg' = reg /\ saved' # saved
      BY <1>1, <2>1 DEF SaveSettings, Effective
    <2>3. PICK v \in Visit : Save(v)
      <3>1. ASSUME NEW r \in Request, NEW q \in Table, EnsureDefaults(r, q) PROVE reg' # reg
        <4> DEFINE next == IF q = "wall" THEN "profile" ELSE "issue"
        <4>1. reg' = [reg EXCEPT ![r].pc = next] /\ reg[r].pc = q /\ next # q
          BY <3>1 DEF EnsureDefaults, At, Goto, Table
        <4> HIDE DEF next
        <4>2. reg \in [Request -> Registration]
          BY <1>1 DEF SInv, IInv, TypeOK
        <4> QED BY <4>1, <4>2 DEF Registration
      <3> QED BY <1>1, <2>2, <3>1
            DEF SNext, svars, vars, tables, Register, IssueNew, Create, Consume, InsertUser, Commit,
                SendRequest, Issue, Fail, BeginOpen, BeginInvited, Begin,
                Serve, Middleware, Revoke, Login, Refuse, Drop, Send, Expire
    <2>4. PICK q \in Table, z \in Scope : SaveSettings(q, visit[v].user, z)
      BY <2>2, <2>3 DEF Save, vars, tables
    <2>5. saved \in [Table -> [User -> Scope \cup {NoRow}]]
      BY <1>1 DEF SInv, IInv, TypeOK
    <2>6. visit[v].user = u /\ u # None
      BY <1>1, <2>4, <2>5, AccountsAssumption DEF SaveSettings, Effective
    <2> QED BY <1>1, <2>3, <2>6 DEF Save, SInv, VisitsAreTheirs
  <1>2. SInv /\ [SNext]_svars =>
          [\A t \in Table, u \in User :
             Effective(t, u)' # Effective(t, u) =>
               \E v \in Visit : /\ visit[v].job = "settings" /\ ~visit[v].late
                                /\ visit[v].token # None /\ opened[visit[v].token] = u]_svars
    BY <1>1
  <1> QED BY <1>2, SInvariance, PTL DEF SSpec, OnlyOwnersAct

\* The right password under one's own e-mail is only ever refused to those whose
\* e-mail has a twin that differs in case (UserRepo.ByEmail).
THEOREM TwinsAloneAreRefused == SSpec => []LoginEntersOwn
  <1>1. SInv => LoginEntersOwn
    BY DEF SInv
  <1> QED BY <1>1, SInvariance, PTL
=============================================================================
