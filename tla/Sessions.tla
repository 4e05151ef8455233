------------------------------ MODULE Sessions ------------------------------
(***************************************************************************)
(* Accounts with what its users do once they have a row: the table         *)
(* sessions, the middleware that turns a cookie into a user, login, logout *)
(* and the settings page behind them.                                      *)
(*                                                                         *)
(* Browsers are left out: a request carries any token that was ever given  *)
(* out, since a cookie may be kept, lost, or sent by a request that        *)
(* overtakes the answer which replaces it. One without a cookie has no     *)
(* effect unless it is a login.                                            *)
(***************************************************************************)
EXTENDS Accounts

CONSTANTS
    Token,       \* values of the session cookie
    Visit,       \* HTTP requests other than registrations, served at the same time
    Fold,        \* LOWER(email)
    MaxAtWork    \* bound: requests at the server at once

Job == {"settings", "logout", "login"}
VisitStep == {"idle", "token", "handle", "refused"}

\* user is whom the middleware has found. Auxiliary: sender, whose password a
\* login brings; late, the session was over when the request was sent.
VisitState == [pc: VisitStep, job: Job \cup {"none"}, token: Token \cup {None}, user: User \cup {None},
               sender: User \cup {None}, email: Email \cup {None}, late: BOOLEAN]
NoVisit == [pc |-> "idle", job |-> "none", token |-> None, user |-> None,
            sender |-> None, email |-> None, late |-> FALSE]

ASSUME SessionsAssumption ==
    /\ None \notin Token \cup Email
    /\ Fold \in [Email -> Email] /\ MaxAtWork \in Nat
    /\ IsFiniteSet(Visit)

VARIABLES
    sessions,    \* the user of each token, None where no row is left or its time is over
    visit,
    opened       \* auxiliary: who registered or gave his password for a token

svars == <<vars, sessions, visit, opened>>

SInit ==
    /\ Init
    /\ sessions = [t \in Token |-> None]
    /\ visit = [v \in Visit |-> NoVisit]
    /\ opened = [t \in Token |-> None]

VisitAt(v, pc) == visit[v].pc = pc
Pass(v, pc) == visit' = [visit EXCEPT ![v].pc = pc]
Leave(v) == visit' = [visit EXCEPT ![v] = NoVisit]

Given == {t \in Token : opened[t] # None}
Over(t) == sessions[t] = None

-----------------------------------------------------------------------------
(* Manager.Issue *)

\* newToken: a value no session ever had. The row is for user u; owner is who
\* asks for it.
NewSession(u, owner) ==
    \E t \in Token \ Given :
        /\ sessions' = [sessions EXCEPT ![t] = u]
        /\ opened' = [opened EXCEPT ![t] = owner]

\* The last statement of a registration.
IssueNew(r) == Issue(r) /\ NewSession(reg[r].id, reg[r].id) /\ UNCHANGED visit

-----------------------------------------------------------------------------
(* Manager.Middleware and the handlers behind it *)

Send(v, job, t, u, e) ==
    /\ VisitAt(v, "idle")
    /\ visit' = [visit EXCEPT ![v] =
         [pc |-> IF t = None THEN "handle" ELSE "token", job |-> job, token |-> t, user |-> None,
          sender |-> u, email |-> e, late |-> t # None /\ Over(t)]]
    /\ UNCHANGED <<vars, sessions, opened>>

\* ByToken and ByID: users are never deleted. A lookup that finds nothing or fails
\* leaves the request without a user.
Middleware(v) ==
    /\ VisitAt(v, "token")
    /\ \/ /\ ~Over(visit[v].token)
          /\ visit' = [visit EXCEPT ![v].pc = "handle", ![v].user = sessions[visit[v].token]]
       \/ Pass(v, "handle")
    /\ UNCHANGED <<vars, sessions, opened>>

\* RequireAuth sends those without a user to the login page.
Save(v) ==
    /\ VisitAt(v, "handle") /\ visit[v].job = "settings"
    /\ Leave(v)
    /\ IF visit[v].user = None THEN UNCHANGED vars
       ELSE visit[v].user \in Savers /\ \E t \in Table, s \in Scope : SaveSettings(t, visit[v].user, s)
    /\ UNCHANGED <<sessions, opened>>

\* Revoke goes by the cookie, whether or not it led to a user.
Revoke(v) ==
    /\ VisitAt(v, "handle") /\ visit[v].job = "logout"
    /\ Leave(v)
    /\ sessions' = [sessions EXCEPT ![visit[v].token] = None]
    /\ UNCHANGED <<vars, opened>>

\* ByEmail takes the first row that comes.
SameCase(e) == {x \in users : x.email = e}           \* a slip, for the mutants
Matching(e) == {x \in users : Fold[x.email] = Fold[e]}

\* Passwords differ from user to user, as their hashes do.
AnyPassword(v, x) == TRUE                            \* a slip, for the mutants
RightPassword(v, x) == x.id = visit[v].sender

Login(v) ==
    /\ VisitAt(v, "handle") /\ visit[v].job = "login"
    /\ \E x \in Matching(visit[v].email) :
         RightPassword(v, x) /\ NewSession(x.id, visit[v].sender)
    /\ Leave(v)
    /\ UNCHANGED vars

Refuse(v) ==
    /\ VisitAt(v, "handle") /\ visit[v].job = "login"
    /\ Matching(visit[v].email) # {} =>
         \E x \in Matching(visit[v].email) : ~RightPassword(v, x)
    /\ Pass(v, "refused")
    /\ UNCHANGED <<vars, sessions, opened>>

\* The login page comes back; or a statement fails, or the client goes away.
Drop(v) ==
    /\ ~VisitAt(v, "idle")
    /\ Leave(v)
    /\ UNCHANGED <<vars, sessions, opened>>

\* expires_at passes.
Expire(t) ==
    /\ ~Over(t) /\ sessions' = [sessions EXCEPT ![t] = None]
    /\ UNCHANGED <<vars, visit, opened>>

-----------------------------------------------------------------------------

Register(r) ==
    /\ \/ Create(r) \/ Consume(r) \/ InsertUser(r) \/ Commit(r) \/ SendRequest(r)
       \/ \E t \in Table : EnsureDefaults(r, t)
       \/ Fail(r)
    /\ UNCHANGED <<sessions, visit, opened>>

Serve(v) == Middleware(v) \/ Save(v) \/ Revoke(v) \/ Login(v) \/ Refuse(v) \/ Drop(v)

\* Bounds: so many requests at once and a token left for each that may want one.
Registering == {r \in Request : Active(r)}
OnVisit(jobs) == {v \in Visit : visit[v].job \in jobs}
Idleness == Cardinality(Registering) + Cardinality(OnVisit(Job)) < MaxAtWork
TokenLeft ==
    Cardinality(Registering) + Cardinality(OnVisit({"login"})) < Cardinality(Token \ Given)

SNext ==
    \/ \E r \in Request :
         \/ Register(r) \/ IssueNew(r)
         \/ /\ Room /\ Idleness /\ TokenLeft
            /\ \E e \in Email : BeginOpen(r, e) \/ \E i \in User : BeginInvited(r, e, i)
            /\ UNCHANGED <<sessions, visit, opened>>
    \/ \E v \in Visit :
         \/ Serve(v)
         \/ /\ Idleness
            /\ \/ \E t \in Given, job \in {"settings", "logout"} : Send(v, job, t, None, None)
               \/ /\ TokenLeft
                  /\ \E x \in users, e \in Email :
                       Fold[e] = Fold[x.email] /\ Send(v, "login", None, x.id, e)
    \/ \E t \in Token : Expire(t)

SSpec == SInit /\ [][SNext]_svars

\* The fairness of Accounts.
SFairSpec ==
    /\ SSpec
    /\ \A r \in Request :
         WF_vars(Advance(r)) /\ SF_vars(Consume(r)) /\ SF_vars(Create(r)) /\ SF_vars(InsertUser(r))

-----------------------------------------------------------------------------
(* Properties *)

\* What applies to a user changes only through a request that carried a session he
\* opened himself, by registering or with his password, and that was neither
\* revoked nor expired when the request was sent, whatever logins, logouts and the
\* clock do meanwhile (Middleware, Revoke, RequireAuth).
OnlyOwnersAct ==
    [][\A t \in Table, u \in User :
         Effective(t, u)' # Effective(t, u) =>
           \E v \in Visit : /\ visit[v].job = "settings" /\ ~visit[v].late
                            /\ visit[v].token # None /\ opened[visit[v].token] = u]_svars

\* Who logs in with his password and his own e-mail, in whatever case, is let in,
\* unless another account's e-mail differs from his in case only: registration
\* compares with case, login without (users.email UNIQUE, UserRepo.ByEmail).
LoginEntersOwn ==
    \A v \in Visit :
        VisitAt(v, "refused") =>
            \E x, y \in users : x.id = visit[v].sender /\ y # x /\ Fold[x.email] = Fold[y.email]
=============================================================================
