----------------------------- MODULE Relations -----------------------------
(***************************************************************************)
(* Friendships, friend requests and bans: the services friends and bans    *)
(* over three tables.  Each service call is a sequence of SQL statements,  *)
(* every one a transaction of its own, so the calls of concurrent HTTP     *)
(* requests interleave between statements.  A step is one statement.       *)
(***************************************************************************)
EXTENDS Access

CONSTANTS
    User, NoUser,
    Request,     \* the HTTP requests that may be served at the same time
    Faults       \* may a statement fail, or the client go away, in mid-call?

Op == {"send", "accept", "ban"}

\* The statement a call executes next.
Step == {"idle", "isBanned", "isBannedBack", "areFriends", "hasReverse", "addRequest",
         "addFriendship", "dropAccepted", "dropFriendship", "dropOutgoing",
         "dropIncoming", "addBan"}

Call == [op: Op \cup {"none"}, me: User \cup {NoUser}, other: User \cup {NoUser}, pc: Step]
Idle == [op |-> "none", me |-> NoUser, other |-> NoUser, pc |-> "idle"]

ASSUME RelationsAssumption == NoUser \notin User /\ Faults \in BOOLEAN

VARIABLES
    friends,     \* friendships: pairs {a, b}
    pending,     \* friend_requests: <<from, to>>
    bans,        \* bans: <<banner, banned>>
    call         \* the service call each HTTP request is in

tables == <<friends, pending, bans>>
vars == <<tables, call>>

Init ==
    /\ friends = {} /\ pending = {} /\ bans = {}
    /\ call = [r \in Request |-> Idle]

At(r, pc) == call[r].pc = pc
Goto(r, pc) == call' = [call EXCEPT ![r].pc = pc]
Return(r) == call' = [call EXCEPT ![r] = Idle]

Begin(r, op, x, y, pc) ==
    /\ At(r, "idle")
    /\ call' = [call EXCEPT ![r] = [op |-> op, me |-> x, other |-> y, pc |-> pc]]
    /\ UNCHANGED tables

-----------------------------------------------------------------------------
(* friends.Service *)

NotSelfUnchecked(x, y) == TRUE                       \* a slip, for the mutants
NotSelf(x, y) == x # y

\* A friendship is one row for both, whoever made it (domain.OrderedPair).
Pair(x, y) == {x, y}

\* The ids a call passes on: the request to the caller, and the caller's own.
OutgoingToNobody(r) == <<call[r].me, NoUser>>        \* a slip, for the mutants
Outgoing(r) == <<call[r].me, call[r].other>>
IncomingSwapped(r) == <<call[r].me, call[r].other>>  \* a slip, for the mutants
Incoming(r) == <<call[r].other, call[r].me>>

\* SendRequest: nobody befriends himself.
BeginSend(r, x, y) == NotSelf(x, y) /\ Begin(r, "send", x, y, "isBanned")

IsBannedRead(r) ==
    /\ At(r, "isBanned")
    /\ IF IsBanned(bans, call[r].other, call[r].me) THEN Return(r) ELSE Goto(r, "isBannedBack")
    /\ UNCHANGED tables

HasBannedRepeated(r) == IsBanned(bans, call[r].other, call[r].me)   \* a slip, for the mutants
HasBanned(r) == IsBanned(bans, call[r].me, call[r].other)

IsBannedBackRead(r) ==
    /\ At(r, "isBannedBack")
    /\ IF HasBanned(r) THEN Return(r) ELSE Goto(r, "areFriends")
    /\ UNCHANGED tables

AreFriendsRead(r) ==
    /\ At(r, "areFriends")
    /\ IF Pair(call[r].me, call[r].other) \in friends THEN Return(r) ELSE Goto(r, "hasReverse")
    /\ UNCHANGED tables

\* Accept looks for the same row as SendRequest does for a reverse request, and
\* goes on in the same way; only without the row they part.
BeginAccept(r, x, y) == Begin(r, "accept", x, y, "hasReverse")

HasRequestRead(r) ==
    /\ At(r, "hasReverse")
    /\ IF Incoming(r) \in pending THEN Goto(r, "addFriendship")
       ELSE IF call[r].op = "send" THEN Goto(r, "addRequest") ELSE Return(r)
    /\ UNCHANGED tables

AddRequest(r) ==
    /\ At(r, "addRequest")
    /\ pending' = pending \cup {Outgoing(r)}
    /\ Return(r)
    /\ UNCHANGED <<friends, bans>>

AddFriendship(r) ==
    /\ At(r, "addFriendship")
    /\ friends' = friends \cup {Pair(call[r].me, call[r].other)}
    /\ Goto(r, "dropAccepted")
    /\ UNCHANGED <<pending, bans>>

DropAccepted(r) ==
    /\ At(r, "dropAccepted")
    /\ pending' = pending \ {Incoming(r)}
    /\ Return(r)
    /\ UNCHANGED <<friends, bans>>

\* One statement each, so a step of their own.
CancelRequest(x, y) ==
    /\ <<x, y>> \in pending
    /\ pending' = pending \ {<<x, y>>}
    /\ UNCHANGED <<friends, bans, call>>

RejectRequest(x, y) ==
    /\ <<y, x>> \in pending
    /\ pending' = pending \ {<<y, x>>}
    /\ UNCHANGED <<friends, bans, call>>

Remove(x, y) ==
    /\ Pair(x, y) \in friends
    /\ friends' = friends \ {Pair(x, y)}
    /\ UNCHANGED <<pending, bans, call>>

-----------------------------------------------------------------------------
(* bans.Service *)

\* Add: nobody bans himself.
BeginBan(r, x, y) == NotSelf(x, y) /\ Begin(r, "ban", x, y, "dropFriendship")

DropFriendship(r) ==
    /\ At(r, "dropFriendship")
    /\ friends' = friends \ {Pair(call[r].me, call[r].other)}
    /\ Goto(r, "dropOutgoing")
    /\ UNCHANGED <<pending, bans>>

DropOutgoing(r) ==
    /\ At(r, "dropOutgoing")
    /\ pending' = pending \ {Outgoing(r)}
    /\ Goto(r, "dropIncoming")
    /\ UNCHANGED <<friends, bans>>

DropIncoming(r) ==
    /\ At(r, "dropIncoming")
    /\ pending' = pending \ {Incoming(r)}
    /\ Goto(r, "addBan")
    /\ UNCHANGED <<friends, bans>>

\* The event published after it is in module Newsfeed.
AddBan(r) ==
    /\ At(r, "addBan")
    /\ bans' = bans \cup {Outgoing(r)}
    /\ Return(r)
    /\ UNCHANGED <<friends, pending>>

Unban(x, y) ==
    /\ <<x, y>> \in bans
    /\ bans' = bans \ {<<x, y>>}
    /\ UNCHANGED <<friends, pending, call>>

-----------------------------------------------------------------------------

\* A statement fails or the request's context ends: the call returns an error
\* and what it has written stays.
Fail(r) == Faults /\ ~At(r, "idle") /\ Return(r) /\ UNCHANGED tables

Advance(r) ==
    \/ IsBannedRead(r) \/ IsBannedBackRead(r) \/ AreFriendsRead(r) \/ HasRequestRead(r)
    \/ AddRequest(r) \/ AddFriendship(r) \/ DropAccepted(r)
    \/ DropFriendship(r) \/ DropOutgoing(r) \/ DropIncoming(r) \/ AddBan(r)

\* The single statements run inside a request too: one has to be free.
Free == \E r \in Request : At(r, "idle")

Next ==
    \/ \E r \in Request :
         \/ Advance(r) \/ Fail(r)
         \/ \E x, y \in User : BeginSend(r, x, y) \/ BeginAccept(r, x, y) \/ BeginBan(r, x, y)
    \/ /\ Free
       /\ \E x, y \in User :
            CancelRequest(x, y) \/ RejectRequest(x, y) \/ Remove(x, y) \/ Unban(x, y)

Spec == Init /\ [][Next]_vars

-----------------------------------------------------------------------------
(* Properties *)

TypeOK ==
    /\ friends \in SUBSET {{x, y} : x, y \in User}
    /\ pending \in SUBSET (User \X User)
    /\ bans \in SUBSET (User \X User)
    /\ call \in [Request -> Call]
    /\ \A r \in Request : ~At(r, "idle") => call[r].op \in Op /\ {call[r].me, call[r].other} \subseteq User

\* A user has no row about himself in any table, as the CHECKs of the three
\* tables demand; only the guards of SendRequest and Add stand in the way.
NobodyAlone ==
    /\ \A x \in User : {x} \notin friends
    /\ \A x \in User : <<x, x>> \notin pending /\ <<x, x>> \notin bans

Quiet == \A r \in Request : At(r, "idle")

\* "Adding a ban tears down any friendship between the pair" (bans/service.go:3).
BannedAreNotFriends == Quiet => \A p \in bans : {p[1], p[2]} \notin friends
=============================================================================
