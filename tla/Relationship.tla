---------------------------- MODULE Relationship ----------------------------
(***************************************************************************)
(* What the services friends and bans promise their callers: each call is  *)
(* one step.  Bans and friendship (or requests) between two users exclude  *)
(* each other, and a request that meets its reverse makes a friendship.    *)
(***************************************************************************)
EXTENDS Access

CONSTANT User

VARIABLES friends, pending, bans

vars == <<friends, pending, bans>>

Between(x, y) == {<<x, y>>, <<y, x>>}

Init == friends = {} /\ pending = {} /\ bans = {}

Befriend(x, y) ==
    /\ friends' = friends \cup {{x, y}}
    /\ pending' = pending \ {<<y, x>>}
    /\ bans' = bans

SendRequest(x, y) ==
    /\ x # y /\ ~MutuallyBanned(bans, x, y) /\ {x, y} \notin friends
    /\ IF <<y, x>> \in pending
       THEN Befriend(x, y)
       ELSE pending' = pending \cup {<<x, y>>} /\ UNCHANGED <<friends, bans>>

Accept(x, y) == <<y, x>> \in pending /\ Befriend(x, y)

Withdraw(x, y) == pending' = pending \ {<<x, y>>} /\ UNCHANGED <<friends, bans>>

Remove(x, y) == friends' = friends \ {{x, y}} /\ UNCHANGED <<pending, bans>>

Ban(x, y) ==
    /\ x # y
    /\ friends' = friends \ {{x, y}}
    /\ pending' = pending \ Between(x, y)
    /\ bans' = bans \cup {<<x, y>>}

Unban(x, y) == bans' = bans \ {<<x, y>>} /\ UNCHANGED <<friends, pending>>

Next == \E x, y \in User :
    \/ SendRequest(x, y) \/ Accept(x, y) \/ Withdraw(x, y) \/ Remove(x, y)
    \/ Ban(x, y) \/ Unban(x, y)

Spec == Init /\ [][Next]_vars
=============================================================================
