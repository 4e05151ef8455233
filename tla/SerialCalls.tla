---------------------------- MODULE SerialCalls ----------------------------
(***************************************************************************)
(* Relations, as long as its calls come one after the other, implements    *)
(* Relationship: each call is one step of it.  serial is auxiliary: no     *)
(* call has met another one, or a single statement, so far.                *)
(***************************************************************************)
EXTENDS RelationsHistory

VARIABLE serial

svars == <<hvars, serial>>

Busy == {r \in Request : ~At(r, "idle")}

SInit == HInit /\ serial = TRUE
SNext ==
    /\ HNext
    /\ serial' = (serial /\ (\A r, s \in Busy' : r = s) /\ (call' = call => Busy = {}))
SSpec == SInit /\ [][SNext]_svars

\* The tables once the calls in flight have run to their end: a ban counts from
\* its first DELETE, a friendship from its INSERT.
Banning == {r \in Request : call[r].pc \in {"dropOutgoing", "dropIncoming", "addBan"}}
Accepting == {r \in Request : At(r, "dropAccepted")}

friendsDone == friends \ {Pair(call[r].me, call[r].other) : r \in Banning}
pendingDone == pending \ ({Outgoing(r) : r \in Banning} \cup {Incoming(r) : r \in Banning \cup Accepting})
bansDone == bans \cup {Outgoing(r) : r \in Banning}

Done == INSTANCE Relationship WITH
    friends <- friendsDone, pending <- pendingDone, bans <- bansDone

\* Called one after the other, the services do what their comments say: every
\* call is one step of Relationship. One that breaks off only loses what it had
\* not yet written, and the calls after it are whole steps again.
CallsAreAtomic ==
    Done!Init /\ [][serial' => Done!Next \/ \E r \in Request : Fail(r)]_(Done!vars)

\* Called one after the other, but each broken off anywhere, the services never
\* leave a ban beside a friendship or a request of the pair, nor requests that
\* cross: Add writes its ban last, and SendRequest its request (bans/service.go:3,
\* friends.go:44).
BrokenOffCleanly ==
    serial =>
      /\ \A p \in bans : {p[1], p[2]} \notin friends /\ Done!Between(p[1], p[2]) \cap pending = {}
      /\ \A p \in pending : <<p[2], p[1]>> \notin pending
=============================================================================
