-------------------------- MODULE RelationsHistory --------------------------
(***************************************************************************)
(* Relations with two auxiliary variables, read by no step:                *)
(*   asked  the <<x, y>> such that x has asked y for friendship or has     *)
(*          answered y's request                                           *)
(*   under  <<r, b>> for a call r that began while the ban b stood, as     *)
(*          long as both last                                              *)
(***************************************************************************)
EXTENDS Relations

VARIABLES asked, under

hvars == <<vars, asked, under>>

HInit == Init /\ asked = {} /\ under = {}

Begun == {r \in Request : At(r, "idle") /\ call'[r].pc # "idle"}

Recorded ==
    /\ asked' = asked \cup
         {<<call'[r].me, call'[r].other>> : r \in {s \in Begun : call'[s].op \in {"send", "accept"}}}
    /\ under' = {e \in under : e[2] \in bans' /\ call'[e[1]].pc # "idle"} \cup (Begun \X bans)

HNext == Next /\ Recorded
HSpec == HInit /\ [][HNext]_hvars

\* No friendship and no request without consent: friends have both asked or
\* accepted, a request was sent by its sender, in spite of calls that race or
\* break off (SendRequest, Accept).
Consent ==
    /\ \A x, y \in User : {x, y} \in friends => <<x, y>> \in asked /\ <<y, x>> \in asked
    /\ pending \subseteq asked

\* A request sent after the ban, in either direction, is refused as long as
\* that ban stands, whatever else happens between the two reads of the bans
\* table (SendRequest; "After a ban, neither party can send a friend request to
\* the other", bans/service.go:4).
RefusedUnderBan ==
    \A e \in under :
        LET c == call[e[1]]
        IN  c.op = "send" /\ e[2] \in {<<c.me, c.other>>, <<c.other, c.me>>}
              => c.pc \in {"isBanned", "isBannedBack"}
=============================================================================
