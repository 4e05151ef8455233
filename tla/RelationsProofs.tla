-------------------------- MODULE RelationsProofs --------------------------
(***************************************************************************)
(* Consent and RefusedUnderBan hold of RelationsHistory for any number of  *)
(* users, concurrent requests, races and calls that break off; calls that  *)
(* come one after the other implement Relationship (module SerialCalls).   *)
(***************************************************************************)
EXTENDS SerialCalls, TLAPS

FriendSteps == {"isBanned", "isBannedBack", "areFriends", "hasReverse", "addRequest",
                "addFriendship", "dropAccepted"}
SendSteps == {"isBanned", "isBannedBack", "areFriends", "addRequest"}
BanSteps == {"dropFriendship", "dropOutgoing", "dropIncoming", "addBan"}

\* Every statement belongs to the operations that execute it, and the calls of
\* those that refuse a user himself are between two users.
StepsOfOps ==
    \A r \in Request :
        /\ call[r].pc \in FriendSteps => call[r].op \in {"send", "accept"}
        /\ call[r].pc \in SendSteps => call[r].op = "send"
        /\ call[r].pc \in BanSteps => call[r].op = "ban"
        /\ call[r].op \in {"send", "ban"} \/ call[r].pc = "addFriendship" => call[r].me # call[r].other

\* What a call in flight knows of consent: its caller has given it, and once a
\* request has been read, so has the other.
ConsentInCalls ==
    \A r \in Request :
        /\ call[r].pc \in FriendSteps => Outgoing(r) \in asked
        /\ call[r].pc = "addFriendship" => Incoming(r) \in asked

\* A call under a ban in force since it began has not got past the read that
\* meets the ban.
HeldUnderBan ==
    \A e \in under :
        /\ call[e[1]].pc # "idle"
        /\ e[2] \in bans
        /\ call[e[1]].op = "send" =>
             /\ e[2] = Incoming(e[1]) => call[e[1]].pc = "isBanned"
             /\ e[2] = Outgoing(e[1]) => call[e[1]].pc \in {"isBanned", "isBannedBack"}

HTypeOK ==
    /\ TypeOK
    /\ asked \in SUBSET (User \X User)
    /\ under \in SUBSET (Request \X (User \X User))

IInv == HTypeOK /\ StepsOfOps /\ NobodyAlone /\ Consent /\ ConsentInCalls /\ HeldUnderBan

-----------------------------------------------------------------------------

LEMMA InitInv == HInit => IInv
  BY RelationsAssumption
     DEF HInit, Init, IInv, HTypeOK, TypeOK, StepsOfOps, NobodyAlone, Consent,
         ConsentInCalls, HeldUnderBan, Idle, Call, Step, At, FriendSteps, SendSteps,
         BanSteps, Op

\* The auxiliary variables in a step in which no call begins.
LEMMA NoneBegins ==
  ASSUME Recorded, Begun = {}
  PROVE  /\ asked' = asked
         /\ under' \subseteq under
         /\ \A e \in under' : e[2] \in bans' /\ call'[e[1]].pc # "idle"
  BY DEF Recorded

\* A call in flight goes on: only its statement changes.
LEMMA GotoStep ==
  ASSUME HTypeOK, Recorded, NEW r \in Request, ~At(r, "idle"), NEW pc \in Step \ {"idle"}, Goto(r, pc)
  PROVE  /\ call' \in [Request -> Call]
         /\ \A q \in Request : q # r => call'[q] = call[q]
         /\ call'[r].pc = pc /\ call'[r].op = call[r].op
         /\ call'[r].me = call[r].me /\ call'[r].other = call[r].other
         /\ asked' = asked
         /\ under' \subseteq under
         /\ \A e \in under' : e[2] \in bans' /\ call'[e[1]].pc # "idle"
  <1>1. call' \in [Request -> Call]
    BY DEF HTypeOK, TypeOK, At, Goto, Call, Step
  <1>2. Begun = {}
    BY DEF HTypeOK, TypeOK, At, Goto, Begun
  <1> QED BY <1>1, <1>2, NoneBegins DEF HTypeOK, TypeOK, At, Goto, Call

\* A call in flight ends.
LEMMA ReturnStep ==
  ASSUME HTypeOK, Recorded, NEW r \in Request, ~At(r, "idle"), Return(r)
  PROVE  /\ call' \in [Request -> Call]
         /\ \A q \in Request : q # r => call'[q] = call[q]
         /\ call'[r] = Idle
         /\ asked' = asked
         /\ under' \subseteq under
         /\ \A e \in under' : e[2] \in bans' /\ call'[e[1]].pc # "idle"
  <1>1. call' \in [Request -> Call]
    BY DEF HTypeOK, TypeOK, At, Return, Call, Step, Idle
  <1>2. Begun = {}
    BY DEF HTypeOK, TypeOK, At, Return, Begun, Idle
  <1> QED BY <1>1, <1>2, NoneBegins DEF HTypeOK, TypeOK, At, Return, Call

-----------------------------------------------------------------------------

\* A call returns and the tables change, if at all, by rows that the other
\* conjuncts allow.
LEMMA ReturnInv ==
  ASSUME IInv, Recorded, NEW r \in Request, ~At(r, "idle"), Return(r),
         friends' = friends,
         \A p \in pending' : p \in pending \/ (p \in asked /\ p[1] # p[2]),
         \A p \in bans' : p \in bans \/ (p \in User \X User /\ p[1] # p[2])
  PROVE  IInv'
  <1> USE DEF IInv
  <1>1. /\ call' \in [Request -> Call]
        /\ \A q \in Request : q # r => call'[q] = call[q]
        /\ call'[r] = Idle
        /\ asked' = asked
        /\ under' \subseteq under
        /\ \A e \in under' : e[2] \in bans' /\ call'[e[1]].pc # "idle"
    BY ReturnStep
  <1>2. HTypeOK'
    BY <1>1 DEF HTypeOK, TypeOK, At, Idle
  <1>3. StepsOfOps' /\ ConsentInCalls'
    BY <1>1 DEF StepsOfOps, ConsentInCalls, Idle, FriendSteps, SendSteps, BanSteps, Outgoing, Incoming
  <1>4. NobodyAlone' /\ Consent'
    BY <1>1 DEF NobodyAlone, Consent
  <1>5. HeldUnderBan'
    BY <1>1 DEF HeldUnderBan, Idle, Outgoing, Incoming, HTypeOK
  <1> QED BY <1>2, <1>3, <1>4, <1>5

\* A call goes on with a statement of its operation, having learnt what that
\* statement takes for granted; rows only go, but for the friendship's.
LEMMA GotoInv ==
  ASSUME IInv, Recorded, NEW r \in Request, ~At(r, "idle"),
         NEW pc \in Step \ {"idle"}, Goto(r, pc),
         \/ friends' \subseteq friends
         \/ call[r].pc = "addFriendship" /\ friends' = friends \cup {Pair(call[r].me, call[r].other)},
         pending' \subseteq pending,
         bans' = bans,
         pc \in FriendSteps => call[r].pc \in FriendSteps,
         pc \in SendSteps => call[r].op = "send",
         pc \in BanSteps => call[r].op = "ban",
         pc = "addFriendship" => Incoming(r) \in pending,
         call[r].pc = "isBanned" => pc = "isBannedBack" /\ Incoming(r) \notin bans,
         call[r].pc = "isBannedBack" => Outgoing(r) \notin bans
  PROVE  IInv'
  <1> USE DEF IInv
  <1>1. /\ call' \in [Request -> Call]
        /\ \A q \in Request : q # r => call'[q] = call[q]
        /\ call'[r].pc = pc /\ call'[r].op = call[r].op
        /\ call'[r].me = call[r].me /\ call'[r].other = call[r].other
        /\ asked' = asked
        /\ under' \subseteq under
        /\ \A e \in under' : e[2] \in bans' /\ call'[e[1]].pc # "idle"
    BY GotoStep
  <1>2. call[r].me \in User /\ call[r].other \in User /\ call[r].op \in Op
    BY DEF HTypeOK, TypeOK, At
  <1>3. HTypeOK'
    BY <1>1, <1>2 DEF HTypeOK, TypeOK, At, Pair
  <1>4. pc = "addFriendship" => Incoming(r) \in asked /\ call[r].me # call[r].other
    BY <1>2 DEF Consent, NobodyAlone, Incoming
  <1>5. StepsOfOps'
    BY <1>1, <1>4 DEF StepsOfOps, FriendSteps, SendSteps, BanSteps
  <1>6. ConsentInCalls'
    BY <1>1, <1>4 DEF ConsentInCalls, Outgoing, Incoming, FriendSteps
  <1>7. call[r].pc = "addFriendship" =>
          /\ Outgoing(r) \in asked /\ Incoming(r) \in asked
          /\ call[r].me # call[r].other
    BY DEF ConsentInCalls, StepsOfOps, FriendSteps
  <1>8. NobodyAlone'
    BY <1>1, <1>7 DEF NobodyAlone, Pair
  <1>9. Consent'
    BY <1>1, <1>7 DEF Consent, Pair, Outgoing, Incoming
  <1>10. HeldUnderBan'
    BY <1>1 DEF HeldUnderBan, Outgoing, Incoming, HTypeOK
  <1> QED BY <1>3, <1>5, <1>6, <1>8, <1>9, <1>10

LEMMA AdvanceInv ==
  ASSUME IInv, Recorded, NEW r \in Request, Advance(r) \/ Fail(r)
  PROVE  IInv'
  <1> USE DEF IInv, At, tables, Step, FriendSteps, SendSteps, BanSteps
  <1>0. call[r].pc # "idle" => call[r].me \in User /\ call[r].other \in User
    BY DEF HTypeOK, TypeOK
  <1>1. CASE IsBannedRead(r)
    BY <1>1, ReturnInv, GotoInv DEF IsBannedRead, StepsOfOps, IsBanned, Incoming
  <1>2. CASE IsBannedBackRead(r)
    BY <1>2, ReturnInv, GotoInv DEF IsBannedBackRead, StepsOfOps, HasBanned, IsBanned, Outgoing
  <1>3. CASE AreFriendsRead(r)
    BY <1>3, ReturnInv, GotoInv DEF AreFriendsRead, StepsOfOps
  <1>4. CASE HasRequestRead(r)
    BY <1>4, ReturnInv, GotoInv DEF HasRequestRead, StepsOfOps
  <1>5. CASE AddRequest(r)
    <2>1. Outgoing(r) \in asked /\ call[r].me # call[r].other
      BY <1>5 DEF AddRequest, ConsentInCalls, StepsOfOps
    <2> QED BY <1>5, <2>1, ReturnInv DEF AddRequest, Outgoing
  <1>6. CASE AddFriendship(r)
    BY <1>6, GotoInv DEF AddFriendship, StepsOfOps
  <1>7. CASE DropAccepted(r)
    BY <1>7, ReturnInv DEF DropAccepted
  <1>8. CASE DropFriendship(r)
    BY <1>8, GotoInv DEF DropFriendship, StepsOfOps
  <1>9. CASE DropOutgoing(r)
    BY <1>9, GotoInv DEF DropOutgoing, StepsOfOps
  <1>10. CASE DropIncoming(r)
    BY <1>10, GotoInv DEF DropIncoming, StepsOfOps
  <1>11. CASE AddBan(r)
    <2>1. Outgoing(r) \in User \X User /\ call[r].me # call[r].other
      BY <1>0, <1>11 DEF AddBan, StepsOfOps, Outgoing
    <2> QED BY <1>11, <2>1, ReturnInv DEF AddBan, Outgoing
  <1>12. CASE Fail(r)
    BY <1>12, ReturnInv DEF Fail
  <1> QED BY <1>1, <1>2, <1>3, <1>4, <1>5, <1>6, <1>7, <1>8, <1>9, <1>10, <1>11, <1>12 DEF Advance

\* A call begins: it knows the bans that stand, and its caller has consented.
LEMMA BeginInv ==
  ASSUME IInv, Recorded, NEW r \in Request, NEW x \in User, NEW y \in User,
         BeginSend(r, x, y) \/ BeginAccept(r, x, y) \/ BeginBan(r, x, y)
  PROVE  IInv'
  <1> USE DEF IInv
  <1>1. PICK op \in Op, pc \in Step :
          /\ Begin(r, op, x, y, pc)
          /\ \/ op = "send" /\ pc = "isBanned" /\ x # y
             \/ op = "accept" /\ pc = "hasReverse"
             \/ op = "ban" /\ pc = "dropFriendship" /\ x # y
    BY DEF BeginSend, BeginAccept, BeginBan, NotSelf, Op, Step
  <1>2. /\ call' \in [Request -> Call]
        /\ \A q \in Request : q # r => call'[q] = call[q]
        /\ call'[r].pc = pc /\ call'[r].op = op /\ call'[r].me = x /\ call'[r].other = y
        /\ pc # "idle" /\ call[r].pc = "idle"
        /\ UNCHANGED tables
    BY <1>1 DEF Begin, At, HTypeOK, TypeOK, Call
  <1>3. Begun = {r}
    BY <1>2 DEF Begun, At
  <1>4. asked' = asked \cup (IF op = "ban" THEN {} ELSE {<<x, y>>})
    BY <1>1, <1>2, <1>3 DEF Recorded
  <1>5. \A e \in under' : /\ e \in under \/ (e[1] = r /\ e[2] \in bans)
                          /\ e[2] \in bans' /\ call'[e[1]].pc # "idle"
                          /\ e \in Request \X (User \X User)
    BY <1>2, <1>3 DEF Recorded, HTypeOK, TypeOK, tables
  <1>6. HTypeOK'
    BY <1>1, <1>2, <1>4, <1>5 DEF HTypeOK, TypeOK, At, tables
  <1>7. StepsOfOps'
    BY <1>1, <1>2 DEF StepsOfOps, FriendSteps, SendSteps, BanSteps
  <1>8. ConsentInCalls'
    BY <1>1, <1>2, <1>4 DEF ConsentInCalls, FriendSteps, Outgoing, Incoming
  <1>9. NobodyAlone' /\ Consent'
    BY <1>2, <1>4 DEF NobodyAlone, Consent, tables
  <1>10. HeldUnderBan'
    BY <1>1, <1>2, <1>5 DEF HeldUnderBan, Outgoing, Incoming, HTypeOK, tables
  <1> QED BY <1>6, <1>7, <1>8, <1>9, <1>10

\* A single statement only takes rows away.
LEMMA StatementInv ==
  ASSUME IInv, Recorded, NEW x \in User, NEW y \in User,
         CancelRequest(x, y) \/ RejectRequest(x, y) \/ Remove(x, y) \/ Unban(x, y)
  PROVE  IInv'
  <1> USE DEF IInv
  <1>1. /\ call' = call
        /\ friends' \subseteq friends /\ pending' \subseteq pending /\ bans' \subseteq bans
    BY DEF CancelRequest, RejectRequest, Remove, Unban
  <1>2. Begun = {}
    BY <1>1 DEF Begun, At
  <1>3. /\ asked' = asked
        /\ under' \subseteq under
        /\ \A e \in under' : e[2] \in bans' /\ call'[e[1]].pc # "idle"
    BY <1>2, NoneBegins
  <1>4. HTypeOK'
    BY <1>1, <1>3 DEF HTypeOK, TypeOK, At
  <1>5. StepsOfOps' /\ ConsentInCalls'
    BY <1>1, <1>3 DEF StepsOfOps, ConsentInCalls, Outgoing, Incoming
  <1>6. NobodyAlone' /\ Consent'
    BY <1>1, <1>3 DEF NobodyAlone, Consent
  <1>7. HeldUnderBan'
    BY <1>1, <1>3 DEF HeldUnderBan, Outgoing, Incoming
  <1> QED BY <1>4, <1>5, <1>6, <1>7

LEMMA Invariance == HSpec => []IInv
  <1>1. HInit => IInv
    BY InitInv
  <1>2. IInv /\ [HNext]_hvars => IInv'
    <2> SUFFICES ASSUME IInv, [HNext]_hvars PROVE IInv'
      OBVIOUS
    <2>1. CASE HNext
      BY <2>1, AdvanceInv, BeginInv, StatementInv DEF HNext, Next
    <2>2. CASE UNCHANGED hvars
      BY <2>2 DEF hvars, vars, tables, IInv, HTypeOK, TypeOK, StepsOfOps, NobodyAlone, Consent,
             ConsentInCalls, HeldUnderBan, At, Outgoing, Incoming
    <2> QED BY <2>1, <2>2
  <1> QED BY <1>1, <1>2, PTL DEF HSpec

-----------------------------------------------------------------------------

\* Every table and every call has its type, whatever runs at the same time.
THEOREM TypesHold == HSpec => []TypeOK
  <1>1. IInv => TypeOK
    BY DEF IInv, HTypeOK
  <1> QED BY <1>1, Invariance, PTL

\* Friends have both asked or accepted, and a request is its sender's own
\* (SendRequest, Accept).
THEOREM ConsentHolds == HSpec => []Consent
  <1>1. IInv => Consent
    BY DEF IInv
  <1> QED BY <1>1, Invariance, PTL

\* Rows about a user himself never appear, whatever statement of whatever call
\* writes them, so the CHECKs of the tables never fail a request.
THEOREM NobodyIsAlone == HSpec => []NobodyAlone
  <1>1. IInv => NobodyAlone
    BY DEF IInv
  <1> QED BY <1>1, Invariance, PTL

\* A SendRequest begun under a ban is refused while that ban stands, although
\* the two directions are read by two statements (SendRequest).
THEOREM BanRefusesRequests == HSpec => []RefusedUnderBan
  <1>1. IInv => RefusedUnderBan
    BY DEF IInv, HeldUnderBan, RefusedUnderBan, Outgoing, Incoming
  <1> QED BY <1>1, Invariance, PTL

-----------------------------------------------------------------------------
(* Calls one after the other *)

\* What a SendRequest or Accept in flight has read, if no other call has run
\* since it began.
KnowsOfRequest(r) ==
    LET c == call[r] IN
    /\ c.op = "send" /\ c.pc \notin {"isBanned", "dropAccepted"} => Incoming(r) \notin bans
    /\ c.op = "send" /\ c.pc \notin {"isBanned", "isBannedBack", "dropAccepted"} => Outgoing(r) \notin bans
    /\ c.op = "send" /\ c.pc \in {"hasReverse", "addRequest", "addFriendship"}
         => Pair(c.me, c.other) \notin friends
    /\ c.pc = "addRequest" => Incoming(r) \notin pending
    /\ c.pc = "addFriendship" => Incoming(r) \in pending

\* What a ban in flight has deleted already.
KnowsOfBan(r) ==
    LET c == call[r] IN
    /\ r \in Banning => Pair(c.me, c.other) \notin friends
    /\ c.pc \in {"dropIncoming", "addBan"} => Outgoing(r) \notin pending
    /\ c.pc = "addBan" => Incoming(r) \notin pending

OneIsBusy == \A r, s \in Busy : r = s

\* No ban beside a friendship or a request, no two requests that cross.
Exclusive ==
    /\ \A x, y \in User : <<x, y>> \in bans =>
         {x, y} \notin friends /\ <<x, y>> \notin pending /\ <<y, x>> \notin pending
    /\ \A x, y \in User : <<x, y>> \in pending => <<y, x>> \notin pending

SInv == serial => OneIsBusy /\ Exclusive /\ \A r \in Busy : KnowsOfRequest(r) /\ KnowsOfBan(r)

LEMMA InitSerial == SInit => SInv
  BY DEF SInit, HInit, Init, SInv, OneIsBusy, Exclusive, Busy, At, Idle

\* A step of the only call at work.
LEMMA AdvanceSerial ==
  ASSUME IInv, IInv', OneIsBusy, Exclusive, NEW r \in Request, Advance(r) \/ Fail(r),
         KnowsOfRequest(r), KnowsOfBan(r)
  PROVE  /\ Exclusive'
         /\ \A s \in Busy' : s = r
         /\ r \in Busy' => KnowsOfRequest(r)' /\ KnowsOfBan(r)'
  <1> DEFINE c == call[r]
             x == c.me
             y == c.other
  <1>1. ~At(r, "idle")
    BY DEF Advance, Fail, IsBannedRead, IsBannedBackRead, AreFriendsRead, HasRequestRead, AddRequest,
         AddFriendship, DropAccepted, DropFriendship, DropOutgoing, DropIncoming, AddBan, At
  <1>2. /\ x \in User /\ y \in User /\ c.op \in Op /\ c \in Call
        /\ call \in [Request -> Call]
    BY <1>1 DEF IInv, HTypeOK, TypeOK
  <1>3. ASSUME NEW pc \in Step, Goto(r, pc)
        PROVE  /\ call'[r].pc = pc /\ call'[r].op = c.op
               /\ call'[r].me = x /\ call'[r].other = y
               /\ Outgoing(r)' = Outgoing(r) /\ Incoming(r)' = Incoming(r)
               /\ \A s \in Busy' : s = r
    <2>1. /\ call'[r].pc = pc /\ call'[r].op = c.op /\ call'[r].me = x /\ call'[r].other = y
          /\ \A s \in Request : s # r => call'[s] = call[s]
      BY <1>2, <1>3 DEF Goto, Call
    <2>2. \A s \in Busy' : s = r
      BY <1>1, <2>1 DEF Busy, At, OneIsBusy
    <2> QED BY <2>1, <2>2 DEF Outgoing, Incoming
  <1>4. ASSUME Return(r) PROVE Busy' = {}
    <2>1. call'[r].pc = "idle" /\ \A s \in Request : s # r => call'[s] = call[s]
      BY <1>2, <1>4 DEF Return, Idle
    <2> QED BY <1>1, <2>1 DEF Busy, At, OneIsBusy
  <1> HIDE DEF c, x, y
  <1> USE DEF tables
  <1>5. ASSUME friends' \subseteq friends, pending' \subseteq pending, bans' = bans
        PROVE  Exclusive'
    BY <1>5 DEF Exclusive
  <1>6. CASE /\ UNCHANGED tables
             /\ \/ Return(r)
                \/ \E pc \in {"isBannedBack", "areFriends", "hasReverse", "addRequest", "addFriendship"} :
                     /\ Goto(r, pc)
                     /\ c.pc = "isBanned" => pc = "isBannedBack" /\ Incoming(r) \notin bans
                     /\ c.pc = "isBannedBack" => pc = "areFriends" /\ Outgoing(r) \notin bans
                     /\ c.pc = "areFriends" => pc = "hasReverse" /\ Pair(x, y) \notin friends
                     /\ c.pc = "hasReverse" => pc \in {"addRequest", "addFriendship"}
                     /\ c.pc \in {"isBanned", "isBannedBack", "areFriends", "hasReverse"}
                     /\ pc = "addRequest" => Incoming(r) \notin pending
                     /\ pc = "addFriendship" => Incoming(r) \in pending
    <2>1. Exclusive'
      BY <1>5, <1>6
    <2>2. CASE Return(r)
      BY <1>4, <2>1, <2>2
    <2>3. CASE ~Return(r)
      <3>1. PICK pc \in {"isBannedBack", "areFriends", "hasReverse", "addRequest", "addFriendship"} :
                     /\ Goto(r, pc)
                     /\ c.pc = "isBanned" => pc = "isBannedBack" /\ Incoming(r) \notin bans
                     /\ c.pc = "isBannedBack" => pc = "areFriends" /\ Outgoing(r) \notin bans
                     /\ c.pc = "areFriends" => pc = "hasReverse" /\ Pair(x, y) \notin friends
                     /\ c.pc = "hasReverse" => pc \in {"addRequest", "addFriendship"}
                     /\ c.pc \in {"isBanned", "isBannedBack", "areFriends", "hasReverse"}
                     /\ pc = "addRequest" => Incoming(r) \notin pending
                     /\ pc = "addFriendship" => Incoming(r) \in pending
        BY <1>6, <2>3
      <3>2. pc \in Step
        BY DEF Step
      <3>3. /\ call'[r].pc = pc /\ call'[r].op = c.op /\ call'[r].me = x /\ call'[r].other = y
            /\ Outgoing(r)' = Outgoing(r) /\ Incoming(r)' = Incoming(r)
            /\ \A s \in Busy' : s = r
        BY <1>3, <3>1, <3>2
      <3>4. KnowsOfRequest(r)'
        BY <1>6, <3>1, <3>3 DEF KnowsOfRequest, c, x, y
      <3>5. KnowsOfBan(r)'
        BY <3>1, <3>3 DEF KnowsOfBan, Banning
      <3> QED BY <2>1, <3>3, <3>4, <3>5
    <2> QED BY <2>2, <2>3
  <1>7. CASE IsBannedRead(r) \/ IsBannedBackRead(r) \/ AreFriendsRead(r) \/ HasRequestRead(r) \/ Fail(r)
    <2>1. CASE IsBannedRead(r)
      <3>1. c.pc = "isBanned" /\ UNCHANGED tables
            /\ call[r].me # call[r].other
        BY <2>1 DEF IsBannedRead, At, c, IInv, StepsOfOps, SendSteps
      <3>2. Return(r) \/ (Goto(r, "isBannedBack") /\ Incoming(r) \notin bans)
        BY <2>1, <3>1 DEF IsBannedRead, IsBanned, Incoming
      <3> QED BY <1>6, <3>1, <3>2
    <2>2. CASE IsBannedBackRead(r)
      <3>1. c.pc = "isBannedBack" /\ UNCHANGED tables
            /\ call[r].me # call[r].other
        BY <2>2 DEF IsBannedBackRead, At, c, IInv, StepsOfOps, SendSteps
      <3>2. Return(r) \/ (Goto(r, "areFriends") /\ Outgoing(r) \notin bans)
        BY <2>2, <3>1 DEF IsBannedBackRead, HasBanned, IsBanned, Outgoing
      <3> QED BY <1>6, <3>1, <3>2
    <2>3. CASE AreFriendsRead(r)
      BY <1>6, <2>3 DEF AreFriendsRead, At, c, x, y
    <2>4. CASE HasRequestRead(r)
      BY <1>6, <2>4 DEF HasRequestRead, At, c
    <2>5. CASE Fail(r)
      BY <1>6, <2>5 DEF Fail
    <2> QED BY <1>7, <2>1, <2>2, <2>3, <2>4, <2>5
  <1>8. CASE AddRequest(r)
    <2>1. /\ c.pc = "addRequest" /\ c.op = "send" /\ pending' = pending \cup {<<x, y>>} /\ Return(r)
          /\ friends' = friends /\ bans' = bans /\ x # y
      BY <1>8 DEF AddRequest, Outgoing, At, IInv, StepsOfOps, SendSteps, c, x, y
    <2>2. <<y, x>> \notin pending /\ <<x, y>> \notin bans /\ <<y, x>> \notin bans
      BY <2>1 DEF KnowsOfRequest, Incoming, Outgoing, c, x, y
    <2>3. Exclusive'
      BY <2>1, <2>2 DEF Exclusive
    <2> QED BY <1>4, <2>1, <2>3
  <1>9. CASE AddFriendship(r)
    <2>1. /\ c.pc = "addFriendship" /\ friends' = friends \cup {{x, y}} /\ Goto(r, "dropAccepted")
          /\ pending' = pending /\ bans' = bans
      BY <1>9 DEF AddFriendship, Pair, At, c, x, y
    <2>2. <<y, x>> \in pending
      BY <2>1 DEF KnowsOfRequest, Incoming, c, x, y
    <2>3. <<x, y>> \notin bans /\ <<y, x>> \notin bans
      BY <1>2, <2>2 DEF Exclusive
    <2>4. \A u, v \in User : {u, v} = {x, y} => <<u, v>> \in {<<x, y>>, <<y, x>>}
      OBVIOUS
    <2>5. Exclusive'
      BY <2>1, <2>3, <2>4 DEF Exclusive
    <2>6. /\ call'[r].pc = "dropAccepted" /\ \A s \in Busy' : s = r
      BY <1>3, <2>1 DEF Step
    <2> QED BY <2>5, <2>6 DEF KnowsOfRequest, KnowsOfBan, Banning
  <1>10. CASE DropAccepted(r)
    BY <1>4, <1>5, <1>10 DEF DropAccepted
  <1>11. CASE DropFriendship(r)
    <2>1. /\ Goto(r, "dropOutgoing") /\ friends' = friends \ {Pair(x, y)}
          /\ pending' = pending /\ bans' = bans
          /\ c.op = "ban"
      BY <1>11 DEF DropFriendship, At, IInv, StepsOfOps, BanSteps, c, x, y
    <2>2. /\ call'[r].pc = "dropOutgoing" /\ call'[r].op = "ban" /\ call'[r].me = x /\ call'[r].other = y
          /\ \A s \in Busy' : s = r
      BY <1>3, <2>1 DEF Step
    <2> QED BY <1>5, <2>1, <2>2 DEF KnowsOfRequest, KnowsOfBan
  <1>12. CASE DropOutgoing(r)
    <2>1. /\ Goto(r, "dropIncoming") /\ pending' = pending \ {Outgoing(r)}
          /\ friends' = friends /\ bans' = bans
          /\ c.op = "ban" /\ c.pc = "dropOutgoing" /\ r \in Banning
      BY <1>12 DEF DropOutgoing, At, IInv, StepsOfOps, BanSteps, Banning, c
    <2>2. /\ call'[r].pc = "dropIncoming" /\ call'[r].op = "ban" /\ call'[r].me = x /\ call'[r].other = y
          /\ Outgoing(r)' = Outgoing(r) /\ \A s \in Busy' : s = r
      BY <1>3, <2>1 DEF Step
    <2> QED BY <1>5, <2>1, <2>2 DEF KnowsOfRequest, KnowsOfBan, c, x, y
  <1>13. CASE DropIncoming(r)
    <2>1. /\ Goto(r, "addBan") /\ pending' = pending \ {Incoming(r)}
          /\ friends' = friends /\ bans' = bans
          /\ c.op = "ban" /\ c.pc = "dropIncoming" /\ r \in Banning
      BY <1>13 DEF DropIncoming, At, IInv, StepsOfOps, BanSteps, Banning, c
    <2>2. /\ call'[r].pc = "addBan" /\ call'[r].op = "ban" /\ call'[r].me = x /\ call'[r].other = y
          /\ Outgoing(r)' = Outgoing(r) /\ Incoming(r)' = Incoming(r) /\ \A s \in Busy' : s = r
      BY <1>3, <2>1 DEF Step
    <2> QED BY <1>5, <2>1, <2>2 DEF KnowsOfRequest, KnowsOfBan, c, x, y
  <1>14. CASE AddBan(r)
    <2>1. /\ c.pc = "addBan" /\ bans' = bans \cup {<<x, y>>} /\ Return(r)
          /\ friends' = friends /\ pending' = pending /\ r \in Banning
      BY <1>14 DEF AddBan, Outgoing, At, Banning, c, x, y
    <2>2. {x, y} \notin friends /\ <<x, y>> \notin pending /\ <<y, x>> \notin pending
      BY <2>1 DEF KnowsOfBan, Incoming, Outgoing, Pair, c, x, y
    <2>3. Exclusive'
      BY <2>1, <2>2 DEF Exclusive
    <2> QED BY <1>4, <2>1, <2>3
  <1> QED BY <1>7, <1>8, <1>9, <1>10, <1>11, <1>12, <1>13, <1>14 DEF Advance

\* A call begins beside no other one.
LEMMA BeginSerial ==
  ASSUME IInv, Exclusive, NEW r \in Request, NEW x \in User, NEW y \in User,
         BeginSend(r, x, y) \/ BeginAccept(r, x, y) \/ BeginBan(r, x, y)
  PROVE  Exclusive' /\ KnowsOfRequest(r)' /\ KnowsOfBan(r)' /\ r \in Busy'
  <1>1. PICK op \in Op, pc \in Step :
          /\ Begin(r, op, x, y, pc)
          /\ \/ op = "send" /\ pc = "isBanned"
             \/ op = "accept" /\ pc = "hasReverse"
             \/ op = "ban" /\ pc = "dropFriendship"
    BY DEF BeginSend, BeginAccept, BeginBan, Op, Step
  <1>2. call'[r].pc = pc /\ call'[r].op = op
    BY <1>1 DEF Begin, IInv, HTypeOK, TypeOK, Call
  <1> QED BY <1>1, <1>2 DEF Begin, tables, Exclusive, KnowsOfRequest, KnowsOfBan, Banning, Busy, At

LEMMA SerialStep ==
  ASSUME IInv, IInv', SInv, [SNext]_svars
  PROVE  SInv'
  <1>1. CASE UNCHANGED svars
    BY <1>1 DEF svars, hvars, vars, tables, SInv, OneIsBusy, Exclusive, Busy, At, KnowsOfRequest,
         KnowsOfBan, Banning, Outgoing, Incoming
  <1>2. CASE SNext
    <2> SUFFICES ASSUME serial' PROVE SInv'
      BY DEF SInv
    <2>1. /\ Next /\ serial /\ OneIsBusy' /\ (call' = call => Busy = {})
          /\ OneIsBusy /\ Exclusive /\ \A r \in Busy : KnowsOfRequest(r) /\ KnowsOfBan(r)
      BY <1>2 DEF SNext, HNext, SInv, OneIsBusy
    <2>2. ASSUME NEW r \in Request, Advance(r) \/ Fail(r) PROVE SInv'
      <3>1. r \in Busy
        BY <2>2 DEF Advance, Fail, IsBannedRead, IsBannedBackRead, AreFriendsRead, HasRequestRead,
             AddRequest, AddFriendship, DropAccepted, DropFriendship, DropOutgoing, DropIncoming,
             AddBan, At, Busy
      <3> QED BY <2>1, <2>2, <3>1, AdvanceSerial DEF SInv
    <2>3. ASSUME NEW r \in Request, NEW x \in User, NEW y \in User,
                 BeginSend(r, x, y) \/ BeginAccept(r, x, y) \/ BeginBan(r, x, y)
          PROVE  SInv'
      BY <2>1, <2>3, BeginSerial DEF SInv, OneIsBusy
    <2>4. ASSUME NEW x \in User, NEW y \in User,
                 CancelRequest(x, y) \/ RejectRequest(x, y) \/ Remove(x, y) \/ Unban(x, y)
          PROVE  SInv'
      <3>1. /\ call' = call
            /\ friends' \subseteq friends /\ pending' \subseteq pending /\ bans' \subseteq bans
        BY <2>4 DEF CancelRequest, RejectRequest, Remove, Unban
      <3>2. Busy' = {}
        BY <2>1, <3>1 DEF Busy, At
      <3>3. Exclusive'
        BY <2>1, <3>1 DEF Exclusive
      <3> QED BY <2>1, <3>2, <3>3 DEF SInv
    <2> QED BY <2>1, <2>2, <2>3, <2>4 DEF Next
  <1> QED BY <1>1, <1>2

LEMMA SerialImpliesHistory == SSpec => HSpec
  <1>1. SInit => HInit
    BY DEF SInit
  <1>2. [SNext]_svars => [HNext]_hvars
    BY DEF SNext, svars
  <1> QED BY <1>1, <1>2, PTL DEF SSpec, HSpec

LEMMA SerialInvariance == SSpec => [](IInv /\ SInv)
  BY InitSerial, SerialStep, SerialImpliesHistory, Invariance, PTL DEF SSpec

\* One after the other, calls that break off anywhere leave no ban beside a
\* friendship or a request of the pair, and no requests that cross.
THEOREM BreakingOffIsClean == SSpec => []BrokenOffCleanly
  <1>1. IInv /\ SInv => BrokenOffCleanly
    <2> SUFFICES ASSUME IInv, SInv, serial PROVE BrokenOffCleanly
      BY DEF BrokenOffCleanly
    <2>1. Exclusive
      BY DEF SInv
    <2>2. bans \subseteq User \X User /\ pending \subseteq User \X User
      BY DEF IInv, HTypeOK, TypeOK
    <2>3. ASSUME NEW p \in bans
          PROVE  {p[1], p[2]} \notin friends /\ Done!Between(p[1], p[2]) \cap pending = {}
      <3>1. p[1] \in User /\ p[2] \in User /\ p = <<p[1], p[2]>>
        BY <2>2, <2>3
      <3> QED BY <2>1, <2>3, <3>1 DEF Exclusive, Done!Between
    <2>4. ASSUME NEW p \in pending PROVE <<p[2], p[1]>> \notin pending
      <3>1. p[1] \in User /\ p[2] \in User /\ p = <<p[1], p[2]>>
        BY <2>2, <2>4
      <3> QED BY <2>1, <2>4, <3>1 DEF Exclusive
    <2> QED BY <2>3, <2>4 DEF BrokenOffCleanly
  <1> QED BY <1>1, SerialInvariance, PTL

-----------------------------------------------------------------------------
(* The refinement of Relationship *)

BanTail == {"dropOutgoing", "dropIncoming", "addBan"}

\* The mapped tables when only call r, or none, is at work.
LEMMA Mapped ==
  ASSUME NEW r \in Request, \A s \in Busy : s = r
  PROVE  /\ call[r].pc \in BanTail =>
              /\ friendsDone = friends \ {Pair(call[r].me, call[r].other)}
              /\ pendingDone = pending \ {Outgoing(r), Incoming(r)}
              /\ bansDone = bans \cup {Outgoing(r)}
         /\ call[r].pc = "dropAccepted" =>
              friendsDone = friends /\ pendingDone = pending \ {Incoming(r)} /\ bansDone = bans
         /\ call[r].pc \notin BanTail \cup {"dropAccepted"} =>
              friendsDone = friends /\ pendingDone = pending /\ bansDone = bans
  <1>1. Banning = IF call[r].pc \in BanTail THEN {r} ELSE {}
    BY DEF Banning, BanTail, Busy, At
  <1>2. Accepting = IF call[r].pc = "dropAccepted" THEN {r} ELSE {}
    BY DEF Accepting, Busy, At
  <1>3. call[r].pc \in BanTail => call[r].pc # "dropAccepted"
    BY DEF BanTail
  <1> QED BY <1>1, <1>2, <1>3 DEF friendsDone, pendingDone, bansDone

LEMMA MappedNext ==
  ASSUME NEW r \in Request, \A s \in Busy' : s = r
  PROVE  /\ call'[r].pc \in BanTail =>
              /\ friendsDone' = friends' \ {Pair(call'[r].me, call'[r].other)}
              /\ pendingDone' = pending' \ {Outgoing(r)', Incoming(r)'}
              /\ bansDone' = bans' \cup {Outgoing(r)'}
         /\ call'[r].pc = "dropAccepted" =>
              friendsDone' = friends' /\ pendingDone' = pending' \ {Incoming(r)'} /\ bansDone' = bans'
         /\ call'[r].pc \notin BanTail \cup {"dropAccepted"} =>
              friendsDone' = friends' /\ pendingDone' = pending' /\ bansDone' = bans'
  <1>1. Banning' = IF call'[r].pc \in BanTail THEN {r} ELSE {}
    BY DEF Banning, BanTail, Busy, At
  <1>2. Accepting' = IF call'[r].pc = "dropAccepted" THEN {r} ELSE {}
    BY DEF Accepting, Busy, At
  <1>3. call'[r].pc \in BanTail => call'[r].pc # "dropAccepted"
    BY DEF BanTail
  <1> QED BY <1>1, <1>2, <1>3 DEF friendsDone, pendingDone, bansDone

\* A call on its own does in one step what Relationship says, and in the others
\* nothing: a request at its INSERT, an acceptance at the friendship's, a ban at
\* its first DELETE.
LEMMA AdvanceIsAtomic ==
  ASSUME IInv, OneIsBusy, Exclusive, NEW r \in Request, Advance(r),
         KnowsOfRequest(r), KnowsOfBan(r)
  PROVE  Done!Next \/ UNCHANGED <<friendsDone, pendingDone, bansDone>>
  <1> DEFINE c == call[r]
             x == c.me
             y == c.other
             Still == UNCHANGED <<friendsDone, pendingDone, bansDone>>
  <1>1. ~At(r, "idle")
    BY DEF Advance, IsBannedRead, IsBannedBackRead, AreFriendsRead, HasRequestRead, AddRequest,
         AddFriendship, DropAccepted, DropFriendship, DropOutgoing, DropIncoming, AddBan, At
  <1>2. /\ x \in User /\ y \in User /\ c.op \in Op /\ c \in Call
        /\ call \in [Request -> Call]
    BY <1>1 DEF IInv, HTypeOK, TypeOK
  <1>3. \A s \in Busy : s = r
    BY <1>1 DEF OneIsBusy, Busy
  <1>4. ASSUME NEW pc \in Step, Goto(r, pc)
        PROVE  /\ call'[r].pc = pc /\ call'[r].me = x /\ call'[r].other = y
               /\ Outgoing(r)' = <<x, y>> /\ Incoming(r)' = <<y, x>>
               /\ \A s \in Busy' : s = r
    <2>1. /\ call'[r].pc = pc /\ call'[r].me = x /\ call'[r].other = y
          /\ \A s \in Request : s # r => call'[s] = call[s]
      BY <1>2, <1>4 DEF Goto, Call
    <2>2. \A s \in Busy' : s = r
      BY <1>3, <2>1 DEF Busy, At
    <2> QED BY <2>1, <2>2 DEF Outgoing, Incoming
  <1>5. ASSUME Return(r) PROVE call'[r].pc = "idle" /\ \A s \in Busy' : s = r
    <2>1. call'[r].pc = "idle" /\ \A s \in Request : s # r => call'[s] = call[s]
      BY <1>2, <1>5 DEF Return, Idle
    <2> QED BY <1>3, <2>1 DEF Busy, At
  <1>6. Outgoing(r) = <<x, y>> /\ Incoming(r) = <<y, x>>
    BY DEF Outgoing, Incoming
  <1> HIDE DEF c, x, y
  <1>7. CASE IsBannedRead(r) \/ IsBannedBackRead(r) \/ AreFriendsRead(r) \/ HasRequestRead(r)
    <2>1. /\ UNCHANGED <<friends, pending, bans>>
          /\ c.pc \notin BanTail \cup {"dropAccepted"}
          /\ \/ Return(r)
             \/ \E pc \in {"isBannedBack", "areFriends", "hasReverse", "addRequest", "addFriendship"} :
                  Goto(r, pc)
      BY <1>7 DEF IsBannedRead, IsBannedBackRead, AreFriendsRead, HasRequestRead, tables, BanTail, At, c
    <2>2. call'[r].pc \notin BanTail \cup {"dropAccepted"} /\ \A s \in Busy' : s = r
      BY <1>4, <1>5, <2>1 DEF Step, BanTail
    <2> QED BY <1>3, <2>1, <2>2, Mapped, MappedNext DEF c
  <1>8. CASE AddRequest(r)
    <2>1. /\ c.pc = "addRequest" /\ c.op = "send" /\ pending' = pending \cup {<<x, y>>} /\ Return(r)
          /\ friends' = friends /\ bans' = bans /\ x # y
      BY <1>8 DEF AddRequest, Outgoing, At, IInv, StepsOfOps, SendSteps, c, x, y
    <2>2. /\ <<y, x>> \notin pending /\ <<x, y>> \notin bans /\ <<y, x>> \notin bans
          /\ {x, y} \notin friends
      BY <1>6, <2>1 DEF KnowsOfRequest, Pair, c, x, y
    <2>3. friendsDone = friends /\ pendingDone = pending /\ bansDone = bans
      BY <1>3, <2>1, Mapped DEF BanTail, c
    <2>4. friendsDone' = friends' /\ pendingDone' = pending' /\ bansDone' = bans'
      BY <1>5, <2>1, MappedNext DEF BanTail
    <2>5. ~Done!MutuallyBanned(bansDone, x, y) /\ {x, y} \notin friendsDone
      BY <2>2, <2>3 DEF Done!MutuallyBanned, Done!IsBanned
    <2>6. Done!SendRequest(x, y)
      BY <2>1, <2>2, <2>3, <2>4, <2>5 DEF Done!SendRequest
    <2> QED BY <1>2, <2>6 DEF Done!Next
  <1>9. CASE AddFriendship(r)
    <2>1. /\ c.pc = "addFriendship" /\ friends' = friends \cup {{x, y}} /\ Goto(r, "dropAccepted")
          /\ pending' = pending /\ bans' = bans /\ c.op \in {"send", "accept"} /\ x # y
      BY <1>9 DEF AddFriendship, Pair, At, IInv, StepsOfOps, FriendSteps, c, x, y
    <2>2. <<y, x>> \in pending
      BY <1>6, <2>1 DEF KnowsOfRequest, c, x, y
    <2>3. c.op = "send" => <<x, y>> \notin bans /\ <<y, x>> \notin bans /\ {x, y} \notin friends
      BY <1>6, <2>1 DEF KnowsOfRequest, Pair, c, x, y
    <2>4. friendsDone = friends /\ pendingDone = pending /\ bansDone = bans
      BY <1>3, <2>1, Mapped DEF BanTail, c
    <2>5. friendsDone' = friends' /\ pendingDone' = pending' \ {<<y, x>>} /\ bansDone' = bans'
      BY <1>4, <2>1, MappedNext DEF Step
    <2>6. Done!Befriend(x, y)
      BY <2>1, <2>4, <2>5 DEF Done!Befriend
    <2>7. Done!SendRequest(x, y) \/ Done!Accept(x, y)
      BY <2>1, <2>2, <2>3, <2>4, <2>6
         DEF Done!SendRequest, Done!Accept, Done!MutuallyBanned, Done!IsBanned
    <2> QED BY <1>2, <2>7 DEF Done!Next
  <1>10. CASE DropAccepted(r)
    <2>1. /\ c.pc = "dropAccepted" /\ Return(r) /\ pending' = pending \ {<<y, x>>}
          /\ friends' = friends /\ bans' = bans
      BY <1>6, <1>10 DEF DropAccepted, At, c
    <2>2. friendsDone = friends /\ pendingDone = pending \ {<<y, x>>} /\ bansDone = bans
      BY <1>3, <1>6, <2>1, Mapped DEF c
    <2>3. friendsDone' = friends' /\ pendingDone' = pending' /\ bansDone' = bans'
      BY <1>5, <2>1, MappedNext DEF BanTail
    <2> QED BY <2>1, <2>2, <2>3
  <1>11. CASE DropFriendship(r)
    <2>1. /\ c.pc = "dropFriendship" /\ Goto(r, "dropOutgoing") /\ friends' = friends \ {{x, y}}
          /\ pending' = pending /\ bans' = bans /\ x # y
      BY <1>1, <1>11 DEF DropFriendship, Pair, At, IInv, StepsOfOps, BanSteps, c, x, y
    <2>2. friendsDone = friends /\ pendingDone = pending /\ bansDone = bans
      BY <1>3, <2>1, Mapped DEF BanTail, c
    <2>3. /\ friendsDone' = friends' \ {{x, y}} /\ pendingDone' = pending' \ {<<x, y>>, <<y, x>>}
          /\ bansDone' = bans' \cup {<<x, y>>}
      BY <1>4, <2>1, MappedNext DEF Step, BanTail, Pair
    <2>4. Done!Ban(x, y)
      BY <2>1, <2>2, <2>3 DEF Done!Ban, Done!Between
    <2> QED BY <1>2, <2>4 DEF Done!Next
  <1>12. CASE DropOutgoing(r) \/ DropIncoming(r)
    <2>1. PICK pc \in {"dropIncoming", "addBan"} :
            /\ c.pc \in BanTail /\ Goto(r, pc)
            /\ pending' \in {pending \ {<<x, y>>}, pending \ {<<y, x>>}}
            /\ friends' = friends /\ bans' = bans
      BY <1>6, <1>12 DEF DropOutgoing, DropIncoming, At, BanTail, c
    <2>2. /\ friendsDone = friends \ {Pair(x, y)} /\ pendingDone = pending \ {<<x, y>>, <<y, x>>}
          /\ bansDone = bans \cup {<<x, y>>}
      BY <1>3, <1>6, <2>1, Mapped DEF c, x, y
    <2>3. /\ friendsDone' = friends' \ {Pair(x, y)} /\ pendingDone' = pending' \ {<<x, y>>, <<y, x>>}
          /\ bansDone' = bans' \cup {<<x, y>>}
      BY <1>4, <2>1, MappedNext DEF Step, BanTail
    <2> QED BY <2>1, <2>2, <2>3
  <1>13. CASE AddBan(r)
    <2>1. /\ c.pc = "addBan" /\ bans' = bans \cup {<<x, y>>} /\ Return(r)
          /\ friends' = friends /\ pending' = pending /\ r \in Banning
      BY <1>6, <1>13 DEF AddBan, At, Banning, c
    <2>2. Pair(x, y) \notin friends /\ <<x, y>> \notin pending /\ <<y, x>> \notin pending
      BY <1>6, <2>1 DEF KnowsOfBan, c, x, y
    <2>3. /\ friendsDone = friends \ {Pair(x, y)} /\ pendingDone = pending \ {<<x, y>>, <<y, x>>}
          /\ bansDone = bans \cup {<<x, y>>}
      BY <1>3, <1>6, <2>1, Mapped DEF BanTail, c, x, y
    <2>4. friendsDone' = friends' /\ pendingDone' = pending' /\ bansDone' = bans'
      BY <1>5, <2>1, MappedNext DEF BanTail
    <2> QED BY <2>1, <2>2, <2>3, <2>4
  <1> QED BY <1>7, <1>8, <1>9, <1>10, <1>11, <1>12, <1>13 DEF Advance

LEMMA StepIsAtomic ==
  ASSUME IInv, SInv, [SNext]_svars, serial'
  PROVE  \/ Done!Next
         \/ \E r \in Request : Fail(r)
         \/ UNCHANGED <<friendsDone, pendingDone, bansDone>>
  <1>1. CASE UNCHANGED svars
    BY <1>1 DEF svars, hvars, vars, tables, friendsDone, pendingDone, bansDone, Banning, Accepting,
         At, Outgoing, Incoming
  <1>2. CASE SNext
    <2>1. /\ Next /\ serial /\ OneIsBusy' /\ (call' = call => Busy = {})
          /\ OneIsBusy /\ Exclusive /\ \A r \in Busy : KnowsOfRequest(r) /\ KnowsOfBan(r)
      BY <1>2 DEF SNext, HNext, SInv, OneIsBusy
    <2>2. ASSUME NEW r \in Request, Advance(r)
          PROVE  Done!Next \/ UNCHANGED <<friendsDone, pendingDone, bansDone>>
      <3>1. r \in Busy
        BY <2>2 DEF Advance, IsBannedRead, IsBannedBackRead, AreFriendsRead, HasRequestRead,
             AddRequest, AddFriendship, DropAccepted, DropFriendship, DropOutgoing, DropIncoming,
             AddBan, At, Busy
      <3> QED BY <2>1, <2>2, <3>1, AdvanceIsAtomic
    <2>3. ASSUME NEW r \in Request, NEW x \in User, NEW y \in User,
                 BeginSend(r, x, y) \/ BeginAccept(r, x, y) \/ BeginBan(r, x, y)
          PROVE  UNCHANGED <<friendsDone, pendingDone, bansDone>>
      <3>1. PICK op \in Op, pc \in {"isBanned", "hasReverse", "dropFriendship"} : Begin(r, op, x, y, pc)
        BY <2>3 DEF BeginSend, BeginAccept, BeginBan, Op
      <3>2. /\ call[r].pc = "idle" /\ call'[r].pc = pc
            /\ \A s \in Request : s # r => call'[s] = call[s]
            /\ friends' = friends /\ pending' = pending /\ bans' = bans
        BY <3>1 DEF Begin, At, tables, IInv, HTypeOK, TypeOK
      <3>3. (\A s \in Busy' : s = r) /\ (\A s \in Busy : s = r)
        BY <2>1, <3>2 DEF Busy, At, OneIsBusy
      <3> QED BY <3>2, <3>3, Mapped, MappedNext DEF BanTail
    <2>4. ASSUME NEW x \in User, NEW y \in User,
                 CancelRequest(x, y) \/ RejectRequest(x, y) \/ Remove(x, y) \/ Unban(x, y)
          PROVE  Done!Next
      <3>1. call' = call /\ Busy = {} /\ Busy' = {}
        BY <2>1, <2>4 DEF CancelRequest, RejectRequest, Remove, Unban, Busy, At
      <3>2. Banning = {} /\ Accepting = {} /\ Banning' = {} /\ Accepting' = {}
        BY <3>1 DEF Banning, Accepting, Busy, At
      <3>3. /\ friendsDone = friends /\ pendingDone = pending /\ bansDone = bans
            /\ friendsDone' = friends' /\ pendingDone' = pending' /\ bansDone' = bans'
        BY <3>2 DEF friendsDone, pendingDone, bansDone
      <3>4. Done!Withdraw(x, y) \/ Done!Withdraw(y, x) \/ Done!Remove(x, y) \/ Done!Unban(x, y)
        BY <2>4, <3>3 DEF CancelRequest, RejectRequest, Remove, Unban, Pair, Done!Withdraw, Done!Remove,
             Done!Unban
      <3> QED BY <3>4 DEF Done!Next
    <2> QED BY <2>1, <2>2, <2>3, <2>4 DEF Next
  <1> QED BY <1>1, <1>2

\* Relations implements Relationship for calls one after the other: each call,
\* of however many statements, is one step of it, and one that breaks off only
\* loses what it had not yet written.
THEOREM SerialCallsAreAtomic == SSpec => CallsAreAtomic
  <1>1. SInit => Done!Init
    <2>1. SInit => Banning = {} /\ friends = {} /\ pending = {} /\ bans = {}
      BY DEF SInit, HInit, Init, Banning, Idle
    <2> QED BY <2>1 DEF Done!Init, friendsDone, pendingDone, bansDone
  <1>2. IInv /\ SInv /\ [SNext]_svars
          => [serial' => Done!Next \/ \E r \in Request : Fail(r)]_(Done!vars)
    BY StepIsAtomic DEF Done!vars
  <1> QED BY <1>1, <1>2, SerialInvariance, PTL DEF SSpec, CallsAreAtomic
=============================================================================
