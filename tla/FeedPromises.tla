---------------------------- MODULE FeedPromises ----------------------------
(***************************************************************************)
(* Newsfeed with one auxiliary variable, for a promise that speaks of the  *)
(* past: purged holds <<user, item>> for the rows a ban's handler deleted. *)
(* It is read by no step.                                                  *)
(***************************************************************************)
EXTENDS Newsfeed

VARIABLE purged

pvars == <<vars, purged>>

PInit == Init /\ purged = {}

Remembered ==
    purged' = purged \cup
        (IF At("ban", "purge") /\ work["ban"].pc # work'["ban"].pc
         THEN {<<r.user, r.item>> : r \in feed \ feed'} ELSE {})

PNext == Next /\ Remembered
PSpec == PInit /\ [][PNext]_pvars

\* "Feed entries stay deleted" (bans/service.go:7) and "message redelivery on
\* restart is safe" (listeners.go:17): a row a ban removed does not come back,
\* with or without an unban.
PurgedStaysDeleted == \A r \in feed : <<r.user, r.item>> \notin purged
=============================================================================
