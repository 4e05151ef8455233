---------------------------- MODULE MCSessions ----------------------------
EXTENDS Sessions

CONSTANTS f, u1, u2, e1, e2

Users == {f, u1, u2}
OneSaver == {u1}
TheFounder == {[id |-> f, email |-> e1, invitedBy |-> None]}

\* e1 and e2 are one e-mail in two spellings.
Lower == [e \in {e1, e2} |-> e1]
=============================================================================
