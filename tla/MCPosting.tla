---------------------------- MODULE MCPosting ----------------------------
EXTENDS Posting, TLC

Caps == [t \in Table |-> 1]

Interchangeable ==
    Permutations(User) \cup Permutations(Id) \cup Permutations(Key) \cup Permutations(Picture)
        \cup Permutations(Request)
=============================================================================
