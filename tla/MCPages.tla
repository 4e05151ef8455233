------------------------------ MODULE MCPages ------------------------------
EXTENDS Pages, TLC

\* Ids and texts are only ever compared.
Interchangeable == Permutations(Comment) \cup Permutations(Text)
=============================================================================
