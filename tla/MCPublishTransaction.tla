------------------------ MODULE MCPublishTransaction ------------------------
EXTENDS PublishTransaction, TLC

CONSTANTS a, b, missing

\* the digests are only compared, never told apart by name
MCContents == {a, b}
Symmetry == Permutations(MCContents)

=============================================================================
