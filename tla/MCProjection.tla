---------------------------- MODULE MCProjection ----------------------------
\* Two runs; the second has history from before its consumer was seeded, the
\* first refers to content that cannot be loaded.
EXTENDS Projection

CONSTANTS s1, s2, q1

Legacy_ == {2}
One_ == {s1}
Reader_ == {q1}
Broken2_ == {<<2, 2>>}
First_ == {1}
=============================================================================
