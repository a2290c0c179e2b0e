------------------------------ MODULE MCOwned ------------------------------
\* Two drivers, two assignments and two creates: a chain of two generations on
\* one assignment, or one create on each.
EXTENDS OwnedCreate, TLC

CONSTANTS d1, d2

Drivers_ == {d1, d2}
Symmetry_ == Permutations({d1, d2})
=============================================================================
