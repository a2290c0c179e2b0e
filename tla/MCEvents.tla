------------------------------ MODULE MCEvents ------------------------------
\* One run whose first assignment writes output and whose second writes a
\* payload PostgreSQL refuses, and an event of a run that has no row.
EXTENDS EventPlane

CONSTANTS r1, gone, c1, c2

Runs_ == {r1}
Consumers_ == {c1, c2}
One_ == {c1}
Output_ == {[run |-> r1, epoch |-> 1, kind |-> "output"]}
Envelopes_ == Output_ \cup
    {[run |-> r1, epoch |-> 2, kind |-> "unstorable"],
     [run |-> gone, epoch |-> 1, kind |-> "output"]}
=============================================================================
