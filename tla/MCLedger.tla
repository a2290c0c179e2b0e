------------------------------ MODULE MCLedger ------------------------------
\* A steer with a driverless command, or a create; the pair; and a steer alone.
EXTENDS CommandLedger, TLC

CONSTANTS s1, d1, k1

Pair_ == {s1, d1}
PairClass_ == (s1 :> "steer") @@ (d1 :> "driverless")
Trio_ == {s1, d1, k1}
TrioClass_ == (s1 :> "steer") @@ (d1 :> "driverless") @@ (k1 :> "create")
Steer_ == {s1}
SteerClass_ == s1 :> "steer"

\* A behaviour has the pair or the create: commands meet only in the pass, which
\* works on one row at a time.
PairOrCreate_ == row[k1] = "none" \/ \A c \in Pair_ : row[c] = "none"
=============================================================================
