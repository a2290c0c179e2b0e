----------------------------- MODULE MCTakeover -----------------------------
\* Two creates under successive epochs, the second delivered twice; or two
\* creates and a work command of the first epoch.
EXTENDS SessionOwnership, TLC

CONSTANTS c1, s1, c2, w1, r1, rs, r2, r3, rw, a1, a2

Cmd_ == {c1, s1, c2, w1}
Req_ == {r1, rs, r2, r3, rw}
CmdOf_ == (r1 :> c1) @@ (rs :> s1) @@ (r2 :> c2) @@ (r3 :> c2) @@ (rw :> w1)
Kind_ == [c \in Cmd_ |-> IF c = w1 THEN "work" ELSE "create"]
Epoch_ == [c \in Cmd_ |-> IF c = c2 THEN 2 ELSE 1]
Asg_ == [c \in Cmd_ |-> IF c = c2 THEN a2 ELSE a1]
Target_ == [c \in Cmd_ |-> None]

\* The requests that are made.
Requests_ == {{r1, r2, r3}, {rs, r2, r3}, {r1, rs, rw}}
Scenario_ == \E S \in Requests_ : \A r \in Req_ \ S : pc[r] = "new"

\* The two creates of the first epoch are interchangeable.
Same_(f) == \A x \in DOMAIN f : f[x] = x
Swap_(f) == f[c1] = s1 /\ f[s1] = c1 /\ f[r1] = rs /\ f[rs] = r1
Symmetry_ == {f \in Permutations({c1, s1, r1, rs}) : Same_(f) \/ Swap_(f)}
=============================================================================
