------------------------------ MODULE MCTurns ------------------------------
\* One session with two prompts and a delete, and a work command of the next
\* epoch that evicts it.
EXTENDS SessionOwnership, TLC

CONSTANTS c1, p1, p2, d1, w2, rc, rp, rq, rd, rw, a1, a2

Cmd_ == {c1, p1, p2, d1, w2}
Req_ == {rc, rp, rq, rd, rw}
CmdOf_ == (rc :> c1) @@ (rp :> p1) @@ (rq :> p2) @@ (rd :> d1) @@ (rw :> w2)
Kind_ == (c1 :> "create") @@ (p1 :> "prompt") @@ (p2 :> "prompt")
         @@ (d1 :> "delete") @@ (w2 :> "work")
Epoch_ == [c \in Cmd_ |-> IF c = w2 THEN 2 ELSE 1]
Asg_ == [c \in Cmd_ |-> IF c = w2 THEN a2 ELSE a1]
Target_ == [c \in Cmd_ |-> IF c \in {p1, p2, d1} THEN c1 ELSE None]
\* The two prompts, each with its delivery, are interchangeable.
Same_(f) == \A x \in DOMAIN f : f[x] = x
Swap_(f) == f[p1] = p2 /\ f[p2] = p1 /\ f[rp] = rq /\ f[rq] = rp
Symmetry_ == {f \in Permutations({p1, p2, rp, rq}) : Same_(f) \/ Swap_(f)}
=============================================================================
