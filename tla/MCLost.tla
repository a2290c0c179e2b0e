------------------------------- MODULE MCLost -------------------------------
\* One session with a prompt, and a work command of the next epoch.
EXTENDS SessionOwnership, TLC

CONSTANTS c1, p1, w2, rc, rp, rw, a1, a2

Cmd_ == {c1, p1, w2}
Req_ == {rc, rp, rw}
CmdOf_ == (rc :> c1) @@ (rp :> p1) @@ (rw :> w2)
Kind_ == (c1 :> "create") @@ (p1 :> "prompt") @@ (w2 :> "work")
Epoch_ == [c \in Cmd_ |-> IF c = w2 THEN 2 ELSE 1]
Asg_ == [c \in Cmd_ |-> IF c = w2 THEN a2 ELSE a1]
Target_ == [c \in Cmd_ |-> IF c = p1 THEN c1 ELSE None]
=============================================================================
