----------------------------- MODULE OrderedLog -----------------------------
(***************************************************************************)
(* What the event plane promises of one host stream: its positions are     *)
(* settled in host order, each of them once, and a verdict never changes.  *)
(* EventPlane implements it with a host that replays, consumers that       *)
(* overlap and acknowledgements that get lost.                             *)
(***************************************************************************)
EXTENDS Naturals, Sequences

CONSTANT Verdicts     \* what a settled position can be

VARIABLE log          \* log[p]: the verdict on position p

Init == log = <<>>

\* log2 keeps every verdict of log1 and leaves no position out.
Extends(log1, log2) ==
    /\ log2 \in Seq(Verdicts)
    /\ Len(log1) < Len(log2)
    /\ \A p \in 1..Len(log1) : log2[p] = log1[p]

Settle == Extends(log, log')

Spec == Init /\ [][Settle]_log
=============================================================================
