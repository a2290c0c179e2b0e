------------------------------ MODULE RunOwner ------------------------------
(***************************************************************************)
(* What the execution host promises the manager about one run: a command   *)
(* begins at most once and settles at most once (a prompt that was taken   *)
(* for lost, once more when its turn ends), and the agents of a run belong *)
(* to one assignment epoch at a time.  A command begins only when the      *)
(* agents of every lower epoch are gone, and an agent starts only for a    *)
(* running create that no begun command has superseded.                    *)
(* supervisor/src/http-api.ts (runCommand) with SessionOwnership's state   *)
(* forgotten; SessionOwnership implements it.                              *)
(***************************************************************************)
EXTENDS Naturals

CONSTANTS
    Cmd,          \* command ids
    Epoch,        \* Epoch[c]: the assignment epoch of a command
    Turns         \* the commands that are prompts

VARIABLES
    outcome,      \* what can still be said of a command's result
    agents        \* creates whose agent processes exist

vars == <<outcome, agents>>

Outcomes == {"none", "running", "lost", "succeeded", "failed"}

Init ==
    /\ outcome = [c \in Cmd |-> "none"]
    /\ agents = {}

Begin(c) ==
    /\ outcome[c] = "none"
    /\ \A s \in agents : Epoch[c] <= Epoch[s]
    /\ outcome' = [outcome EXCEPT ![c] = "running"]
    /\ UNCHANGED agents

StartAgent(c) ==
    /\ outcome[c] = "running"
    /\ \A d \in Cmd : outcome[d] # "none" => Epoch[d] <= Epoch[c]
    /\ agents' = agents \cup {c}
    /\ UNCHANGED outcome

\* Agents end, and several commands may settle at once: a lost process takes its
\* create and its prompts with it.  A lost turn may still report its own end.
EndsAndSettlements ==
    /\ agents' \in SUBSET agents
    /\ outcome' \in [Cmd -> Outcomes]
    /\ \A c \in Cmd :
          \/ outcome'[c] = outcome[c]
          \/ /\ outcome[c] \in {"running", "lost"}
             /\ outcome'[c] \in {"succeeded", "failed"}
          \/ c \in Turns /\ outcome[c] = "running" /\ outcome'[c] = "lost"

Next == \/ \E c \in Cmd : Begin(c) \/ StartAgent(c)
        \/ EndsAndSettlements

Spec == Init /\ [][Next]_vars
=============================================================================
