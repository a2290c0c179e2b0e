---------------------------- MODULE OwnedCreate ----------------------------
(***************************************************************************)
(* The one agent session of a flow node: its leased drivers                *)
(* (web/lib/flows/graph/driver-claim.ts), the assignments of its run       *)
(* (web/lib/execution-host/assignments.ts), the create commands that keep  *)
(* their request (owned-session-create.ts, create-intent.ts) and the       *)
(* binding of the session they made (create-ack.ts).                       *)
(*                                                                         *)
(* A command is <<epoch, generation>>: the creates of one assignment are a *)
(* chain in which a proven refusal is replaced.  Every transaction is one  *)
(* step, with the lookup of a final receipt before it; a driver holds what *)
(* it read before across them and goes on after its lease.  The host is    *)
(* what this code sees of it (SessionOwnership is its own specification):  *)
(* a request may arrive late or twice, and no process outlives a newer     *)
(* epoch.                                                                  *)
(***************************************************************************)
EXTENDS Naturals, FiniteSets

CONSTANTS
    Drivers,      \* continuation worker slots and live dispatches
    Ceiling,      \* the last generation of a chain (2 in the code)
    MaxEpoch,     \* bound: assignments of the run
    MaxCreates,   \* bound: create commands of the run
    MaxFaults,    \* bound: crashes, late renewals and lost replies
    Nobody,       \* no driver's token
    NoSession     \* no session is bound

Epochs == 1..MaxEpoch
Generations == 0..Ceiling
Commands == Epochs \X Generations

ASSUME OwnedAssumption ==
    /\ Ceiling \in Nat
    /\ MaxEpoch \in Nat \ {0}
    /\ MaxCreates \in Nat
    /\ MaxFaults \in Nat
    /\ Nobody \notin Drivers
    /\ NoSession \notin Commands

VARIABLES
    epoch,      \* the run's assignment, by its epoch
    owner,      \* its node visit runs or pauses, or the assignment is released
    token,      \* runs.flow_driver_token, while its lease lasts
    row,        \* execution_commands.state; a failed row may be replaced
                \* (refused), with receipt evidence that its process is gone
                \* (proven), or not (failed)
    attempts,   \* execution_commands.attempts
    bound,      \* the session of the logical run session
    ended,      \* sessions whose incarnation is ended or lost
    request,    \* what the host knows of a command, by its receipt: a refusal
                \* that may be replaced is stamped (retired) or not, as an old
                \* host leaves it (unstamped)
    process,    \* the agent process
    announced,  \* session.created events that are not projected
    fence,      \* the newest epoch the host has admitted
    work,       \* what each driver is doing
    faults      \* crashes, late renewals and lost replies so far

placement == <<epoch, owner>>
ledger == <<row, attempts>>
binding == <<bound, ended>>
host == <<request, process, announced, fence>>
vars == <<placement, token, ledger, binding, host, work, faults>>

\* A driver at place p with command c, which it read with t attempts and (h)
\* as delivering.
At(p, c, t, h) ==
    [at |-> p, epoch |-> c[1], gen |-> c[2], tries |-> t, held |-> h]
Idle == At("idle", <<1, 0>>, 0, FALSE)
Work == [at : {"idle", "read", "admit", "probe", "requeue", "send", "sent",
               "record", "again"},
         epoch : Epochs, gen : Generations, tries : Nat, held : BOOLEAN]
Failed == {"refused", "proven", "failed"}

TypeOK ==
    /\ epoch \in Epochs
    /\ owner \in {"running", "paused", "released"}
    /\ token \in Drivers \cup {Nobody}
    /\ row \in [Commands -> {"none", "queued", "delivering", "succeeded",
                             "fenced"} \cup Failed]
    /\ attempts \in [Commands -> Nat]
    /\ bound \in Commands \cup {NoSession}
    /\ ended \subseteq Commands
    /\ request \in [Commands -> {"none", "sent", "accepted", "completed",
                                 "retired", "unstamped", "final"}]
    /\ process \in [Commands -> {"none", "alive", "gone"}]
    /\ announced \subseteq Commands
    /\ fence \in 0..MaxEpoch
    /\ work \in [Drivers -> Work]
    /\ faults \in 0..MaxFaults

Init ==
    /\ epoch = 1
    /\ owner = "running"
    /\ token = Nobody
    /\ row = [c \in Commands |-> "none"]
    /\ attempts = [c \in Commands |-> 0]
    /\ bound = NoSession
    /\ ended = {}
    /\ request = [c \in Commands |-> "none"]
    /\ process = [c \in Commands |-> "none"]
    /\ announced = {}
    /\ fence = 0
    /\ work = [d \in Drivers |-> Idle]
    /\ faults = 0

Fault ==
    /\ faults < MaxFaults
    /\ faults' = faults + 1

Open(c) == row[c] \in {"queued", "delivering"}
Alive(c) == process[c] = "alive"
Cmd(d) == <<work[d].epoch, work[d].gen>>

-----------------------------------------------------------------------------
\* The run: assignments and the node visit.

\* mintAssignment: the next epoch, and no traversal token.  The visit is
\* bound to the new assignment by the claim that mints.
Mint ==
    /\ epoch < MaxEpoch
    /\ epoch' = epoch + 1
    /\ owner' = "running"
    /\ token' = Nobody
    /\ UNCHANGED <<ledger, binding, host, work, faults>>

\* A permission question and its answer; releaseAssignmentForRun,
\* releaseStaleAssignments and the end of the visit.
OwnerMoves ==
    /\ owner # "released"
    /\ owner' \in {"running", "paused", "released"} \ {owner}
    /\ UNCHANGED <<epoch, token, ledger, binding, host, work, faults>>

-----------------------------------------------------------------------------
\* Driver claims (driver-claim.ts).

\* claimFlowDriver: a free or expired token, on the active assignment.
ClaimDriver(d) ==
    /\ work[d].at = "idle"
    /\ owner # "released"
    /\ token = Nobody
    /\ token' = d
    /\ work' = [work EXCEPT ![d] = At("read", <<epoch, 0>>, 0, FALSE)]
    /\ UNCHANGED <<placement, ledger, binding, host, faults>>

\* A lease runs out: its driver is gone, or renews it too late, and nothing
\* revives it.
Lapse ==
    /\ token # Nobody
    /\ \/ work[token].at = "idle" /\ UNCHANGED faults
       \/ work[token].at # "idle" /\ Fault
    /\ token' = Nobody
    /\ UNCHANGED <<placement, ledger, binding, host, work>>

\* assertOwner: the claim is live, its assignment current and active, and
\* the visit may open a session (lockCreateOwner, "create").
Holds(d) ==
    /\ token = d
    /\ work[d].epoch = epoch
    /\ owner = "running"

\* The traversal ends or yields; releaseFlowDriverClaim clears its own token.
Leave(d) ==
    /\ work' = [work EXCEPT ![d] = Idle]
    /\ token' = IF token = d THEN Nobody ELSE token

\* A traversal that stays has its lease renewed.
Go(d, w) ==
    /\ work' = [work EXCEPT ![d] = w]
    /\ UNCHANGED token

Crash(d) ==
    /\ Fault
    /\ work[d].at # "idle"
    /\ Go(d, Idle)
    /\ UNCHANGED <<placement, ledger, binding, host>>

-----------------------------------------------------------------------------
\* Reading a chain.

\* latestOwnedCreate: the newest generation of the assignment.
Newest(c) ==
    /\ row[c] # "none"
    /\ \A k \in Commands : k[1] = c[1] /\ k[2] > c[2] => row[k] = "none"

\* Mutant: a refusal is replaced without the host's proof.
ReplaceableUnproven(c) == row[c] \in {"refused", "proven"} /\ c[2] < Ceiling

\* Mutant: nothing ends the chain.
ReplaceableForever(c) == row[c] = "proven"

\* A refused resume, an invalid workspace handle or a lost turn, with
\* positive evidence that its process is gone
\* (assertCreateReplacementQuiescence).
Replaceable(c) == row[c] = "proven" /\ c[2] < Ceiling

\* What the loop of createOwnedSessionFromIntent does with a row it read; an
\* open row whose retry is not due, a final refusal and one without proof end
\* the traversal.
Onward(d, c) ==
    \/ /\ Replaceable(c)
       /\ Go(d, At("admit", <<c[1], c[2] + 1>>, 0, FALSE))
    \/ /\ row[c] = "succeeded"
       /\ Go(d, At("again", c, 0, FALSE))
    \/ /\ Open(c)
       /\ Go(d, At(IF attempts[c] > 0 THEN "probe" ELSE "send", c, attempts[c],
                  row[c] = "delivering"))
    \/ /\ ~Replaceable(c)
       /\ row[c] # "succeeded"
       /\ Leave(d)

\* The first transaction of a traversal, and the head of its loop.
Read(d) ==
    LET e == work[d].epoch IN
    /\ work[d].at = "read"
    /\ \/ /\ ~Holds(d)
          /\ Leave(d)
       \/ /\ Holds(d)
          /\ \A g \in Generations : row[<<e, g>>] = "none"
          /\ Go(d, At("admit", <<e, 0>>, 0, FALSE))
       \/ /\ Holds(d)
          /\ \E g \in Generations : Newest(<<e, g>>) /\ Onward(d, <<e, g>>)
    /\ UNCHANGED <<placement, ledger, binding, host, faults>>

\* Admission under the owner lock: a chain that has moved on is taken as it
\* is.  When the reply of the COMMIT is lost, the next traversal finds the row.
Admit(d) ==
    LET e == work[d].epoch
        later == {g \in Generations : g >= work[d].gen}
    IN
    /\ work[d].at = "admit"
    /\ \/ /\ ~Holds(d)
          /\ Leave(d)
          /\ UNCHANGED <<row, faults>>
       \/ /\ Holds(d)
          /\ \A g \in later : row[<<e, g>>] = "none"
          /\ Cardinality({c \in Commands : row[c] # "none"}) < MaxCreates
          /\ row' = [row EXCEPT ![Cmd(d)] = "queued"]
          /\ \/ Go(d, At("send", Cmd(d), 0, FALSE)) /\ UNCHANGED faults
             \/ Leave(d) /\ Fault
       \/ /\ Holds(d)
          /\ \E g \in later : Newest(<<e, g>>) /\ Onward(d, <<e, g>>)
          /\ UNCHANGED <<row, faults>>
    /\ UNCHANGED <<attempts, placement, binding, host>>

-----------------------------------------------------------------------------
\* applyCreateAck.

\* Mutant: an acknowledgement is asked whether it may create.
OwnsAckAsCreate(c) == c[1] = epoch /\ owner = "running"

\* lockCreateOwner, "ack": a visit that waits for an answer keeps its session.
OwnsAck(c) == c[1] = epoch /\ owner # "released"

\* Mutant: an older generation is applied too.
CurrentAnyGeneration(c) == OwnsAck(c) /\ c \notin ended

\* currentCreateCommand, and an incarnation that is not ended.
Current(c) == OwnsAck(c) /\ Newest(c) /\ c \notin ended

\* Binding a session retires the others of the logical session.
Apply(c) ==
    \/ /\ Current(c)
       /\ bound' = c
       /\ ended' = ended \cup ({bound} \cap (Commands \ {c}))
    \/ /\ ~Current(c)
       /\ UNCHANGED binding

\* The compare-and-swap of a driver on the row's state and attempt number:
\* what it does not find, it does not change.
Settle(d, from, s) ==
    LET c == Cmd(d) IN
    /\ row' = [row EXCEPT ![c] =
                IF @ \in from /\ attempts[c] = work[d].tries THEN s ELSE @]
    /\ UNCHANGED attempts

\* A stored result is applied again.
ApplyAgain(d) ==
    /\ work[d].at = "again"
    /\ Apply(Cmd(d))
    /\ Leave(d)
    /\ UNCHANGED <<placement, ledger, host, faults>>

-----------------------------------------------------------------------------
\* An attempted create: the receipt first.

Rejected(c) == request[c] \in {"retired", "unstamped", "final"}

\* How a row fails with the host's refusal.
Refusal(c) == IF request[c] = "final" THEN "failed" ELSE "refused"

\* No receipt: the request is sent again.
Probe(d) ==
    /\ work[d].at = "probe"
    /\ request[Cmd(d)] \in {"none", "sent"}
    /\ Go(d, At(IF work[d].held THEN "requeue" ELSE "send", Cmd(d), work[d].tries,
             FALSE))
    /\ UNCHANGED <<placement, ledger, binding, host, faults>>

\* A completed receipt is folded by the driver that still holds the claim, on
\* the attempt it read.
Foldable(d) ==
    /\ request[Cmd(d)] = "completed"
    /\ Holds(d)
    /\ Open(Cmd(d))
    /\ attempts[Cmd(d)] = work[d].tries

\* It settles the row and binds its session in one transaction.
FoldCompleted(d) ==
    /\ work[d].at = "probe"
    /\ Foldable(d)
    /\ Settle(d, {"queued", "delivering"}, "succeeded")
    /\ Apply(Cmd(d))
    /\ Leave(d)
    /\ UNCHANGED <<placement, host, faults>>

\* failAndReload.
FoldRejected(d) ==
    /\ work[d].at = "probe"
    /\ Rejected(Cmd(d))
    /\ Holds(d)
    /\ Settle(d, {"queued", "delivering"}, Refusal(Cmd(d)))
    /\ Go(d, At("record", Cmd(d), 0, FALSE))
    /\ UNCHANGED <<placement, binding, host, faults>>

\* An accepted command, a receipt this driver may not fold, or a host that
\* cannot be asked.
ProbeWaits(d) ==
    /\ work[d].at = "probe"
    /\ \/ /\ \/ request[Cmd(d)] = "accepted"
             \/ request[Cmd(d)] = "completed" /\ ~Foldable(d)
             \/ Rejected(Cmd(d)) /\ ~Holds(d)
          /\ UNCHANGED faults
       \/ Fault
    /\ Leave(d)
    /\ UNCHANGED <<placement, ledger, binding, host>>

\* persistCreateRejection: the receipt is looked up once more and kept with
\* the failed row; if that fails it is not on record, now or later.  The loop
\* goes on with what it reloaded, which another may have settled or queued.
Record(d) ==
    LET c == Cmd(d)
        found == row[c] = "refused" /\ Rejected(c)
    IN
    /\ work[d].at = "record"
    /\ \/ /\ found
          /\ Holds(d)
          /\ row' = [row EXCEPT ![c] =
                      IF request[c] = "unstamped" THEN @ ELSE "proven"]
          /\ Go(d, At("read", <<work[d].epoch, 0>>, 0, FALSE))
          /\ UNCHANGED faults
       \/ /\ found
          /\ ~Holds(d)
          /\ Leave(d)
          /\ UNCHANGED <<row, faults>>
       \/ /\ row[c] \in Failed
          /\ \/ ~found /\ UNCHANGED faults
             \/ found /\ Fault
          /\ Go(d, At("read", <<work[d].epoch, 0>>, 0, FALSE))
          /\ UNCHANGED row
       \/ /\ row[c] \notin Failed
          /\ Onward(d, c)
          /\ UNCHANGED <<row, faults>>
    /\ UNCHANGED <<attempts, placement, binding, host>>

-----------------------------------------------------------------------------
\* deliverCommand, with a retained intent.

\* requeueDelivering does not compare the attempt.
Requeue(d) ==
    LET c == Cmd(d) IN
    /\ work[d].at = "requeue"
    /\ \/ /\ ~Holds(d)
          /\ Leave(d)
          /\ UNCHANGED row
       \/ /\ Holds(d)
          /\ Go(d, At("send", Cmd(d), work[d].tries, FALSE))
          /\ row' = [row EXCEPT ![c] = IF @ = "delivering" THEN "queued" ELSE @]
    /\ UNCHANGED <<attempts, placement, binding, host, faults>>

Claimable(d) == row[Cmd(d)] = "queued" /\ attempts[Cmd(d)] = work[d].tries

\* claimDelivering asks neither for the lease nor for the owner.
Send(d) ==
    LET c == Cmd(d) IN
    /\ work[d].at = "send"
    /\ Claimable(d)
    /\ row' = [row EXCEPT ![c] = "delivering"]
    /\ attempts' = [attempts EXCEPT ![c] = @ + 1]
    /\ request' = [request EXCEPT ![c] = IF @ = "none" THEN "sent" ELSE @]
    /\ Go(d, At("sent", Cmd(d), work[d].tries + 1, FALSE))
    /\ UNCHANGED <<placement, binding, process, announced, fence, faults>>

\* After a refusal, or when another has claimed the row, it is read again.
Reload(d, r) ==
    \/ r \in Failed /\ Go(d, At("record", Cmd(d), 0, FALSE))
    \/ r \notin Failed /\ Leave(d)

NotClaimable(d) ==
    /\ work[d].at = "send"
    /\ ~Claimable(d)
    /\ Reload(d, row[Cmd(d)])
    /\ UNCHANGED <<placement, ledger, binding, host, faults>>

\* The host made the session: it is bound whether or not the ledger write
\* landed.
Acknowledge(d) ==
    /\ work[d].at = "sent"
    /\ request[Cmd(d)] = "completed"
    /\ Settle(d, {"delivering"}, "succeeded")
    /\ Apply(Cmd(d))
    /\ Leave(d)
    /\ UNCHANGED <<placement, host, faults>>

\* A newer epoch owns the run.
Fenced(d) ==
    /\ work[d].at = "sent"
    /\ fence > work[d].epoch
    /\ Settle(d, {"queued", "delivering"}, "fenced")
    /\ Leave(d)
    /\ UNCHANGED <<placement, binding, host, faults>>

\* The host refuses: with a receipt, or at its limits, before it admits.
Refused(d) ==
    /\ work[d].at = "sent"
    /\ \/ /\ Rejected(Cmd(d))
          /\ Settle(d, {"queued", "delivering"}, Refusal(Cmd(d)))
       \/ /\ request[Cmd(d)] = "sent"
          /\ Settle(d, {"queued", "delivering"}, "failed")
    /\ Reload(d, row'[Cmd(d)])
    /\ UNCHANGED <<placement, binding, host, faults>>

\* No answer: the same command waits for its time.
Unknown(d) ==
    /\ Fault
    /\ work[d].at = "sent"
    /\ Settle(d, {"delivering"}, "queued")
    /\ Leave(d)
    /\ UNCHANGED <<placement, binding, host>>

-----------------------------------------------------------------------------
\* The recovery pass and the projector.

\* Mutant: the fold of a completed create leaves its binding to others.
FoldUnbound(c) == UNCHANGED binding

\* The domain write of a completed create in foldReceipt.
FoldBinding(c) == Apply(c)

\* recoverExecutionCommands folds the receipt of a retained intent and never
\* sends or orphans it.  A completed create is applied though a requeued row
\* stays open.
PassCompletes(c) ==
    /\ row[c] # "none"
    /\ request[c] = "completed"
    /\ row' = [row EXCEPT ![c] = IF @ = "delivering" THEN "succeeded" ELSE @]
    /\ FoldBinding(c)
    /\ UNCHANGED <<attempts, placement, token, host, work, faults>>

\* Of a refusal, code and reason are kept: the details of an invalid
\* workspace, without which it is final, and the proof are not.
PassRejects(c) ==
    /\ Open(c)
    /\ Rejected(c)
    /\ \E s \in {"failed", Refusal(c)} : row' = [row EXCEPT ![c] = s]
    /\ UNCHANGED <<attempts, placement, token, binding, host, work, faults>>

\* projectCreated: the same acknowledgement; the incarnation of a stale one
\* is lost.
ProjectCreated(c) ==
    /\ c \in announced
    /\ announced' = announced \ {c}
    /\ \/ Current(c) /\ Apply(c)
       \/ /\ ~Current(c)
          /\ ended' = ended \cup {c}
          /\ UNCHANGED bound
    /\ UNCHANGED <<placement, token, ledger, request, process, fence, work, faults>>

\* projectTerminal, after the created event; without one,
\* recordUninitializedTerminal keeps an incarnation that ended.
ProjectExit(c) ==
    /\ process[c] = "gone"
    /\ c \notin announced \cup ended
    /\ ended' = ended \cup {c}
    /\ UNCHANGED <<placement, token, ledger, bound, host, work, faults>>

-----------------------------------------------------------------------------
\* The host.

\* A command is admitted under its fence; a newer epoch's after the older
\* processes are gone.
HostAccepts(c) ==
    /\ request[c] = "sent"
    /\ c[1] >= fence
    /\ fence' = c[1]
    /\ request' = [request EXCEPT ![c] = "accepted"]
    /\ process' = [k \in Commands |->
                    IF Alive(k) /\ k[1] < c[1] THEN "gone" ELSE process[k]]
    /\ UNCHANGED <<placement, token, ledger, binding, announced, work, faults>>

\* A process that exits before it has initialised is never announced.
HostSpawns(c) ==
    /\ request[c] = "accepted"
    /\ process[c] = "none"
    /\ c[1] = fence
    /\ process' = [process EXCEPT ![c] = "alive"]
    /\ announced' \in {announced, announced \cup {c}}
    /\ UNCHANGED <<placement, token, ledger, binding, request, fence, work, faults>>

\* A completed create has made its process; a stamped refusal or a final one has
\* none, and an old turn_lost without a stamp may have it.
HostAnswers(c, answer) ==
    /\ request[c] = "accepted"
    /\ answer = "completed" => process[c] # "none"
    /\ answer \in {"retired", "final"} => ~Alive(c)
    /\ request' = [request EXCEPT ![c] = answer]
    /\ UNCHANGED <<placement, token, ledger, binding, process, announced,
                   fence, work, faults>>

ProcessExits(c) ==
    /\ Alive(c)
    /\ process' = [process EXCEPT ![c] = "gone"]
    /\ UNCHANGED <<placement, token, ledger, binding, request, announced,
                   fence, work, faults>>

-----------------------------------------------------------------------------
Next ==
    \/ Mint \/ OwnerMoves \/ Lapse
    \/ \E d \in Drivers :
        \/ ClaimDriver(d) \/ Crash(d) \/ Read(d) \/ Admit(d) \/ ApplyAgain(d)
        \/ Probe(d) \/ ProbeWaits(d) \/ FoldCompleted(d) \/ FoldRejected(d)
        \/ Record(d) \/ Requeue(d) \/ Send(d) \/ NotClaimable(d)
        \/ Acknowledge(d) \/ Fenced(d) \/ Refused(d) \/ Unknown(d)
    \/ \E c \in Commands :
        \/ PassCompletes(c) \/ PassRejects(c)
        \/ ProjectCreated(c) \/ ProjectExit(c)
        \/ HostAccepts(c) \/ HostSpawns(c) \/ ProcessExits(c)
        \/ \E a \in {"completed", "retired", "unstamped", "final"} :
            HostAnswers(c, a)

Spec == Init /\ [][Next]_vars

-----------------------------------------------------------------------------
\* The node's session never has two agent processes, over all the assignments
\* and creates of the run and whatever drivers, late requests and old hosts do:
\* a create is replaced only when its process is gone for good
\* (assertCreateReplacementQuiescence, the owner lock).
SingleAgent ==
    \A c, k \in Commands : Alive(c) /\ Alive(k) => c = k

\* A live session whose visit still owns it, paused or running, is not given
\* up: no acknowledgement reads a pause as a moved owner (lockCreateOwner).
LiveSessionKept ==
    \A c \in ended : c[1] = epoch /\ owner # "released" => ~Alive(c)

\* A create the ledger calls succeeded, alive and still owned, is the session
\* the run is bound to: whoever settled the row also bound it.
SettledIsBound ==
    \A c \in Commands :
        row[c] = "succeeded" /\ OwnsAck(c) /\ Alive(c) => bound = c

\* The binding only moves on, to the newest create of the active assignment:
\* a late acknowledgement, fold or event of an older generation or epoch
\* never takes it back (currentCreateCommand).
BindingAdvances ==
    [][bound' # bound =>
        /\ bound'[1] = epoch /\ owner # "released"
        /\ bound # NoSession =>
            \/ bound[1] < bound'[1]
            \/ bound[1] = bound'[1] /\ bound[2] < bound'[2]]_vars

\* The inductive invariant: a chain grows only past proven refusals, a proof
\* is the host's stamp, and what the host and the projector know of a create
\* has its row (storeCreateIntent before the send).
ChainProven ==
    \A c, k \in Commands :
        c[1] = k[1] /\ c[2] < k[2] /\ row[k] # "none" => row[c] = "proven"

HostFollows ==
    \A c \in Commands :
        /\ row[c] # "none" => c[1] <= epoch
        /\ row[c] = "proven" => request[c] = "retired"
        /\ request[c] # "none" => row[c] # "none"
        /\ process[c] # "none" => request[c] \notin {"none", "sent"}
        /\ request[c] = "retired" => ~Alive(c)
        /\ request[c] \in {"retired", "unstamped"} \/ row[c] # "refused"
        /\ Alive(c) => c[1] = fence
        /\ row[c] = "succeeded" => request[c] = "completed"
        /\ request[c] = "completed" => process[c] # "none"
        /\ c \in announced \cup ended \/ bound = c => process[c] # "none"

DriversFollow ==
    \A d \in Drivers :
        /\ work[d].at = "admit" /\ work[d].gen > 0
            => row[<<work[d].epoch, work[d].gen - 1>>] = "proven"
        /\ work[d].at = "again" => row[Cmd(d)] = "succeeded"

OwnedInv ==
    /\ TypeOK /\ ChainProven /\ HostFollows /\ DriversFollow
    /\ LiveSessionKept /\ SettledIsBound

=============================================================================
