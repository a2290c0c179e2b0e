-------------------------- MODULE SessionOwnership --------------------------
(***************************************************************************)
(* The execution host's side of the command plane, for one run:            *)
(* the per-run fence (supervisor/src/execution-fence.ts), the command      *)
(* receipts (command-receipts.ts, host-state.ts), the gated start of an    *)
(* agent session (spawn.ts, session-process-ownership.ts) and the durable  *)
(* process obligations that outlive a supervisor crash.                    *)
(*                                                                         *)
(* A request is one HTTP delivery of a command; a command may be delivered *)
(* by several requests, late and in any order.  The supervisor is one      *)
(* event loop: an action is the code between two awaits that can let       *)
(* another request in.  A session is named by the session.create command   *)
(* that spawns it.                                                         *)
(***************************************************************************)
EXTENDS Naturals, FiniteSets

CONSTANTS
    Cmd,          \* command ids
    Req,          \* HTTP deliveries
    CmdOf,        \* CmdOf[r]: the command a delivery carries
    Kind,         \* Kind[c]: create, prompt, delete or work (workspace.*, ...)
    Epoch,        \* Epoch[c]: the assignment epoch in the command's fence
    Asg,          \* Asg[c]: the assignment id in the command's fence
    Target,       \* Target[c]: the session a prompt or a delete names
    NoAsg,        \* no assignment: the fence row does not exist yet
    None,         \* no session
    MaxCrashes    \* bound: supervisor crashes and OS reboots

Kinds == {"create", "prompt", "delete", "work"}
Creates == {c \in Cmd : Kind[c] = "create"}
OnSession == {c \in Cmd : Kind[c] \in {"prompt", "delete"}}

ASSUME OwnershipAssumption ==
    /\ CmdOf \in [Req -> Cmd]
    /\ Kind \in [Cmd -> Kinds]
    /\ Epoch \in [Cmd -> Nat \ {0}]
    /\ Target \in [Cmd -> Cmd \cup {None}]
    /\ \A c \in OnSession : Target[c] \in Creates
    /\ None \notin Cmd
    /\ MaxCrashes \in Nat

VARIABLES
    up,           \* the supervisor process is serving
    crashes,      \* crashes so far
    fence,        \* run_fences row: [epoch, asg]                  (durable)
    phase,        \* command_receipts.phase, "none" when absent     (durable)
    body,         \* what the receipt's body says                   (durable)
    obligation,   \* session_process_obligations.phase              (durable)
    proc,         \* the OS process group of a session (outlives the supervisor)
    registry,     \* sessions in the SessionRegistry                (memory)
    stopping,     \* sessions marked intentionalShutdown            (memory)
    evicted,      \* sessions marked fencedByEpoch                  (memory)
    observer,     \* the one-shot observer of an unsettled create   (memory)
    stage,        \* where the in-flight execution of a command is  (memory)
    pc,           \* where a request's handler is                   (memory)
    todo,         \* sessions a handler still has to evict or inspect (memory)
    cur,          \* the session a handler is waiting for           (memory)
    execs         \* history: how often a command began to execute

durable == <<fence, phase, body, obligation>>
memory == <<registry, stopping, evicted, observer>>
handlers == <<pc, todo, cur>>
vars == <<up, crashes, durable, proc, memory, stage, handlers, execs>>

Phases == {"none", "accepted", "completed", "rejected"}
\* "not_started", "terminated" and "lost_terminated" carry the receipt's
\* sessionCreateQuiescence proof; the others do not.
GoneBodies == {"not_started", "terminated", "lost_terminated"}
Bodies == {"none", "pending", "exit_unconfirmed", "ok", "failed", "fenced",
           "turn_lost"} \cup GoneBodies
Procs == {"none", "gate", "authorized", "adapter", "orphans", "dead"}
Stages == {"idle", "prep", "gate", "handshake", "gate_teardown",
           "acp_teardown", "turn", "killing", "settling", "work"}

Init ==
    /\ up = TRUE
    /\ crashes = 0
    /\ fence = [epoch |-> 0, asg |-> NoAsg]
    /\ phase = [c \in Cmd |-> "none"]
    /\ body = [c \in Cmd |-> "none"]
    /\ obligation = [c \in Cmd |-> "none"]
    /\ proc = [c \in Cmd |-> "none"]
    /\ registry = {}
    /\ stopping = {}
    /\ evicted = {}
    /\ observer = [c \in Cmd |-> "off"]
    /\ stage = [c \in Cmd |-> "idle"]
    /\ pc = [r \in Req |-> "new"]
    /\ todo = [r \in Req |-> {}]
    /\ cur = [r \in Req |-> None]
    /\ execs = [c \in Cmd |-> 0]

-----------------------------------------------------------------------------
(* What the host knows of a process.                                       *)

\* The session's leader has not exited (child.exitCode and signalCode null).
LeaderRuns(s) == proc[s] \in {"gate", "authorized", "adapter"}
\* inspectProcessGroup: no member of the recorded group is left.
Retired(s) == proc[s] = "dead"

InFlight(c) == stage[c] # "idle"
\* Mutant: an older holder passes for the current one.
HoldsFenceOrBelow(c) == Epoch[c] <= fence.epoch
HoldsFence(c) == fence.epoch = Epoch[c] /\ fence.asg = Asg[c]
Terminal(c) == phase[c] \in {"completed", "rejected"}

\* reconcileRunSessionProcesses passes over an obligation whose process a live
\* registry entry owns, inspects any other registered one, refuses an unproven
\* one, and settles a released one without looking.
Inspectable(s) == s \in registry /\ LeaderRuns(s)
\* Mutant: only this process's own sessions are inspected.
NeedsInspectionOfOwn(s) ==
    obligation[s] = "registered" /\ s \in registry /\ ~LeaderRuns(s)
NeedsInspection(s) == \/ obligation[s] = "registered" /\ ~Inspectable(s)
                      \/ obligation[s] = "unproven"
\* Mutant: the leader's exit proves that its group has retired.
ProvableByLeader(s) == obligation[s] = "registered" /\ ~LeaderRuns(s)
\* An unproven owner has no process group to inspect.
Provable(s) == obligation[s] = "registered" /\ Retired(s)
Unconfirmed(s) == NeedsInspection(s) /\ ~Provable(s)
Obliged == {s \in Cmd : obligation[s] # "none"}
\* Obligations one pass of the loop settles unless it meets an unconfirmed one.
Settleable == {s \in Obliged : obligation[s] = "released" \/ Provable(s)}

\* Mutant: every receipt of a released process is settled as lost.
LostInAnyPhase(S, c) ==
    /\ phase[c] # "none"
    /\ \/ c \in S
       \/ Kind[c] = "prompt" /\ Target[c] \in S

\* Mutant: the prompts of a lost process are forgotten.
LostWithoutPrompts(S, c) == phase[c] = "accepted" /\ c \in S

\* releaseSessionProcess + recoverReleasedSessionProcess for every session of
\* S: the accepted create and the accepted prompts of a released process are
\* settled as lost, whether or not an execution of them is in flight.
LostWith(S, c) ==
    /\ phase[c] = "accepted"
    /\ \/ c \in S
       \/ Kind[c] = "prompt" /\ Target[c] \in S

ReleaseAndSettle(S) ==
    /\ obligation' = [s \in Cmd |-> IF s \in S THEN "released"
                                    ELSE obligation[s]]
    /\ phase' = [c \in Cmd |-> IF LostWith(S, c) THEN "rejected" ELSE phase[c]]
    /\ body' = [c \in Cmd |-> IF ~LostWith(S, c) THEN body[c]
                              ELSE IF c \in S THEN "lost_terminated"
                              ELSE "turn_lost"]

-----------------------------------------------------------------------------
(* The handler of one request (runCommand, runAsyncPromptCommand).         *)

\* A handler in "execute" runs without an await that yields the event loop, so
\* no other supervisor code runs in between.
LoopFree == up /\ \A r \in Req : pc[r] # "execute"

Finish(r) == /\ pc' = [pc EXCEPT ![r] = "done"]
             /\ todo' = [todo EXCEPT ![r] = {}]
             /\ cur' = [cur EXCEPT ![r] = None]

\* evictLowerEpochSessions: the older sessions that still have a leader.
LowerEpochSessions(c) ==
    {s \in registry : LeaderRuns(s) /\ Epoch[s] < Epoch[c]}

\* The route answers 404 before the fence when it does not know the session.
UnknownSession(c) == c \in OnSession /\ Target[c] \notin registry

\* Mutant: a lower epoch passes the fence.
FenceRejectsSameEpoch(c) == Epoch[c] = fence.epoch /\ Asg[c] # fence.asg

\* applyFence rejects: a lower epoch, or another assignment at this epoch.
FenceRejects(c) == \/ Epoch[c] < fence.epoch
                   \/ Epoch[c] = fence.epoch /\ Asg[c] # fence.asg

Refuse(r) ==
    /\ LoopFree
    /\ pc[r] = "new"
    /\ UnknownSession(CmdOf[r]) \/ FenceRejects(CmdOf[r])
    /\ Finish(r)
    /\ UNCHANGED <<up, crashes, durable, proc, memory, stage, execs>>

\* reconcileRunSessionProcesses reads the run's obligations and awaits only where
\* one of them needs inspection; otherwise the handler goes straight on.
StartReconcile(r) ==
    IF \E s \in Cmd : NeedsInspection(s)
    THEN /\ pc' = [pc EXCEPT ![r] = "reconcile"]
         /\ todo' = [todo EXCEPT ![r] = Obliged]
         /\ UNCHANGED <<phase, body, obligation>>
    ELSE /\ pc' = [pc EXCEPT ![r] = "execute"]
         /\ todo' = [todo EXCEPT ![r] = {}]
         /\ ReleaseAndSettle({s \in Obliged : obligation[s] = "released"})

\* applyFence persists the high-water, then the older owners must retire
\* unless the receipt is terminal and can only be replayed.
Arrive(r) ==
    LET c == CmdOf[r] IN
    /\ LoopFree
    /\ pc[r] = "new"
    /\ ~UnknownSession(c)
    /\ ~FenceRejects(c)
    /\ fence' = [epoch |-> Epoch[c], asg |-> Asg[c]]
    /\ \/ /\ Terminal(c)
          /\ pc' = [pc EXCEPT ![r] = "execute"]
          /\ UNCHANGED <<phase, body, obligation, todo>>
       \/ /\ ~Terminal(c) /\ LowerEpochSessions(c) # {}
          /\ pc' = [pc EXCEPT ![r] = "evict"]
          /\ todo' = [todo EXCEPT ![r] = LowerEpochSessions(c)]
          /\ UNCHANGED <<phase, body, obligation>>
       \/ /\ ~Terminal(c) /\ LowerEpochSessions(c) = {}
          /\ StartReconcile(r)
    /\ UNCHANGED <<up, crashes, proc, memory, stage, cur, execs>>

\* One iteration of the eviction loop: mark the victim and signal its group.
EvictSignal(r, s) ==
    /\ LoopFree
    /\ pc[r] = "evict"
    /\ cur[r] = None
    /\ s \in todo[r]
    /\ cur' = [cur EXCEPT ![r] = s]
    /\ stopping' = stopping \cup ({s} \cap registry)
    /\ evicted' = evicted \cup {s}
    /\ UNCHANGED <<up, crashes, durable, proc, registry, observer, stage, pc,
                   todo, execs>>

\* terminateSessionProcess returned "confirmed".  After the last victim the
\* loop hands over to the reconciliation.
EvictConfirmed(r) ==
    /\ LoopFree
    /\ pc[r] = "evict"
    /\ cur[r] # None
    /\ Retired(cur[r])
    /\ cur' = [cur EXCEPT ![r] = None]
    /\ IF todo[r] = {cur[r]}
       THEN StartReconcile(r)
       ELSE /\ todo' = [todo EXCEPT ![r] = @ \ {cur[r]}]
            /\ UNCHANGED <<pc, phase, body, obligation>>
    /\ UNCHANGED <<up, crashes, fence, proc, memory, stage, execs>>

\* Both kill graces ran out, for the exit or for the terminal output:
\* session_eviction_exit_unconfirmed.
EvictTimeout(r) ==
    /\ LoopFree
    /\ pc[r] = "evict"
    /\ cur[r] # None
    /\ Finish(r)
    /\ UNCHANGED <<up, crashes, durable, proc, memory, stage, execs>>

ReconcilePass(r, s) ==
    /\ LoopFree
    /\ pc[r] = "reconcile"
    /\ s \in todo[r]
    /\ Inspectable(s)
    /\ todo' = [todo EXCEPT ![r] = @ \ {s}]
    /\ UNCHANGED <<up, crashes, durable, proc, memory, stage, pc, cur, execs>>

\* The inspection proved the group retired, or it was released before.
ReconcileOne(r, s) ==
    /\ LoopFree
    /\ pc[r] = "reconcile"
    /\ s \in todo[r] \cap Settleable
    /\ ReleaseAndSettle({s})
    /\ todo' = [todo EXCEPT ![r] = @ \ {s}]
    /\ UNCHANGED <<up, crashes, fence, proc, memory, stage, pc, cur, execs>>

\* Nothing is left to inspect: on to the receipt without a further await.
ReconcileDone(r) ==
    /\ LoopFree
    /\ pc[r] = "reconcile"
    /\ \A s \in todo[r] : ~NeedsInspection(s)
    /\ ReleaseAndSettle({s \in todo[r] : obligation[s] = "released"})
    /\ pc' = [pc EXCEPT ![r] = "execute"]
    /\ todo' = [todo EXCEPT ![r] = {}]
    /\ UNCHANGED <<up, crashes, fence, proc, memory, stage, cur, execs>>

\* session_process_owner_unconfirmed: members of the group are left, an exited
\* entry has not published its terminal output yet, or the owner is unproven.
ReconcileRefused(r) ==
    /\ LoopFree
    /\ pc[r] = "reconcile"
    /\ \E s \in todo[r] : NeedsInspection(s)
    /\ Finish(r)
    /\ UNCHANGED <<up, crashes, durable, proc, memory, stage, execs>>

-----------------------------------------------------------------------------
(* receipts.execute / executeAsync, from the lookup to the first await.    *)

WriteReceipt(c, p, b) ==
    /\ phase' = [phase EXCEPT ![c] = p]
    /\ body' = [body EXCEPT ![c] = b]

FirstStage(c) == IF Kind[c] = "create" THEN "prep"
                 ELSE IF Kind[c] = "prompt" THEN "turn"
                 ELSE IF Kind[c] = "delete" THEN "killing"
                 ELSE "work"

\* A second prompt is refused while another one holds the session: in memory
\* (activePromptCommandId) or by an accepted receipt (command_in_progress).
PromptBusy(c) ==
    /\ Kind[c] = "prompt"
    /\ phase[c] = "none"
    /\ \E q \in Cmd \ {c} : /\ Kind[q] = "prompt"
                            /\ Target[q] = Target[c]
                            /\ stage[q] = "turn" \/ phase[q] = "accepted"

Unsettled(c) ==
    Kind[c] = "create" /\ phase[c] = "accepted" /\ body[c] = "exit_unconfirmed"

\* The stored outcome is replayed, the running execution joined, or the
\* request refused: nothing changes.
Replay(r) ==
    LET c == CmdOf[r] IN
    /\ up
    /\ pc[r] = "execute"
    /\ Terminal(c) \/ InFlight(c) \/ Unsettled(c) \/ PromptBusy(c)
    /\ Finish(r)
    /\ UNCHANGED <<up, crashes, durable, proc, memory, stage, execs>>

\* An accepted receipt nobody executes any more.
TurnLost(r) ==
    LET c == CmdOf[r] IN
    /\ up
    /\ pc[r] = "execute"
    /\ phase[c] = "accepted" /\ ~InFlight(c) /\ ~Unsettled(c)
    /\ WriteReceipt(c, "rejected", "turn_lost")
    /\ Finish(r)
    /\ UNCHANGED <<up, crashes, fence, obligation, proc, memory, stage, execs>>

\* Mutant: an accepted receipt nobody executes is executed again.
RunAgain(r) ==
    LET c == CmdOf[r] IN
    /\ up
    /\ pc[r] = "execute"
    /\ ~Terminal(c) /\ ~InFlight(c) /\ ~PromptBusy(c)
    /\ WriteReceipt(c, "accepted", "pending")
    /\ stage' = [stage EXCEPT ![c] = FirstStage(c)]
    /\ execs' = [execs EXCEPT ![c] = @ + 1]
    /\ Finish(r)
    /\ UNCHANGED <<up, crashes, fence, obligation, proc, memory>>

\* runFresh: the receipt is accepted before anything runs.  A delete starts by
\* marking and signalling its session.
RunFresh(r) ==
    LET c == CmdOf[r] IN
    /\ up
    /\ pc[r] = "execute"
    /\ phase[c] = "none" /\ ~InFlight(c) /\ ~PromptBusy(c)
    /\ WriteReceipt(c, "accepted", "pending")
    /\ stage' = [stage EXCEPT ![c] = FirstStage(c)]
    /\ execs' = [execs EXCEPT ![c] = @ + 1]
    /\ stopping' = IF Kind[c] = "delete"
                   THEN stopping \cup ({Target[c]} \cap registry)
                   ELSE stopping
    /\ Finish(r)
    /\ UNCHANGED <<up, crashes, fence, obligation, proc, registry, evicted,
                   observer>>

\* The admission of the receipt is refused (outbox or storage pressure).
AdmissionRefused(r) ==
    /\ up
    /\ pc[r] = "execute"
    /\ phase[CmdOf[r]] = "none"
    /\ Finish(r)
    /\ UNCHANGED <<up, crashes, durable, proc, memory, stage, execs>>

-----------------------------------------------------------------------------
(* session.create: gated start of the adapter (spawn.ts,                   *)
(* session-process-ownership.ts, POST /sessions).                          *)

Settle(c, p, b) ==
    /\ WriteReceipt(c, p, b)
    /\ stage' = [stage EXCEPT ![c] = "idle"]

\* Preparation failed, or the fence moved on before the spawn: no process.
CreateUnstarted(c) ==
    /\ LoopFree
    /\ stage[c] = "prep"
    /\ Settle(c, "rejected", "not_started")
    /\ UNCHANGED <<up, crashes, fence, obligation, proc, memory, handlers, execs>>

\* The fence is read, the gate spawned, the entry registered and the
\* obligation inserted in one call stack.
Spawn(c) ==
    /\ LoopFree
    /\ stage[c] = "prep"
    /\ HoldsFence(c)
    /\ proc' = [proc EXCEPT ![c] = "gate"]
    /\ registry' = registry \cup {c}
    /\ obligation' = [obligation EXCEPT ![c] = "registered"]
    /\ stage' = [stage EXCEPT ![c] = "gate"]
    /\ UNCHANGED <<up, crashes, fence, phase, body, stopping, evicted, observer,
                   handlers, execs>>

\* Mutant: the start goes on without an obligation.
SpawnAnyway(c) ==
    /\ LoopFree
    /\ stage[c] = "prep"
    /\ HoldsFence(c)
    /\ proc' = [proc EXCEPT ![c] = "gate"]
    /\ registry' = registry \cup {c}
    /\ stage' = [stage EXCEPT ![c] = "gate"]
    /\ UNCHANGED <<up, crashes, durable, stopping, evicted, observer, handlers,
                   execs>>

\* The obligation could not be written: the gate is torn down unregistered.
SpawnUnregistered(c) ==
    /\ LoopFree
    /\ stage[c] = "prep"
    /\ HoldsFence(c)
    /\ proc' = [proc EXCEPT ![c] = "gate"]
    /\ registry' = registry \cup {c}
    /\ stopping' = stopping \cup {c}
    /\ stage' = [stage EXCEPT ![c] = "gate_teardown"]
    /\ UNCHANGED <<up, crashes, durable, evicted, observer, handlers, execs>>

\* An error in the call stack after the spawn, before the registration: the gate
\* is killed and nobody waits for it.
SpawnAborts(c) ==
    /\ LoopFree
    /\ stage[c] = "prep"
    /\ HoldsFence(c)
    /\ proc' = [proc EXCEPT ![c] = "gate"]
    /\ registry' = registry \cup {c}
    /\ \/ Settle(c, "rejected", "failed")
       \/ /\ stage' = [stage EXCEPT ![c] = "idle"]    \* not a SupervisorError
          /\ UNCHANGED <<phase, body>>
    /\ UNCHANGED <<up, crashes, fence, obligation, stopping, evicted, observer,
                   handlers, execs>>

\* The gate's "ready" is answered with "execute" only while its owner stands.
Authorize(c) ==
    /\ LoopFree
    /\ stage[c] = "gate"
    /\ proc[c] = "gate"
    /\ HoldsFence(c)
    /\ c \in registry \ stopping
    /\ proc' = [proc EXCEPT ![c] = "authorized"]
    /\ UNCHANGED <<up, crashes, durable, memory, stage, handlers, execs>>

\* The gate is superseded, failed, exited, disconnected or timed out.
GateFails(c) ==
    /\ LoopFree
    /\ stage[c] = "gate"
    /\ stage' = [stage EXCEPT ![c] = "gate_teardown"]
    /\ stopping' = stopping \cup ({c} \cap registry)
    /\ UNCHANGED <<up, crashes, durable, proc, registry, evicted, observer,
                   handlers, execs>>

ExecutionStarted(c) ==
    /\ LoopFree
    /\ stage[c] = "gate"
    /\ proc[c] = "adapter"
    /\ stage' = [stage EXCEPT ![c] = "handshake"]
    /\ UNCHANGED <<up, crashes, durable, proc, memory, handlers, execs>>

\* Output of the adapter is read only while the producer wallet of the accepted
\* create is open.
HandshakeOk(c) ==
    /\ LoopFree
    /\ stage[c] = "handshake"
    /\ phase[c] = "accepted"
    /\ Settle(c, "completed", "ok")
    /\ UNCHANGED <<up, crashes, fence, obligation, proc, memory, handlers, execs>>

HandshakeFails(c) ==
    /\ LoopFree
    /\ stage[c] = "handshake"
    /\ stage' = [stage EXCEPT ![c] = "acp_teardown"]
    /\ stopping' = stopping \cup ({c} \cap registry)
    /\ UNCHANGED <<up, crashes, durable, proc, registry, evicted, observer,
                   handlers, execs>>

\* An error between the spawn and the handshake leaves the process running: a
\* SupervisorError rejects without a proof, any other leaves the receipt.
CreateAborts(c) ==
    /\ LoopFree
    /\ stage[c] = "handshake"
    /\ \/ Settle(c, "rejected", "failed")
       \/ /\ stage' = [stage EXCEPT ![c] = "idle"]
          /\ UNCHANGED <<phase, body>>
    /\ UNCHANGED <<up, crashes, fence, obligation, proc, memory, handlers, execs>>

Released(ob, c) ==
    [ob EXCEPT ![c] = IF @ = "registered" THEN "released" ELSE @]

\* Mutant: the leader's exit is taken for the exit of its group.
TeardownOfLeader(c) ==
    /\ LoopFree
    /\ stage[c] \in {"gate_teardown", "acp_teardown"}
    /\ ~LeaderRuns(c)
    /\ obligation' = Released(obligation, c)
    /\ Settle(c, "rejected", "terminated")
    /\ UNCHANGED <<up, crashes, fence, proc, memory, handlers, execs>>

TeardownConfirmed(c) ==
    /\ LoopFree
    /\ stage[c] \in {"gate_teardown", "acp_teardown"}
    /\ Retired(c)
    /\ obligation' = Released(obligation, c)
    /\ registry' = IF stage[c] = "acp_teardown" THEN registry \ {c} ELSE registry
    /\ Settle(c, "rejected", "terminated")
    /\ UNCHANGED <<up, crashes, fence, proc, stopping, evicted, observer,
                   handlers, execs>>

\* UnsettledSessionCreateError: the exit or the terminal output was not
\* confirmed in time; the receipt is written back as accepted.
TeardownTimeout(c) ==
    /\ LoopFree
    /\ stage[c] \in {"gate_teardown", "acp_teardown"}
    /\ Settle(c, "accepted", "exit_unconfirmed")
    /\ observer' = [observer EXCEPT ![c] = "armed"]
    /\ UNCHANGED <<up, crashes, fence, obligation, proc, registry, stopping, evicted,
                   handlers, execs>>

\* observeUnsettledSessionCreate fires once, at the exit.
\* settleRetiredSessionCreate reads the receipt, awaits the inspection of the
\* group, then writes what it read back as rejected.
ObserveExit(c) ==
    /\ LoopFree
    /\ observer[c] = "armed"
    /\ ~LeaderRuns(c)
    /\ observer' = [observer EXCEPT ![c] = IF Unsettled(c) THEN "reading" ELSE "off"]
    /\ UNCHANGED <<up, crashes, durable, proc, registry, stopping, evicted, stage,
                   handlers, execs>>

SettleRetiredCreate(c) ==
    /\ LoopFree
    /\ observer[c] = "reading"
    /\ observer' = [observer EXCEPT ![c] = "off"]
    /\ IF Retired(c)
       THEN /\ obligation' = Released(obligation, c)
            /\ WriteReceipt(c, "rejected", "terminated")
       ELSE UNCHANGED <<obligation, phase, body>>
    /\ UNCHANGED <<up, crashes, fence, proc, registry, stopping, evicted, stage,
                   handlers, execs>>

-----------------------------------------------------------------------------
(* The other commands.                                                     *)

\* A released session's producer wallet stays open for its accepted commands:
\* the prompt itself, or a delete that is still at work (releaseEndedWallets).
WalletOpen(c) ==
    \/ phase[c] = "accepted"
    \/ \E d \in Cmd : /\ Kind[d] = "delete" /\ Target[d] = Target[c]
                      /\ phase[d] = "accepted"

\* completeAsync writes the turn's own end without looking at the receipt, which
\* may have been settled as lost meanwhile.  A failure needs no wallet, unless
\* the outbox is under pressure; a success always does.  A write that fails is
\* logged and the receipt stands.
PromptEnds(c) ==
    /\ LoopFree
    /\ stage[c] = "turn"
    /\ stage' = [stage EXCEPT ![c] = "idle"]
    /\ \/ WriteReceipt(c, "rejected",
                       IF Target[c] \in evicted THEN "fenced" ELSE "failed")
       \/ /\ Target[c] \notin evicted
          /\ phase[Target[c]] = "completed"
          /\ WalletOpen(c)
          /\ WriteReceipt(c, "completed", "ok")
       \/ ~WalletOpen(c) /\ UNCHANGED <<phase, body>>
    /\ UNCHANGED <<up, crashes, fence, obligation, proc, memory, handlers, execs>>

\* DELETE /sessions/:id confirmed the exit: settleRetiredSessionCreate may
\* await before the obligation is released.
DeleteConfirmed(c) ==
    /\ LoopFree
    /\ stage[c] = "killing"
    /\ Retired(Target[c])
    /\ IF Unsettled(Target[c])
       THEN /\ stage' = [stage EXCEPT ![c] = "settling"]
            /\ UNCHANGED <<phase, body, obligation>>
       ELSE /\ obligation' = Released(obligation, Target[c])
            /\ Settle(c, "completed", "ok")
    /\ UNCHANGED <<up, crashes, fence, proc, memory, handlers, execs>>

DeleteSettles(c) ==
    /\ LoopFree
    /\ stage[c] = "settling"
    /\ obligation' = Released(obligation, Target[c])
    /\ phase' = [phase EXCEPT ![c] = "completed", ![Target[c]] = "rejected"]
    /\ body' = [body EXCEPT ![c] = "ok", ![Target[c]] = "terminated"]
    /\ stage' = [stage EXCEPT ![c] = "idle"]
    /\ UNCHANGED <<up, crashes, fence, proc, memory, handlers, execs>>

DeleteTimeout(c) ==
    /\ LoopFree
    /\ stage[c] = "killing"
    /\ Settle(c, "rejected", "failed")
    /\ UNCHANGED <<up, crashes, fence, obligation, proc, memory, handlers, execs>>

WorkEnds(c) ==
    /\ LoopFree
    /\ stage[c] = "work"
    /\ \/ Settle(c, "completed", "ok")
       \/ Settle(c, "rejected", "failed")
       \/ /\ stage' = [stage EXCEPT ![c] = "idle"]    \* not a SupervisorError
          /\ UNCHANGED <<phase, body>>
    /\ UNCHANGED <<up, crashes, fence, obligation, proc, memory, handlers, execs>>

\* GET /commands/:id reconciles the run before it answers about an accepted
\* receipt; an unconfirmed owner is not an error of the lookup.
Lookup(c) ==
    /\ LoopFree
    /\ phase[c] = "accepted"
    /\ IF \E s \in Cmd : Unconfirmed(s)
       THEN \E S \in SUBSET Settleable : ReleaseAndSettle(S)
       ELSE ReleaseAndSettle(Settleable)
    /\ UNCHANGED <<up, crashes, fence, proc, memory, stage, handlers, execs>>

\* The heartbeat drops an exited entry after its grace.
RegistryExpire(s) ==
    /\ LoopFree
    /\ s \in registry
    /\ ~LeaderRuns(s)
    /\ registry' = registry \ {s}
    /\ UNCHANGED <<up, crashes, durable, proc, stopping, evicted, observer, stage,
                   handlers, execs>>

-----------------------------------------------------------------------------
(* Processes, crashes and restarts.                                        *)

\* The gate received "execute" and became the adapter.
AdapterStarts(s) ==
    /\ proc[s] = "authorized"
    /\ proc' = [proc EXCEPT ![s] = "adapter"]
    /\ UNCHANGED <<up, crashes, durable, memory, stage, handlers, execs>>

\* The leader exits, by itself or by a signal; descendants may survive it.
LeaderExits(s) ==
    /\ LeaderRuns(s)
    /\ \/ proc' = [proc EXCEPT ![s] = "dead"]
       \/ proc[s] = "adapter" /\ proc' = [proc EXCEPT ![s] = "orphans"]
    /\ UNCHANGED <<up, crashes, durable, memory, stage, handlers, execs>>

GroupEnds(s) ==
    /\ proc[s] = "orphans"
    /\ proc' = [proc EXCEPT ![s] = "dead"]
    /\ UNCHANGED <<up, crashes, durable, memory, stage, handlers, execs>>

LoseMemory ==
    /\ crashes < MaxCrashes
    /\ crashes' = crashes + 1
    /\ up' = FALSE
    /\ registry' = {} /\ stopping' = {} /\ evicted' = {}
    /\ observer' = [c \in Cmd |-> "off"]
    /\ stage' = [c \in Cmd |-> "idle"]
    /\ pc' = [r \in Req |-> IF pc[r] = "new" THEN "new" ELSE "done"]
    /\ todo' = [r \in Req |-> {}]
    /\ cur' = [r \in Req |-> None]
    /\ UNCHANGED execs

\* Session groups are detached: they outlive the supervisor.
Crash == LoseMemory /\ UNCHANGED <<durable, proc>>

\* An OS reboot ends every process; releaseSessionProcessesFromPriorBoot, the
\* first thing the next boot does, releases every owner of the old boot.
OsReboot ==
    /\ LoseMemory
    /\ proc' = [s \in Cmd |-> IF proc[s] = "none" THEN "none" ELSE "dead"]
    /\ obligation' = [s \in Cmd |-> IF s \in Obliged THEN "released" ELSE "none"]
    /\ UNCHANGED <<fence, phase, body>>

\* seedMissingSessionProcesses: a create that left no obligation and no proof
\* that it did not start may own a process nobody knows.
OwnerUnknown(s) ==
    /\ Kind[s] = "create" /\ obligation[s] = "none"
    /\ phase[s] # "none" /\ body[s] # "not_started"

\* recoverAcceptedPromptReceipts: the accepted create of a pending process
\* becomes unsettled; accepted session commands whose process is not pending
\* are lost.
BootBody(ob, c) ==
    IF Kind[c] = "create"
    THEN IF ob[c] = "released" THEN "lost_terminated" ELSE "exit_unconfirmed"
    ELSE IF c \in OnSession /\ ob[Target[c]] \notin {"registered", "unproven"}
    THEN "turn_lost"
    ELSE body[c]

\* Opening the store seeds the missing owners; recoverSessionProcessesOnBoot
\* then releases what inspection proves, as far as it gets (it stops at an
\* unconfirmed owner and looks at 32 obligations only), before any request.
Boot ==
    /\ ~up
    /\ up' = TRUE
    /\ \E S \in SUBSET Settleable :
        obligation' = [s \in Cmd |-> IF s \in S THEN "released"
                                     ELSE IF OwnerUnknown(s) THEN "unproven"
                                     ELSE obligation[s]]
    /\ body' = [c \in Cmd |-> IF phase[c] = "accepted"
                              THEN BootBody(obligation', c) ELSE body[c]]
    /\ phase' = [c \in Cmd |->
                    IF phase[c] = "accepted"
                       /\ body'[c] \in {"turn_lost", "lost_terminated"}
                    THEN "rejected" ELSE phase[c]]
    /\ UNCHANGED <<crashes, fence, proc, memory, stage, handlers, execs>>

-----------------------------------------------------------------------------
Handle(r) ==
    \/ Refuse(r) \/ Arrive(r)
    \/ \E s \in Cmd : EvictSignal(r, s)
    \/ EvictConfirmed(r) \/ EvictTimeout(r)
    \/ \E s \in Cmd : ReconcilePass(r, s) \/ ReconcileOne(r, s)
    \/ ReconcileDone(r) \/ ReconcileRefused(r)
    \/ Replay(r) \/ TurnLost(r) \/ RunFresh(r) \/ AdmissionRefused(r)

Create(c) ==
    \/ CreateUnstarted(c) \/ Spawn(c) \/ SpawnUnregistered(c) \/ SpawnAborts(c)
    \/ Authorize(c) \/ GateFails(c) \/ ExecutionStarted(c)
    \/ HandshakeOk(c) \/ HandshakeFails(c) \/ CreateAborts(c)
    \/ TeardownConfirmed(c) \/ TeardownTimeout(c)
    \/ ObserveExit(c) \/ SettleRetiredCreate(c)

Run(c) ==
    \/ PromptEnds(c) \/ DeleteConfirmed(c) \/ DeleteSettles(c) \/ DeleteTimeout(c)
    \/ WorkEnds(c) \/ Lookup(c)

Os(s) ==
    \/ AdapterStarts(s) \/ LeaderExits(s) \/ GroupEnds(s) \/ RegistryExpire(s)

Next ==
    \/ \E r \in Req : Handle(r)
    \/ \E c \in Cmd : Create(c) \/ Run(c) \/ Os(c)
    \/ Crash \/ OsReboot \/ Boot

Spec == Init /\ [][Next]_vars

\* An accepted request is handled to its end: every await of a handler or of a
\* create is bounded by a timer.  A turn ends when its session's output ends.
\* The manager's recovery keeps asking about open commands.  Nothing makes a
\* process exit, a request arrive or the supervisor crash.
TurnCollapses(c) ==
    stage[c] = "turn" /\ ~LeaderRuns(Target[c]) /\ PromptEnds(c)

Fairness ==
    /\ WF_vars(Boot)
    /\ \A r \in Req : WF_vars(pc[r] # "new" /\ Handle(r))
    /\ \A c \in Cmd : /\ WF_vars(Create(c))
                      /\ WF_vars(TurnCollapses(c))
                      /\ WF_vars(Lookup(c))

LiveSpec == Spec /\ Fairness

-----------------------------------------------------------------------------
TypeOK ==
    /\ up \in BOOLEAN
    /\ crashes \in 0 .. MaxCrashes
    /\ fence.epoch \in Nat
    /\ phase \in [Cmd -> Phases]
    /\ body \in [Cmd -> Bodies]
    /\ obligation \in [Cmd -> {"none", "registered", "unproven", "released"}]
    /\ proc \in [Cmd -> Procs]
    /\ registry \in SUBSET Cmd /\ stopping \in SUBSET Cmd /\ evicted \in SUBSET Cmd
    /\ observer \in [Cmd -> {"off", "armed", "reading"}]
    /\ stage \in [Cmd -> Stages]
    /\ pc \in [Req -> {"new", "evict", "reconcile", "execute", "done"}]
    /\ todo \in [Req -> SUBSET Cmd]
    /\ cur \in [Req -> Cmd \cup {None}]
    /\ execs \in [Cmd -> Nat]

\* An agent process: the gate was told to execute, or what is left of it.
Agent(s) == proc[s] \in {"authorized", "adapter", "orphans"}

\* E-EH-05: a command id executes at most once per host, whatever is
\* redelivered, joined or lost in a crash.
AtMostOnce == \A c \in Cmd : execs[c] <= 1

\* Two agents of one run never run under different assignment epochs.
OneOwningEpoch ==
    \A s, t \in Cmd :
        Agent(s) /\ Agent(t) => Epoch[s] = Epoch[t]

\* A receipt that proves quiescence is about a session that has no process:
\* the manager may hand its workspace to a new create.
ProofMeansGone ==
    \A c \in Cmd : body[c] \in GoneBodies => proc[c] \in {"none", "dead"}

\* An agent process is always covered by a durable obligation, so no later
\* epoch can overlook it after a restart.
AgentIsObliged ==
    \A s \in Cmd : Agent(s) => obligation[s] = "registered"

\* An owner is released only when its group is gone, whichever of teardown,
\* delete, reconciliation, lookup, boot and reboot releases it: later epochs do
\* not look at a released owner again.
ReleasedIsGone ==
    \A s \in Cmd : obligation[s] = "released" => proc[s] \in {"none", "dead"}

\* E-EH-04: when a command begins to execute, no process of a lower epoch is
\* left.
ExecutesAfterRetirement ==
    [][\A c \in Cmd : execs'[c] # execs[c] =>
          \A s \in Cmd : Epoch[s] < Epoch[c] => ~Agent(s)]_vars

\* A receipt settled as lost whose turn this process still executes.
LostInFlight(c) == stage[c] = "turn" /\ phase[c] = "rejected"

\* A settled outcome stands, whatever is redelivered, reconciled, observed or
\* torn down later.  The one exception: a prompt settled as turn_lost in flight,
\* on the proof that its process is gone, may yet report the success its agent
\* answered before it died, and only while a delete of its session is at work.
OutcomeStands ==
    [][\A c \in Cmd :
          /\ phase[c] = "completed" => phase'[c] = "completed"
          /\ phase[c] = "rejected" /\ phase'[c] = "completed" =>
                /\ LostInFlight(c) /\ body[c] = "turn_lost"
                /\ obligation[Target[c]] = "released" /\ ~Agent(Target[c])
                /\ \E d \in Cmd : /\ Kind[d] = "delete" /\ phase[d] = "accepted"
                                  /\ Target[d] = Target[c]]_vars

\* Nobody waits for ever on a process that is gone: an accepted create or prompt
\* whose registered process group has retired is settled, across crashes,
\* evictions and teardowns, unless some owner of the run stays unconfirmed.
LostWorkSettles ==
    \A c \in Cmd :
        LET s == IF Kind[c] = "create" THEN c ELSE Target[c] IN
        Kind[c] \in {"create", "prompt"} =>
            (phase[c] = "accepted" /\ obligation[s] # "none" /\ Retired(s)
                ~> Terminal(c) \/ \E t \in Cmd : Unconfirmed(t))

\* The promise behind the receipts.  A create whose exit is unconfirmed can only
\* fail, though its receipt is still accepted; a turn lost in flight may still
\* end, though its receipt is rejected.
Outcome(c) ==
    IF phase[c] = "none" THEN "none"
    ELSE IF phase[c] = "completed" THEN "succeeded"
    ELSE IF LostInFlight(c) THEN "lost"
    ELSE IF phase[c] = "rejected" \/ body[c] = "exit_unconfirmed" THEN "failed"
    ELSE "running"

Prompts == {c \in Cmd : Kind[c] = "prompt"}

Owner == INSTANCE RunOwner WITH Turns <- Prompts,
                                outcome <- [c \in Cmd |-> Outcome(c)],
                                agents <- {s \in Cmd : Agent(s)}

\* The host implements exclusive ownership of the run: at-most-once begin and
\* settlement, no begin before the older agents are gone, no agent of a
\* superseded create.  Only a prompt may be settled once more, by the end of the
\* turn that was taken for lost.
RefinesRunOwner == Owner!Spec

-----------------------------------------------------------------------------
(* The inductive strengthening of the invariants above.                    *)

CreateStages == {"prep", "gate", "handshake", "gate_teardown", "acp_teardown"}

ExecutedIffReceipt ==
    \A c \in Cmd : execs[c] = IF phase[c] = "none" THEN 0 ELSE 1

\* What a receipt can say while its command is at a stage.
StageInv ==
    \A c \in Cmd :
        /\ stage[c] = "prep" => /\ phase[c] = "accepted" /\ body[c] = "pending"
                                /\ proc[c] = "none" /\ obligation[c] = "none"
        /\ stage[c] \in CreateStages =>
              Kind[c] = "create" /\ phase[c] \in {"accepted", "rejected"}
        /\ stage[c] = "turn" =>
              Kind[c] = "prompt" /\ phase[c] \in {"accepted", "rejected"}
        /\ stage[c] \in {"killing", "settling"} =>
              Kind[c] = "delete" /\ phase[c] = "accepted"
        /\ stage[c] = "work" => Kind[c] = "work" /\ phase[c] = "accepted"
        /\ body[c] = "exit_unconfirmed" => stage[c] = "idle"

\* A supervisor that is down executes nothing.
DownInv == ~up => \A c \in Cmd : stage[c] = "idle"

\* The creates that an observer, or a delete, is about to settle.
SettlingInv ==
    \A c \in Cmd :
        /\ observer[c] = "reading" => /\ phase[c] \in {"accepted", "rejected"}
                               /\ stage[c] = "idle"
        /\ stage[c] = "settling" =>
              /\ phase[Target[c]] \in {"accepted", "rejected"}
              /\ stage[Target[c]] = "idle"
              /\ Retired(Target[c])

ProcessInv ==
    \A s \in Cmd :
        /\ proc[s] # "none" => phase[s] # "none"
        /\ obligation[s] # "none" => Kind[s] = "create" /\ phase[s] # "none"
        /\ stage[s] = "gate" /\ proc[s] = "gate" =>
              obligation[s] = "registered" /\ phase[s] = "accepted"

FenceInv ==
    /\ \A c \in Cmd : phase[c] # "none" => Epoch[c] <= fence.epoch
    /\ \A r \in Req : pc[r] \notin {"new", "done"} => Epoch[CmdOf[r]] <= fence.epoch

OneRunsInLoop ==
    \A q, r \in Req : pc[q] = "execute" /\ pc[r] = "execute" => q = r

\* What a handler has established about the older owners.
LowerLive(c) == {s \in registry : LeaderRuns(s) /\ Epoch[s] < Epoch[c]}
LowerAgents(c) == {s \in Cmd : Agent(s) /\ Epoch[s] < Epoch[c]}
HandlerInv ==
    \A r \in Req :
        /\ pc[r] = "evict" => LowerLive(CmdOf[r]) \subseteq todo[r]
        /\ pc[r] = "reconcile" =>
              /\ LowerLive(CmdOf[r]) = {}
              /\ LowerAgents(CmdOf[r]) \subseteq todo[r]
              /\ todo[r] \subseteq Obliged
        /\ pc[r] = "execute" /\ ~Terminal(CmdOf[r]) => LowerAgents(CmdOf[r]) = {}

\* Once a command executed, no agent of a lower epoch is left or starts again.
OwnerInv == \A c \in Cmd : phase[c] # "none" => LowerAgents(c) = {}

\* A turn is settled in flight only as lost, with its released process.
LostTurnInv ==
    \A c \in Cmd : LostInFlight(c) =>
        body[c] = "turn_lost" /\ obligation[Target[c]] = "released"

ReceiptInv == ExecutedIffReceipt /\ StageInv /\ DownInv /\ SettlingInv
OwnershipInv == ProcessInv /\ ReleasedIsGone /\ AgentIsObliged /\ ProofMeansGone
TakeoverInv == FenceInv /\ OneRunsInLoop /\ HandlerInv /\ OwnerInv
IInv == TypeOK /\ ReceiptInv /\ OwnershipInv /\ TakeoverInv /\ LostTurnInv
=============================================================================
