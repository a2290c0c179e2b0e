---------------------------- MODULE CommandLedger ----------------------------
(***************************************************************************)
(* The manager's side of the command plane: the execution_commands ledger  *)
(* (web/lib/execution-host/commands.ts), the deliverer of the immediate    *)
(* kinds (deliverer.ts), the recovery pass that runs at startup and        *)
(* periodically (recovery.ts), and the message a steer carries             *)
(* (steer-settlement.ts).                                                  *)
(*                                                                         *)
(* Every ledger write is one transaction with a compare-and-swap on the    *)
(* row; the driver and the pass hold what they read before across awaits.  *)
(* The host is what this code can observe of it: a receipt per command and *)
(* an answer per request (SessionOwnership is its own specification).      *)
(***************************************************************************)
EXTENDS Naturals, FiniteSets

CONSTANTS
    Cmd,          \* command ids
    Class,        \* Class[c]: how a kind is delivered and recovered
    MaxAttempts,  \* COMMAND_POLICY[kind].maxAttempts
    Periodic,     \* the periodic pass runs, not only the one at startup
    MaxCrashes,   \* bound: manager crashes
    MaxRestarts,  \* bound: host restarts
    NoRow,        \* a page that does not hold the command
    None          \* no command

\* create: session.create without a retained intent; driverless:
\* session.delete and workspace.release; steer: session.steer; driven:
\* workspace.adopt, session.cancel and session.checkpoint, whose driver waits
\* for the answer.
Classes == {"create", "driven", "driverless", "steer"}

ASSUME LedgerAssumption ==
    /\ Class \in [Cmd -> Classes]
    /\ MaxAttempts \in Nat \ {0}
    /\ Periodic \in BOOLEAN
    /\ MaxCrashes \in Nat
    /\ MaxRestarts \in Nat
    /\ None \notin Cmd

VARIABLES
    row,          \* execution_commands.state, "none" before the insert
    attempts,     \* execution_commands.attempts
    msg,          \* the steer's message: dispatched, applied or converted
    bound,        \* commands whose result-derived domain write committed
    mgr,          \* "starting" (the startup pass runs) or "serving"
    driver,       \* where deliverCommand is, "none" when nobody delivers
    try,          \* deliverCommand's own copy of the attempt number
    pass,         \* the recovery pass is running
    page,         \* the open rows the pass loaded, and has still to take up
    at,           \* the command the pass is working on
    step,         \* what the pass does with it
    seen,         \* the receipt the pass read
    wire,         \* requests the host has not looked at yet
    conn,         \* requests the host answers when the command settles
    host,         \* the host's receipt
    crashes,      \* manager crashes so far
    restarts      \* host restarts so far

ledger == <<row, attempts, msg, bound>>
delivery == <<driver, try>>
recovery == <<pass, page, at, step, seen>>
network == <<wire, conn, host>>
bounds == <<crashes, restarts>>
vars == <<ledger, mgr, delivery, recovery, network, bounds>>

OpenStates == {"queued", "delivering"}
TerminalStates == {"succeeded", "failed", "fenced"}
Snapshot == [state : OpenStates, attempts : Nat]
Receipts == {"none", "running", "lost", "completed", "rejected", "fenced"}

Init ==
    /\ row = [c \in Cmd |-> "none"]
    /\ attempts = [c \in Cmd |-> 0]
    /\ msg = [c \in Cmd |-> "dispatched"]
    /\ bound = {}
    /\ mgr = "serving"
    /\ driver = [c \in Cmd |-> "none"]
    /\ try = [c \in Cmd |-> 0]
    /\ pass = FALSE
    /\ page = [c \in Cmd |-> NoRow]
    /\ at = None
    /\ step = "idle"
    /\ seen = "none"
    /\ wire = [c \in Cmd |-> {}]
    /\ conn = [c \in Cmd |-> {}]
    /\ host = [c \in Cmd |-> "none"]
    /\ crashes = 0
    /\ restarts = 0

-----------------------------------------------------------------------------
(* Ledger transitions (casTransition): each is a compare-and-swap on the   *)
(* row's state and, for a driver, on the attempt number.                   *)

Open(c) == row[c] \in OpenStates

\* markSucceeded, markFailed, markFenced.  A steer's message is settled in the
\* transaction whose ledger write landed (settleSteerCommand).
Close(c, s) ==
    /\ row' = [row EXCEPT ![c] = s]
    /\ msg' = [msg EXCEPT ![c] =
                  IF Class[c] # "steer" \/ @ # "dispatched" THEN @
                  ELSE IF s = "succeeded" THEN "applied" ELSE "converted"]

\* Mutant: the message is settled though the ledger write did not land.
CloseAnyway(landed, c, s) ==
    /\ row' = IF landed THEN [row EXCEPT ![c] = s] ELSE row
    /\ msg' = [msg EXCEPT ![c] = IF s = "succeeded" THEN "applied" ELSE "converted"]

CloseIf(landed, c, s) ==
    IF landed THEN Close(c, s) ELSE UNCHANGED <<row, msg>>

\* The result-derived write of an acknowledgement (applyCreateAck,
\* setAssignmentWorkspace), made whether or not the ledger write landed.  The
\* other kinds have none, and a create's may find its session binding stale.
Bind(c) ==
    \/ UNCHANGED bound
    \/ Class[c] \in {"create", "driven"} /\ bound' = bound \cup {c}

\* claimDelivering and the wire call that follows it.
Claim(c, n) ==
    /\ row' = [row EXCEPT ![c] = "delivering"]
    /\ attempts' = [attempts EXCEPT ![c] = n + 1]
    /\ driver' = [driver EXCEPT ![c] = "sent"]
    /\ try' = [try EXCEPT ![c] = n + 1]
    /\ wire' = [wire EXCEPT ![c] = @ \cup {n + 1}]

Claimable(c, n) == row[c] = "queued" /\ attempts[c] = n

-----------------------------------------------------------------------------
(* issueCommand and deliverCommand.                                        *)

\* The row exists before any wire call.
Issue(c) ==
    /\ mgr = "serving"
    /\ row[c] = "none"
    /\ row' = [row EXCEPT ![c] = "queued"]
    /\ driver' = [driver EXCEPT ![c] = "claim"]
    /\ UNCHANGED <<attempts, msg, bound, mgr, try, recovery, network, bounds>>

\* command-fenced-locally: the assignment does not admit the kind.  A steer is
\* admitted in the transaction that reads its assignment.
FenceLocally(c) ==
    /\ driver[c] = "claim" /\ try[c] = 0
    /\ Class[c] # "steer"
    /\ CloseIf(Open(c), c, "fenced")
    /\ driver' = [driver EXCEPT ![c] = "none"]
    /\ UNCHANGED <<attempts, bound, mgr, try, recovery, network, bounds>>

Deliver(c) ==
    /\ driver[c] = "claim"
    /\ Claimable(c, try[c])
    /\ Claim(c, try[c])
    /\ UNCHANGED <<msg, bound, mgr, recovery, conn, host, bounds>>

\* command_not_claimable: the caller is told, the row is somebody else's.
NotClaimable(c) ==
    /\ driver[c] = "claim"
    /\ ~Claimable(c, try[c])
    /\ driver' = [driver EXCEPT ![c] = "none"]
    /\ UNCHANGED <<ledger, mgr, try, recovery, network, bounds>>

\* Mutant: any receipt is taken for a success.
AcknowledgeEarly(c) ==
    /\ driver[c] = "sent"
    /\ try[c] \in conn[c]
    /\ CloseIf(row[c] = "delivering" /\ attempts[c] = try[c], c, "succeeded")
    /\ Bind(c)
    /\ driver' = [driver EXCEPT ![c] = "none"]
    /\ UNCHANGED <<attempts, mgr, try, recovery, network, bounds>>

Acknowledge(c) ==
    /\ driver[c] = "sent"
    /\ try[c] \in conn[c]
    /\ host[c] = "completed"
    /\ CloseIf(row[c] = "delivering" /\ attempts[c] = try[c], c, "succeeded")
    /\ Bind(c)
    /\ driver' = [driver EXCEPT ![c] = "none"]
    /\ UNCHANGED <<attempts, mgr, try, recovery, network, bounds>>

\* terminalWithRejection: the definitive refusal of the receipt.
Rejected(c) ==
    /\ driver[c] = "sent"
    /\ try[c] \in conn[c]
    /\ host[c] \in {"rejected", "fenced"}
    /\ CloseIf(Open(c) /\ attempts[c] = try[c], c,
               IF host[c] = "fenced" THEN "fenced" ELSE "failed")
    /\ driver' = [driver EXCEPT ![c] = "none"]
    /\ UNCHANGED <<attempts, bound, mgr, try, recovery, network, bounds>>

\* Mutant: the late refusal of an attempt overwrites the row.
RefusedLate(c) ==
    /\ driver[c] = "refused"
    /\ CloseIf(attempts[c] = try[c], c, "failed")
    /\ driver' = [driver EXCEPT ![c] = "none"]
    /\ UNCHANGED <<attempts, bound, mgr, try, recovery, network, bounds>>

\* The same for a refusal that left no receipt: the fence, storage or outbox
\* pressure, a session the host does not know.
Refused(c) ==
    /\ driver[c] = "refused"
    /\ \E s \in {"failed", "fenced"} :
          CloseIf(Open(c) /\ attempts[c] = try[c], c, s)
    /\ driver' = [driver EXCEPT ![c] = "none"]
    /\ UNCHANGED <<attempts, bound, mgr, try, recovery, network, bounds>>

\* Mutant: a row that is left to the pass is never exhausted.
ExhaustedDriven(c) == Class[c] # "driverless" /\ try[c] >= MaxAttempts

\* failRetryable's budget test.
Exhausted(c) == try[c] >= MaxAttempts

\* No answer, in the time the kind allows.  An exhausted steer stays open for
\* the receipt fold; a driverless row is left to the pass; anything else is
\* tried again by the waiting driver after a backoff.
Unknown(c) ==
    LET mine == row[c] = "delivering" /\ attempts[c] = try[c] IN
    /\ driver[c] = "sent"
    /\ IF Exhausted(c)
       THEN /\ CloseIf(Class[c] # "steer" /\ Open(c) /\ attempts[c] = try[c],
                       c, "failed")
            /\ driver' = [driver EXCEPT ![c] = "none"]
       ELSE /\ row' = IF mine THEN [row EXCEPT ![c] = "queued"] ELSE row
            /\ driver' = [driver EXCEPT
                             ![c] = IF Class[c] = "driverless" THEN "none" ELSE "claim"]
            /\ UNCHANGED msg
    /\ UNCHANGED <<attempts, bound, mgr, try, recovery, network, bounds>>

\* SessionInventoryPending: the host could not list the run's sessions, so the
\* create was not posted; the row goes back to queued and the driver gives up.
Deferred(c) ==
    /\ Class[c] = "create"
    /\ driver[c] = "sent"
    /\ try[c] \in wire[c]
    /\ wire' = [wire EXCEPT ![c] = @ \ {try[c]}]
    /\ row' = IF row[c] = "delivering" /\ attempts[c] = try[c]
              THEN [row EXCEPT ![c] = "queued"] ELSE row
    /\ driver' = [driver EXCEPT ![c] = "none"]
    /\ UNCHANGED <<attempts, msg, bound, mgr, try, recovery, conn, host, bounds>>

-----------------------------------------------------------------------------
(* recoverExecutionCommands.                                               *)

\* One pass at a time; it loads the open rows and works through the copies.
PassStarts ==
    /\ ~pass
    /\ mgr = "starting" \/ Periodic
    /\ pass' = TRUE
    /\ page' = [c \in Cmd |-> IF Open(c)
                              THEN [state |-> row[c], attempts |-> attempts[c]]
                              ELSE NoRow]
    /\ UNCHANGED <<ledger, mgr, delivery, at, step, seen, network, bounds>>

PassEnds ==
    /\ pass
    /\ at = None
    /\ \A c \in Cmd : page[c] = NoRow
    /\ pass' = FALSE
    /\ mgr' = "serving"
    /\ UNCHANGED <<ledger, delivery, page, at, step, seen, network, bounds>>

\* The attempt that the copy shows, or the one about to be made.
ShownAttempt(c) ==
    IF page[c].state = "queued" THEN page[c].attempts + 1 ELSE page[c].attempts

\* ageMs(row) >= graceMs, computed from the copy.  The grace is 0 at startup.
\* Otherwise it is longer than any send but a create's, so a driver that is
\* still at work has gone on to a later attempt.
Aged(c) ==
    \/ mgr = "starting"
    \/ driver[c] = "none"
    \/ try[c] > ShownAttempt(c)
    \/ Class[c] = "create" /\ try[c] = ShownAttempt(c)

Free(c) == at = None /\ page[c] # NoRow
Done(c) == page' = [page EXCEPT ![c] = NoRow]

TooFresh(c) ==
    /\ Free(c)
    /\ mgr = "serving"
    /\ Done(c)
    /\ UNCHANGED <<ledger, mgr, delivery, pass, at, step, seen, network, bounds>>

\* A steer that went back to queued after an unknown outcome.
AttemptedSteer(c) == Class[c] = "steer" /\ page[c].attempts > 0

\* orphan: only the driverless kinds are sent again; the rest fail, in
\* whatever open state the row is by now.
Orphan(c) ==
    /\ Free(c) /\ Aged(c)
    /\ page[c].state = "queued" /\ ~AttemptedSteer(c)
    /\ Class[c] # "driverless"
    /\ CloseIf(Open(c), c, "failed")
    /\ Done(c)
    /\ UNCHANGED <<attempts, bound, mgr, delivery, pass, at, step, seen, network,
                   bounds>>

Redeliver(c) ==
    /\ Free(c) /\ Aged(c)
    /\ page[c].state = "queued"
    /\ Class[c] = "driverless"
    /\ IF Claimable(c, page[c].attempts)
       THEN /\ Claim(c, page[c].attempts)
            /\ at' = c /\ step' = "deliver"
            /\ UNCHANGED page
       ELSE Done(c) /\ UNCHANGED <<row, attempts, delivery, wire, at, step>>
    /\ UNCHANGED <<msg, bound, mgr, pass, seen, conn, host, bounds>>

\* Claimed back to delivering, so that the live driver cannot claim it while
\* its receipt is folded.
ReclaimSteer(c) ==
    /\ Free(c) /\ Aged(c)
    /\ page[c].state = "queued" /\ AttemptedSteer(c)
    /\ IF Claimable(c, page[c].attempts)
       THEN /\ row' = [row EXCEPT ![c] = "delivering"]
            /\ at' = c /\ step' = "lookup"
            /\ UNCHANGED page
       ELSE Done(c) /\ UNCHANGED <<row, at, step>>
    /\ UNCHANGED <<attempts, msg, bound, mgr, delivery, pass, seen, network, bounds>>

TakeDelivering(c) ==
    /\ Free(c) /\ Aged(c)
    /\ page[c].state = "delivering"
    /\ at' = c /\ step' = "lookup"
    /\ UNCHANGED <<ledger, mgr, delivery, pass, page, seen, network, bounds>>

Leave(c) == Done(c) /\ at' = None /\ step' = "idle" /\ seen' = "none"

\* The host is unreachable: the row stays for the next pass.
LookupFails(c) ==
    /\ at = c /\ step = "lookup"
    /\ Leave(c)
    /\ UNCHANGED <<ledger, mgr, delivery, pass, network, bounds>>

\* Mutant: a row without a receipt is left as it is.
LookupMissesLeaves(c) ==
    /\ at = c /\ step = "lookup"
    /\ host[c] = "none"
    /\ Leave(c)
    /\ UNCHANGED <<ledger, mgr, delivery, pass, network, bounds>>

\* No receipt: requeueDelivering, then as a queued row.
LookupMisses(c) ==
    /\ at = c /\ step = "lookup"
    /\ host[c] = "none"
    /\ IF row[c] = "delivering"
       THEN /\ row' = [row EXCEPT ![c] = "queued"]
            /\ page' = [page EXCEPT ![c] = [state |-> "queued",
                                            attempts |-> attempts[c]]]
            /\ step' = "requeued"
            /\ UNCHANGED <<at, seen>>
       ELSE Leave(c) /\ UNCHANGED row
    /\ UNCHANGED <<attempts, msg, bound, mgr, delivery, pass, network, bounds>>

RedeliverRequeued(c) ==
    /\ at = c /\ step = "requeued"
    /\ Class[c] = "driverless"
    /\ IF Claimable(c, page[c].attempts)
       THEN Claim(c, page[c].attempts) /\ step' = "deliver" /\ UNCHANGED <<page, at, seen>>
       ELSE Leave(c) /\ UNCHANGED <<row, attempts, delivery, wire>>
    /\ UNCHANGED <<msg, bound, mgr, pass, conn, host, bounds>>

OrphanRequeued(c) ==
    /\ at = c /\ step = "requeued"
    /\ Class[c] # "driverless"
    /\ CloseIf(Open(c), c, "failed")
    /\ Leave(c)
    /\ UNCHANGED <<attempts, bound, mgr, delivery, pass, network, bounds>>

LookupFinds(c) ==
    /\ at = c /\ step = "lookup"
    /\ host[c] # "none"
    /\ seen' = host[c]
    /\ step' = "fold"
    /\ UNCHANGED <<ledger, mgr, delivery, pass, page, at, network, bounds>>

\* foldReceipt, completed: markSucceeded without an attempt number, and the
\* domain writes of the lost acknowledgement.
FoldCompleted(c) ==
    /\ at = c /\ step = "fold"
    /\ seen = "completed"
    /\ CloseIf(row[c] = "delivering", c, "succeeded")
    /\ Bind(c)
    /\ Leave(c)
    /\ UNCHANGED <<attempts, mgr, delivery, pass, network, bounds>>

\* A rejected receipt, or an accepted one that nobody executes any more; a
\* create's is never abandoned.
FoldRejected(c) ==
    /\ at = c /\ step = "fold"
    /\ \/ seen \in {"rejected", "fenced"}
       \/ seen = "lost" /\ Class[c] # "create"
    /\ CloseIf(Open(c), c, IF seen = "fenced" THEN "fenced" ELSE "failed")
    /\ Leave(c)
    /\ UNCHANGED <<attempts, bound, mgr, delivery, pass, network, bounds>>

FoldInFlight(c) ==
    /\ at = c /\ step = "fold"
    /\ \/ seen = "running"
       \/ seen = "lost" /\ Class[c] = "create"
    /\ Leave(c)
    /\ UNCHANGED <<ledger, mgr, delivery, pass, network, bounds>>

\* The redelivery the pass waited for has ended, one way or another.
RedeliveryEnds(c) ==
    /\ at = c /\ step = "deliver"
    /\ driver[c] = "none"
    /\ Leave(c)
    /\ UNCHANGED <<ledger, mgr, delivery, pass, network, bounds>>

-----------------------------------------------------------------------------
(* The host, as the manager sees it, and the crashes.                      *)

\* A definitive refusal before any receipt is written.
HostRefuses(c, n) ==
    /\ n \in wire[c]
    /\ wire' = [wire EXCEPT ![c] = @ \ {n}]
    /\ driver' = [driver EXCEPT ![c] = IF @ = "sent" /\ try[c] = n
                                       THEN "refused" ELSE @]
    /\ UNCHANGED <<ledger, mgr, try, recovery, conn, host, bounds>>

\* The first request executes; a later one joins it or is answered from the
\* receipt; an accepted receipt nobody executes is settled as lost, unless it
\* is a create's, which waits for its process.
HostAdmits(c, n) ==
    /\ n \in wire[c]
    /\ wire' = [wire EXCEPT ![c] = @ \ {n}]
    /\ conn' = [conn EXCEPT ![c] = @ \cup {n}]
    /\ host' = [host EXCEPT ![c] = IF @ = "none" THEN "running"
                                   ELSE IF @ = "lost" /\ Class[c] # "create"
                                   THEN "rejected" ELSE @]
    /\ UNCHANGED <<ledger, mgr, delivery, recovery, bounds>>

\* The execution ends with an outcome, or leaves its receipt accepted: a create
\* whose exit is unconfirmed, or an error that is not a SupervisorError.
HostEnds(c) ==
    /\ host[c] = "running"
    /\ \E h \in {"completed", "rejected", "fenced", "lost"} :
          host' = [host EXCEPT ![c] = h]
    /\ UNCHANGED <<ledger, mgr, delivery, recovery, wire, conn, bounds>>

\* A create left unsettled is rejected when its process has retired.
HostSettlesCreate(c) ==
    /\ host[c] = "lost"
    /\ Class[c] = "create"
    /\ host' = [host EXCEPT ![c] = "rejected"]
    /\ UNCHANGED <<ledger, mgr, delivery, recovery, wire, conn, bounds>>

\* The requests die with the host's sockets, and the receipts of what it ran
\* stay accepted with nobody executing them.
HostRestarts ==
    /\ restarts < MaxRestarts
    /\ restarts' = restarts + 1
    /\ host' = [c \in Cmd |-> IF host[c] = "running" THEN "lost" ELSE host[c]]
    /\ wire' = [c \in Cmd |-> {}]
    /\ conn' = [c \in Cmd |-> {}]
    /\ UNCHANGED <<ledger, mgr, delivery, recovery, crashes>>

\* Drivers and the pass are gone; requests already sent are not.
ManagerCrash ==
    /\ crashes < MaxCrashes
    /\ crashes' = crashes + 1
    /\ mgr' = "starting"
    /\ driver' = [c \in Cmd |-> "none"]
    /\ pass' = FALSE
    /\ page' = [c \in Cmd |-> NoRow]
    /\ at' = None /\ step' = "idle" /\ seen' = "none"
    /\ UNCHANGED <<ledger, try, network, restarts>>

-----------------------------------------------------------------------------
Drive(c) ==
    \/ Issue(c) \/ FenceLocally(c) \/ Deliver(c) \/ NotClaimable(c)
    \/ Acknowledge(c) \/ Rejected(c) \/ Refused(c) \/ Unknown(c) \/ Deferred(c)

TakeUp(c) == Orphan(c) \/ Redeliver(c) \/ ReclaimSteer(c) \/ TakeDelivering(c)

Settle(c) ==
    \/ LookupMisses(c) \/ LookupFinds(c)
    \/ RedeliverRequeued(c) \/ OrphanRequeued(c)
    \/ FoldCompleted(c) \/ FoldRejected(c) \/ FoldInFlight(c)
    \/ RedeliveryEnds(c)

Recover(c) == TooFresh(c) \/ TakeUp(c) \/ LookupFails(c) \/ Settle(c)

HostStep(c) ==
    \/ \E n \in wire[c] : HostRefuses(c, n) \/ HostAdmits(c, n)
    \/ HostEnds(c) \/ HostSettlesCreate(c)

Next ==
    \/ \E c \in Cmd : Drive(c) \/ Recover(c) \/ HostStep(c)
    \/ PassStarts \/ PassEnds \/ HostRestarts \/ ManagerCrash

Spec == Init /\ [][Next]_vars

\* Every send has a timeout and the pass is scheduled for ever.  The host
\* ends what it runs; nothing makes it settle a create it lost, whose process
\* may live on.  A row nobody touches ages past the grace, and the host is
\* reachable again and again, so a row is taken up and its lookup answered
\* though any one try may be skipped or fail.
Fairness ==
    /\ WF_vars(PassStarts) /\ WF_vars(PassEnds)
    /\ \A c \in Cmd :
        /\ WF_vars(row[c] # "none" /\ Drive(c))
        /\ WF_vars(HostEnds(c)) /\ WF_vars(Recover(c))
        /\ SF_vars(TakeUp(c))
        /\ SF_vars(Settle(c))

LiveSpec == Spec /\ Fairness

-----------------------------------------------------------------------------
TypeOK ==
    /\ row \in [Cmd -> {"none"} \cup OpenStates \cup TerminalStates]
    /\ attempts \in [Cmd -> Nat]
    /\ msg \in [Cmd -> {"dispatched", "applied", "converted"}]
    /\ bound \in SUBSET Cmd
    /\ mgr \in {"starting", "serving"}
    /\ driver \in [Cmd -> {"none", "claim", "sent", "refused"}]
    /\ try \in [Cmd -> Nat]
    /\ pass \in BOOLEAN
    /\ page \in [Cmd -> Snapshot \cup {NoRow}]
    /\ at \in Cmd \cup {None}
    /\ step \in {"idle", "lookup", "requeued", "fold", "deliver"}
    /\ seen \in Receipts
    /\ wire \in [Cmd -> SUBSET Nat]
    /\ conn \in [Cmd -> SUBSET Nat]
    /\ host \in [Cmd -> Receipts]
    /\ crashes \in 0 .. MaxCrashes
    /\ restarts \in 0 .. MaxRestarts

\* A steer's message never lags its command, whichever of the driver and the
\* pass closes the row: it is applied exactly with a success, converted exactly
\* with a refusal, and open as long as the row is.
MessageFollowsLedger ==
    \A c \in Cmd : Class[c] = "steer" =>
        msg[c] = IF row[c] = "succeeded" THEN "applied"
                 ELSE IF row[c] \in TerminalStates THEN "converted"
                 ELSE "dispatched"

\* The ledger reports a success, and the write derived from a result is made,
\* only of a command the host completed, whatever late answers, stale pages and
\* stale receipts are applied.
SuccessIsHosts ==
    \A c \in Cmd : row[c] = "succeeded" \/ c \in bound => host[c] = "completed"

\* The delivery budget: only a manager that dies in the middle of a send costs
\* an attempt beyond it, although the pass delivers a driverless row again from
\* a page that may be stale (failRetryable, redeliver).
AttemptBudget == \A c \in Cmd : attempts[c] <= MaxAttempts + crashes

\* A signal that arrives for a closed row changes nothing.
ClosedStays ==
    [][\A c \in Cmd : row[c] \in TerminalStates => row'[c] = row[c]
                                                   /\ attempts'[c] = attempts[c]]_vars

\* Every issued command is settled in the end: no unknown outcome, crash or
\* restart leaves a row open for ever, except that of a create whose receipt the
\* host keeps unsettled.
LedgerCloses ==
    \A c \in Cmd :
        Open(c) ~> (\/ row[c] \in TerminalStates
                    \/ Class[c] = "create" /\ host[c] = "lost")

\* recovery.ts on orphans: a converted message was not injected.
ConvertedNotInjected ==
    \A c \in Cmd : Class[c] = "steer" /\ msg[c] = "converted" => host[c] # "completed"

-----------------------------------------------------------------------------
(* The inductive strengthening of the invariants above.                    *)

\* A receipt the pass holds is not older than the outcome it reports.
FoldInv ==
    /\ step = "fold" => at \in Cmd
    /\ step = "fold" /\ seen = "completed" => host[at] = "completed"

\* A command that was not issued has left no trace.
FreshInv ==
    \A c \in Cmd : row[c] = "none" =>
        /\ attempts[c] = 0 /\ try[c] = 0 /\ driver[c] = "none"
        /\ page[c] = NoRow /\ at # c

RetryInv == \A c \in Cmd : driver[c] = "claim" => try[c] < MaxAttempts

\* A driverless command has one deliverer at a time, and a row that is waiting
\* for one has an attempt left.
SoleDelivererInv ==
    \A c \in Cmd : Class[c] = "driverless" =>
        /\ driver[c] \in {"sent", "refused"} =>
              row[c] = "delivering" /\ attempts[c] = try[c]
        /\ driver[c] = "claim" =>
              row[c] = "queued" /\ attempts[c] = 0 /\ try[c] = 0
        /\ driver[c] = "none" /\ Open(c) => attempts[c] < MaxAttempts + crashes
        /\ driver[c] = "claim" /\ page[c] # NoRow => page[c].state = "queued"
        /\ driver[c] # "none" /\ page[c] # NoRow /\ at # c => try[c] <= ShownAttempt(c)
        /\ at = c /\ step # "deliver" => driver[c] = "none"

\* While the startup pass runs, only it delivers.
StartupInv ==
    mgr = "starting" => \A c \in Cmd : driver[c] # "none" => at = c /\ step = "deliver"

BudgetInv == FreshInv /\ RetryInv /\ SoleDelivererInv /\ StartupInv /\ AttemptBudget
LedgerInv == TypeOK /\ MessageFollowsLedger /\ SuccessIsHosts /\ FoldInv /\ BudgetInv
=============================================================================
