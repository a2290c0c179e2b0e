----------------------------- MODULE PromptTurn -----------------------------
(***************************************************************************)
(* One prompt on the manager's side: its dispatch                          *)
(* (web/lib/execution-host/deliverer.ts, startAsyncPrompt), the evidence   *)
(* that settles it (prompt-evidence.ts: the host's receipt and its         *)
(* terminal event, which arrive in any order and by several feeds), the    *)
(* readers that look for evidence (prompt-reconciliation.ts; waiters and   *)
(* the recovery pass of recovery.ts) and the application of the outcome to *)
(* its owner under a lease (prompt-owner-application.ts).                  *)
(*                                                                         *)
(* Every database transaction is one step and every network call lies      *)
(* between two.  The host keeps a receipt per command id and executes it   *)
(* once, but may settle it twice: as lost while its turn is in flight, and *)
(* again when the turn ends (SessionOwnership); its events arrive once and *)
(* in order (EventPlane).  An answer that breaks the protocol otherwise is *)
(* left out.                                                               *)
(***************************************************************************)
EXTENDS Naturals, FiniteSets

CONSTANTS
    Callers,      \* drivers, waiters and passes of the web process
    Client,       \* the caller that issued the prompt and dispatches it
    Readers,      \* the callers that look for evidence: waiters and passes
    Passes,       \* the readers that are recovery passes
    Appliers,     \* slots of the owner worker, waiters that apply
    MaxAttempts,  \* the outbound budget of the command
    ExtraAttempts,\* what a repair adds to it
    MaxFailures,  \* MAX_FAILURES of an owner application
    MaxEvents,    \* bound: crashes, pauses, unreachable reads, deferrals,
                  \* and repairs of an operator, together
    Nobody        \* no claim

ASSUME PromptAssumption ==
    /\ Client \in Callers
    /\ Readers \subseteq Callers /\ Passes \subseteq Readers
    /\ MaxAttempts \in Nat \ {0}
    /\ ExtraAttempts \in Nat
    /\ MaxFailures \in Nat \ {0}
    /\ MaxEvents \in Nat
    /\ Nobody \notin Callers \cup Appliers

VARIABLES
    host,       \* the host's receipt, "none" without one, as first settled
    turn,       \* "own" when that is the turn's end, "lost" when the turn may
                \* still end, then the end that replaced the receipt
    signals,    \* the span of the completed turn holds events the flow
                \* consumer reacts to
    wire,       \* attempts whose request is still on its way
    log,        \* events of the command ingested or skipped: 1 is accepted,
                \* 2 the terminal, 3 the one that replaced it
    skipped,    \* the events that went to the skip ledger
    cursor,     \* the last event the prompt projector has projected
    state,      \* execution_commands.state
    attempts,   \* attempts
    budget,     \* max_attempts
    transport,  \* transport_state
    sends,      \* history: dispatches of the command
    timer,      \* whose claim next_attempt_at is, Nobody for a mere delay
    due,        \* next_attempt_at is null or past
    receipt,    \* receipt_evidence
    bound,      \* the event terminal_event_id names, 0 for none
    settled,    \* settled_from, "no" without terminal_evidence_sha256
    local,      \* why the manager itself failed the row: unsent or refused
    conflict,   \* application_error says prompt_terminal_conflict
    app,        \* application_state
    owner,      \* application_claim_owner
    leased,     \* application_claim_expires_at lies ahead
    failures,   \* application_attempts
    applied,    \* history: domain applications of the outcome
    caller,     \* what each caller is doing
    applier,    \* what each applier is doing
    faults, repairs

outside == <<host, turn, signals, wire>>
feed == <<log, skipped, cursor>>
dispatch == <<attempts, budget, sends>>
clock == <<timer, due>>
evidence == <<receipt, bound, settled>>
claim == <<owner, leased>>
application == <<app, claim, failures, applied>>
bounds == <<faults, repairs>>
vars == <<outside, feed, state, dispatch, transport, clock, evidence, local,
          conflict, application, caller, applier, bounds>>

Outcomes == {"succeeded", "failed"}
Terminals == {2, 3}
\* What a read of a terminal receipt returns.
Receipts == Outcomes \cup {"replaced"}
Open == {"queued", "delivering", "accepted"}
Transports == {"not_sent", "dispatching", "unknown", "reconciliation_required",
               "acknowledged"}

\* Where a caller is: startAsyncPrompt (start to storing) or
\* reconcilePromptCommand (waiting to judging).
Dispatching == {"start", "claim", "sent", "admitted", "failed", "looked",
                "acking", "storing"}
Reading == {"reading", "depositing", "offering", "spanning", "verified",
            "release"}
Places == {"idle", "waiting", "last", "judging"} \cup Dispatching \cup Reading

\* try: the attempt read or sent; max: the budget read; fresh: nothing was
\* sent before; why: how the send failed; seen: the receipt that was read.
Work == [at : Places, try : Nat, max : Nat, fresh : BOOLEAN,
         why : {"none", "retry", "pressured", "reconcile", "not_sent"},
         seen : {"none", "missing", "unreachable", "present", "accepted"}
                \cup Receipts]
Idle == [at |-> "idle", try |-> 0, max |-> 0, fresh |-> FALSE, why |-> "none",
         seen |-> "none"]

OutsideType ==
    /\ host \in {"none", "accepted"} \cup Outcomes
    /\ signals \in BOOLEAN
    /\ wire \subseteq Nat
    /\ turn \in {"own", "lost"} \cup Outcomes
    /\ log \in 0..3 /\ cursor \in 0..3 /\ skipped \subseteq Terminals
    /\ faults \in Nat /\ repairs \in Nat

RowType ==
    /\ state \in Open \cup Outcomes
    /\ attempts \in Nat /\ budget \in Nat /\ sends \in Nat
    /\ transport \in Transports
    /\ timer \in Callers \cup {Nobody} /\ due \in BOOLEAN
    /\ receipt \in {"none"} \cup Receipts
    /\ bound \in {0} \cup Terminals
    /\ settled \in {"no", "canonical", "host_span"}
    /\ local \in {"no", "unsent", "refused"}
    /\ conflict \in BOOLEAN

ApplicationType ==
    /\ app \in {"pending", "applying", "applied", "superseded", "poisoned"}
    /\ owner \in Appliers \cup {Nobody} /\ leased \in BOOLEAN
    /\ failures \in Nat /\ applied \in Nat
    /\ applier \in [Appliers -> [at : {"idle", "claimed", "prepared"},
                                 failures : Nat]]

TypeOK ==
    /\ OutsideType /\ RowType /\ ApplicationType
    /\ caller \in [Callers -> Work]

Free == [at |-> "idle", failures |-> 0]

\* The prompt has been issued; its driver is about to dispatch it.
Init ==
    /\ host = "none" /\ turn = "own" /\ signals = FALSE /\ wire = {}
    /\ log = 0 /\ skipped = {} /\ cursor = 0
    /\ state = "queued" /\ attempts = 0 /\ budget = MaxAttempts
    /\ transport = "not_sent" /\ sends = 0
    /\ timer = Nobody /\ due = TRUE
    /\ receipt = "none" /\ bound = 0 /\ settled = "no" /\ local = "no"
    /\ conflict = FALSE
    /\ app = "pending" /\ owner = Nobody /\ leased = FALSE
    /\ failures = 0 /\ applied = 0
    /\ caller = [c \in Callers |->
           IF c = Client THEN [Idle EXCEPT !.at = "start"] ELSE Idle]
    /\ applier = [a \in Appliers |-> Free]
    /\ faults = 0 /\ repairs = 0

Fault == faults + repairs < MaxEvents /\ faults' = faults + 1
Repair == faults + repairs < MaxEvents /\ repairs' = repairs + 1
Becomes(c, work) == caller' = [caller EXCEPT ![c] = work]
Go(c, place) == Becomes(c, [Idle EXCEPT !.at = place, !.seen = caller[c].seen])
Leave(c) == Becomes(c, Idle)
Restart(c) == Becomes(c, [Idle EXCEPT !.at = "start"])

-----------------------------------------------------------------------------
\* The host and the event plane.

\* A first request is admitted and any later one answered from the receipt;
\* the answer may be lost.
HostTakes(n) ==
    /\ n \in wire
    /\ wire' = wire \ {n}
    /\ host' = IF host = "none" THEN "accepted" ELSE host
    /\ caller' \in {caller, [c \in Callers |->
           IF caller[c].at = "sent" /\ caller[c].try = n
           THEN [Idle EXCEPT !.at = "admitted", !.try = n] ELSE caller[c]]}
    /\ UNCHANGED <<turn, signals, feed, state, dispatch, transport, clock,
                   evidence, local, conflict, application, applier, bounds>>

\* A refusal leaves no receipt: the outbox is under pressure, the session is
\* unknown or busy, or the assignment is fenced.
HostRefuses(n, why) ==
    /\ n \in wire
    /\ host = "none"
    /\ wire' = wire \ {n}
    /\ caller' = [c \in Callers |->
           IF caller[c].at = "sent" /\ caller[c].try = n
           THEN [caller[c] EXCEPT !.at = "failed", !.why = why]
           ELSE caller[c]]
    /\ UNCHANGED <<host, turn, signals, feed, state, dispatch, transport,
                   clock, evidence, local, conflict, application, applier,
                   bounds>>

\* The turn ends: receipt and terminal event are written together.
HostEnds ==
    /\ host = "accepted"
    /\ \/ host' = "succeeded" /\ signals' \in BOOLEAN
       \/ host' = "failed" /\ UNCHANGED signals
    /\ UNCHANGED <<turn, wire, feed, state, dispatch, transport, clock,
                   evidence, local, conflict, application, caller, applier,
                   bounds>>

\* The prompt is settled as lost: its session's process was released, or the
\* host restarted.
HostLoses ==
    /\ host = "accepted"
    /\ host' = "failed" /\ turn' = "lost"
    /\ UNCHANGED <<signals, wire, feed, state, dispatch, transport, clock,
                   evidence, local, conflict, application, caller, applier,
                   bounds>>

\* The turn was still in flight: its end replaces the receipt and appends a
\* second terminal event.
HostReplaces ==
    /\ turn = "lost"
    /\ turn' \in Outcomes
    /\ UNCHANGED <<host, signals, wire, feed, state, dispatch, transport, clock,
                   evidence, local, conflict, application, caller, applier,
                   bounds>>

Replaced == turn \in Outcomes

Emitted == IF host = "none" THEN 0 ELSE IF host = "accepted" THEN 1
           ELSE IF Replaced THEN 3 ELSE 2

\* A replaced receipt keeps the position of its first terminal event: one that
\* became a success contradicts its own output reference and is not served.
Readable == turn # "succeeded"

\* The receipt as the host has it at the time of the lookup.
Seen == IF host = "none" THEN "missing"
        ELSE IF Replaced THEN "replaced" ELSE host

IngestEvent ==
    /\ log < Emitted
    /\ log' = log + 1
    /\ UNCHANGED <<outside, skipped, cursor, state, dispatch, transport, clock,
                   evidence, local, conflict, application, caller, applier,
                   bounds>>

\* The payload of a terminal event cannot be stored.
SkipEvent ==
    /\ log < Emitted /\ log + 1 \in Terminals
    /\ Fault
    /\ log' = log + 1
    /\ skipped' = skipped \cup {log + 1}
    /\ UNCHANGED <<outside, cursor, state, dispatch, transport, clock,
                   evidence, local, conflict, application, caller, applier,
                   repairs>>

Stored(e) == e <= log /\ e \notin skipped

-----------------------------------------------------------------------------
\* Writes of the command row, each under its lock.

Acknowledge == transport' = "acknowledged"
NoDelay == timer' = Nobody /\ due' = TRUE

\* casTransition of markAccepted.
MarkAccepted(n) ==
    IF state = "delivering" /\ attempts = n
    THEN state' = "accepted" /\ Acknowledge /\ NoDelay
    ELSE UNCHANGED <<state, transport, clock>>

MarkFailed(n, why) ==
    IF state \in Open /\ attempts = n
    THEN state' = "failed" /\ local' = why
    ELSE UNCHANGED <<state, local>>

\* recordUnknownPromptAdmission: an accepted row stays accepted and an
\* acknowledged transport acknowledged.
RecordUnknown(n, exhausted) ==
    IF state \in Open /\ attempts = n
    THEN /\ state' = IF state = "accepted" THEN state ELSE "queued"
         /\ transport' = IF transport = "acknowledged" THEN transport
                         ELSE IF exhausted THEN "reconciliation_required"
                         ELSE "unknown"
         /\ timer' = Nobody /\ due' = FALSE
    ELSE UNCHANGED <<state, transport, clock>>

\* An accepted phase, of a receipt or an event, moves an unanswered row.
NoteAccepted ==
    IF state \in {"queued", "delivering"}
    THEN state' = "accepted" /\ Acknowledge
    ELSE UNCHANGED <<state, transport>>

\* quarantine: the outcome is not applied, unless it was already.
Quarantine ==
    /\ conflict' = TRUE
    /\ app' = IF app = "applied" THEN app ELSE "poisoned"
    /\ owner' = Nobody /\ leased' = FALSE
    /\ UNCHANGED <<state, transport, clock, settled>>

NoEvidence ==
    UNCHANGED <<state, transport, clock, settled, conflict, app, claim>>

\* Mutant: a terminal row is not compared with the evidence.
DisagreesNever(rcpt, e) == e # 2 \/ rcpt # host

\* Mutant: any terminal row is a conflict.
DisagreesWhenClosed(rcpt, e) == e # 2 \/ rcpt # host \/ state \in Outcomes

\* The event against the receipt and, of a closed row, its outcome; a row the
\* manager failed itself has another error.  The first receipt names the first
\* terminal event, a replaced one the second event at the first one's
\* position: it agrees with neither.
Disagrees(rcpt, e) ==
    \/ e # 2 \/ rcpt # host
    \/ state \in Outcomes /\ (state # rcpt \/ local # "no")

\* Mutant: a confirming event rewrites settled_from.
ReduceRewrites(rcpt, e, from) ==
    IF conflict \/ rcpt = "none" THEN NoEvidence
    ELSE IF Disagrees(rcpt, e) THEN Quarantine
    ELSE /\ state' = rcpt
         /\ settled' = from
         /\ Acknowledge /\ NoDelay
         /\ UNCHANGED <<conflict, app, claim>>

\* reducePromptEvidence with terminal event e in hand.
Reduce(rcpt, e, from) ==
    IF conflict \/ rcpt = "none" THEN NoEvidence
    ELSE IF Disagrees(rcpt, e) THEN Quarantine
    ELSE /\ state' = rcpt
         /\ settled' = IF settled = "no" THEN from ELSE settled
         /\ Acknowledge /\ NoDelay
         /\ UNCHANGED <<conflict, app, claim>>

\* bindTerminalEvent, never a replacement, and the reduction.
BindAndReduce(e) ==
    IF bound \in {0, e}
    THEN bound' = e /\ Reduce(receipt, e, "canonical")
    ELSE Quarantine /\ UNCHANGED bound

\* Mutant: a skipped event is waited for.
SkippedTerminalNever == FALSE

\* skippedTerminal: no event will ever settle the command.
SkippedTerminal ==
    receipt \in Outcomes /\ bound = 0 /\ settled = "no" /\ 2 \in skipped

\* The terminal event a stored row can be settled with: the one it is bound
\* to, or the one a completed receipt names when its span is free of signals;
\* 0 for none.
Candidate ==
    IF bound # 0 THEN bound
    ELSE IF Stored(2) /\ receipt = "succeeded" /\ ~signals THEN 2 ELSE 0

\* reconcileStoredPromptEvidence.
ReconcileStored ==
    /\ IF conflict \/ settled # "no" THEN NoEvidence /\ UNCHANGED bound
       ELSE IF Candidate # 0 THEN BindAndReduce(Candidate)
       ELSE IF SkippedTerminal THEN Quarantine /\ UNCHANGED bound
       ELSE NoEvidence /\ UNCHANGED bound
    /\ UNCHANGED receipt

\* depositPromptReceipt.
Deposit(seen) ==
    IF seen = "accepted"
    THEN NoteAccepted /\ UNCHANGED <<receipt, conflict, app, claim, clock,
                                     settled>>
    ELSE IF receipt # "none" /\ receipt # seen
    THEN Quarantine /\ UNCHANGED receipt
    ELSE /\ receipt' = seen /\ Acknowledge
         /\ UNCHANGED <<state, clock, settled, conflict, app, claim>>

-----------------------------------------------------------------------------
\* startAsyncPrompt.

Dispatchable ==
    /\ ~conflict /\ state = "queued"
    /\ transport \notin {"acknowledged", "reconciliation_required"}
    /\ attempts < budget

\* The head of the loop: the row as it is read decides.
ReadRow(c) ==
    /\ caller[c].at = "start"
    /\ IF Dispatchable
       THEN Becomes(c, [Idle EXCEPT !.at = "claim", !.try = attempts,
                !.max = budget, !.fresh = (attempts = 0 /\ transport = "not_sent")])
       ELSE Leave(c)
    /\ UNCHANGED <<outside, feed, state, dispatch, transport, clock, evidence,
                   local, conflict, application, applier, bounds>>

\* Mutant: the claim does not compare the attempt that was read.
ClaimableByState(c) == state = "queued"

Claimable(c) == state = "queued" /\ attempts = caller[c].try

\* The claim of the row, and the send.
Dispatch(c) ==
    /\ caller[c].at = "claim"
    /\ IF Claimable(c)
       THEN /\ state' = "delivering"
            /\ attempts' = caller[c].try + 1
            /\ sends' = sends + 1
            /\ transport' = "dispatching"
            /\ NoDelay
            /\ wire' = wire \cup {caller[c].try + 1}
            /\ Becomes(c, [caller[c] EXCEPT !.at = "sent",
                                            !.try = caller[c].try + 1])
       ELSE Leave(c) /\ UNCHANGED <<state, attempts, sends, transport, clock,
                                    wire>>
    /\ UNCHANGED <<host, turn, signals, feed, budget, evidence, local, conflict,
                   application, applier, bounds>>

\* A preflight check refuses the request before it is sent.
NotSent(c) ==
    /\ caller[c].at = "sent"
    /\ caller[c].try \in wire
    /\ wire' = wire \ {caller[c].try}
    /\ Becomes(c, [caller[c] EXCEPT !.at = "failed", !.why = "not_sent"])
    /\ UNCHANGED <<host, turn, signals, feed, state, dispatch, transport,
                   clock, evidence, local, conflict, application, applier,
                   bounds>>

\* No answer in time; the request may still be on its way.
TimeOut(c) ==
    /\ caller[c].at = "sent"
    /\ Becomes(c, [caller[c] EXCEPT !.at = "failed", !.why = "retry"])
    /\ UNCHANGED <<outside, feed, state, dispatch, transport, clock, evidence,
                   local, conflict, application, applier, bounds>>

Admitted(c) ==
    /\ caller[c].at = "admitted"
    /\ MarkAccepted(caller[c].try)
    /\ Leave(c)
    /\ UNCHANGED <<outside, feed, dispatch, evidence, local, conflict,
                   application, applier, bounds>>

\* Mutant: whatever was sent before, a refused preflight fails the prompt.
UnsentByPreflight(c) == caller[c].why = "not_sent"

\* A later preflight refusal says nothing about an earlier unknown send.
Unsent(c) == caller[c].why = "not_sent" /\ caller[c].fresh

FailUnsent(c) ==
    /\ caller[c].at = "failed"
    /\ Unsent(c)
    /\ MarkFailed(caller[c].try, "unsent")
    /\ Leave(c)
    /\ UNCHANGED <<outside, feed, dispatch, transport, clock, evidence,
                   conflict, application, applier, bounds>>

\* lookupReceiptUntilReachable.
LookUp(c) ==
    /\ caller[c].at = "failed"
    /\ ~Unsent(c)
    /\ Becomes(c, IF Readable
                  THEN [caller[c] EXCEPT !.at = "looked", !.seen = Seen]
                  ELSE [caller[c] EXCEPT !.at = "looked", !.why = "reconcile",
                                         !.seen = "unreachable"])
    /\ UNCHANGED <<outside, feed, state, dispatch, transport, clock, evidence,
                   local, conflict, application, applier, bounds>>

\* The lookup fails; a failure that is no timeout replaces the send's.
LookUpFails(c) ==
    /\ caller[c].at = "failed"
    /\ ~Unsent(c)
    /\ Fault
    /\ \E why \in {caller[c].why, "reconcile"} :
        Becomes(c, [caller[c] EXCEPT !.at = "looked", !.why = why,
                                     !.seen = "unreachable"])
    /\ UNCHANGED <<outside, feed, state, dispatch, transport, clock, evidence,
                   local, conflict, application, applier, repairs>>

SawReceipt(c) == caller[c].seen \in {"accepted"} \cup Receipts

\* The receipt is kept, the row marked, and the evidence reduced; a conflict
\* ends the dispatch.
DepositLooked(c) ==
    /\ caller[c].at = "looked"
    /\ SawReceipt(c)
    /\ Deposit(caller[c].seen)
    /\ IF conflict' /\ ~conflict THEN Leave(c)
       ELSE Becomes(c, [Idle EXCEPT !.at = "acking", !.try = caller[c].try])
    /\ UNCHANGED <<outside, feed, dispatch, bound, local, failures, applied,
                   applier, bounds>>

AckLooked(c) ==
    /\ caller[c].at = "acking"
    /\ MarkAccepted(caller[c].try)
    /\ Go(c, "storing")
    /\ UNCHANGED <<outside, feed, dispatch, evidence, local, conflict,
                   application, applier, bounds>>

StoreLooked(c) ==
    /\ caller[c].at = "storing"
    /\ ReconcileStored
    /\ Leave(c)
    /\ UNCHANGED <<outside, feed, dispatch, local, failures, applied, applier,
                   bounds>>

\* A refusal under pressure and no receipt: the prompt was not admitted.
FailRefused(c) ==
    /\ caller[c].at = "looked"
    /\ caller[c].seen = "missing" /\ caller[c].why = "pressured"
    /\ MarkFailed(caller[c].try, "refused")
    /\ Leave(c)
    /\ UNCHANGED <<outside, feed, dispatch, transport, clock, evidence,
                   conflict, application, applier, bounds>>

\* The outcome is unknown: back to the queue and another attempt after the
\* backoff, or left to reconciliation.
Unknown(c) ==
    LET exhausted == \/ caller[c].try >= caller[c].max
                     \/ caller[c].why # "retry"
        again == /\ ~exhausted
                 /\ state \in Open /\ attempts = caller[c].try
                 /\ state' = "queued"
    IN  /\ caller[c].at = "looked"
        /\ ~SawReceipt(c)
        /\ ~(caller[c].seen = "missing" /\ caller[c].why = "pressured")
        /\ RecordUnknown(caller[c].try, exhausted)
        /\ IF again THEN Restart(c) ELSE Leave(c)
        /\ UNCHANGED <<outside, feed, dispatch, evidence, local, conflict,
                       application, applier, bounds>>

-----------------------------------------------------------------------------
\* reconcilePromptCommand, of a waiter or a pass.

LookStored(c) ==
    /\ c \in Readers
    /\ caller[c].at = "idle"
    /\ ReconcileStored
    /\ IF ~conflict' /\ settled' = "no" /\ local # "unsent"
       THEN Go(c, "waiting") ELSE UNCHANGED caller
    /\ UNCHANGED <<outside, feed, dispatch, local, failures, applied, applier,
                   bounds>>

\* The claim on the next read: of the receipt, or of the host's span once a
\* completed receipt is there.
ClaimRead(c) ==
    /\ caller[c].at = "waiting"
    /\ IF /\ state \in Open /\ due /\ settled = "no"
          /\ receipt \in {"none", "succeeded"}
       THEN /\ timer' = c /\ due' = FALSE
            /\ Go(c, IF receipt = "none" THEN "reading" ELSE "spanning")
       ELSE /\ IF receipt = "none" THEN Leave(c) ELSE Go(c, "last")
            /\ UNCHANGED clock
    /\ UNCHANGED <<outside, feed, state, dispatch, transport, evidence, local,
                   conflict, application, applier, bounds>>

ReadReceipt(c) ==
    /\ caller[c].at = "reading"
    /\ IF Readable
       THEN Becomes(c, [Idle EXCEPT !.seen = Seen,
                !.at = IF host = "none" THEN "release" ELSE "depositing"])
       ELSE Leave(c)
    /\ UNCHANGED <<outside, feed, state, dispatch, transport, clock, evidence,
                   local, conflict, application, applier, bounds>>

\* The host is unreachable; any other failure is thrown, the claim kept.
ReadFails(c) ==
    /\ caller[c].at = "reading"
    /\ Fault
    /\ \/ Becomes(c, [Idle EXCEPT !.at = "release", !.seen = "unreachable"])
       \/ Leave(c)
    /\ UNCHANGED <<outside, feed, state, dispatch, transport, clock, evidence,
                   local, conflict, application, applier, repairs>>

DepositRead(c) ==
    /\ caller[c].at = "depositing"
    /\ Deposit(caller[c].seen)
    /\ IF conflict' /\ ~conflict THEN Leave(c)
       ELSE Becomes(c, [Idle EXCEPT !.at = "offering", !.seen = "present"])
    /\ UNCHANGED <<outside, feed, dispatch, bound, local, failures, applied,
                   applier, bounds>>

\* The direct binding first, then the host's span.
OfferStored(c) ==
    /\ caller[c].at = "offering"
    /\ ReconcileStored
    /\ Go(c, IF ~conflict' /\ settled' = "no" /\ receipt = "succeeded"
             THEN "spanning" ELSE "release")
    /\ UNCHANGED <<outside, feed, dispatch, local, failures, applied, applier,
                   bounds>>

\* verifyHostPromptSpan: the span proves the terminal when it is free of
\* signals, still retained, and ahead of what has been ingested.
ReadSpan(c) ==
    /\ caller[c].at = "spanning"
    /\ \/ /\ settled = "no" /\ ~signals /\ log < 2
          /\ Go(c, "verified")
       \/ Go(c, "release")
    /\ UNCHANGED <<outside, feed, state, dispatch, transport, clock, evidence,
                   local, conflict, application, applier, bounds>>

\* reduceHostSpanEvidence: another feed may have settled the row meanwhile.
SettleSpan(c) ==
    /\ caller[c].at = "verified"
    /\ IF settled # "no" THEN NoEvidence ELSE Reduce(receipt, 2, "host_span")
    /\ Go(c, "release")
    /\ UNCHANGED <<outside, feed, dispatch, receipt, bound, local, failures,
                   applied, applier, bounds>>

\* The claim gives way to a delay, unless a successor holds it.
ReleaseRead(c) ==
    /\ caller[c].at = "release"
    /\ IF timer = c /\ state \in Open
       THEN /\ timer' = Nobody /\ due' = FALSE
            /\ transport' = IF /\ caller[c].seen # "none"
                               /\ transport # "acknowledged"
                               /\ attempts >= budget
                            THEN "reconciliation_required" ELSE transport
       ELSE UNCHANGED <<clock, transport>>
    /\ Go(c, "last")
    /\ UNCHANGED <<outside, feed, state, dispatch, evidence, local, conflict,
                   application, applier, bounds>>

\* What a pass still has to decide after a read that found nothing.
LastLook(c) ==
    /\ caller[c].at = "last"
    /\ ReconcileStored
    /\ IF /\ c \in Passes
          /\ ~conflict' /\ settled' = "no" /\ local = "no"
          /\ state' # "accepted" /\ transport' # "acknowledged"
          /\ caller[c].seen \in {"missing", "unreachable"}
       THEN Becomes(c, [caller[c] EXCEPT !.at = "judging", !.try = attempts,
                !.max = budget, !.fresh = (state' = "delivering"),
                !.why = IF transport' = "reconciliation_required"
                        THEN "reconcile" ELSE "none"])
       ELSE Leave(c)
    /\ UNCHANGED <<outside, feed, dispatch, local, failures, applied, applier,
                   bounds>>

Missing(c) == caller[c].seen = "missing" /\ caller[c].try < caller[c].max

\* recoverRow: an unreachable host or a spent budget leaves the row unknown.
PassLeavesUnknown(c) ==
    /\ caller[c].at = "judging"
    /\ ~Missing(c)
    /\ RecordUnknown(caller[c].try, caller[c].try >= caller[c].max)
    /\ Leave(c)
    /\ UNCHANGED <<outside, feed, dispatch, evidence, local, conflict,
                   application, applier, bounds>>

\* A reachable host without a receipt permits a replay, while the original
\* assignment is current.
PassReplays(c) ==
    /\ caller[c].at = "judging"
    /\ Missing(c)
    /\ \/ /\ caller[c].why # "reconcile"
          /\ \/ /\ caller[c].fresh
                /\ IF state = "delivering" /\ attempts = caller[c].try
                   THEN state' = "queued" /\ Restart(c)
                   ELSE UNCHANGED state /\ Leave(c)
             \/ ~caller[c].fresh /\ Restart(c) /\ UNCHANGED state
       \/ Leave(c) /\ UNCHANGED state
    /\ UNCHANGED <<outside, feed, dispatch, transport, clock, evidence, local,
                   conflict, application, applier, bounds>>

\* rearmPromptAdmission: one more outbound budget for a row nobody answered.
RearmAdmission ==
    /\ Repair
    /\ state = "queued" /\ transport = "reconciliation_required"
    /\ receipt = "none" /\ bound = 0 /\ ~conflict
    /\ transport' = "unknown"
    /\ budget' = budget + ExtraAttempts
    /\ NoDelay
    /\ UNCHANGED <<outside, feed, state, attempts, sends, evidence, local,
                   conflict, application, caller, applier, faults>>

\* next_attempt_at passes; a claim's only when its reader is gone or slow.
TimePasses ==
    /\ ~due
    /\ \A c \in Callers : timer = c => caller[c].at \notin Reading
    /\ due' = TRUE
    /\ UNCHANGED <<outside, feed, state, dispatch, transport, timer, evidence,
                   local, conflict, application, caller, applier, bounds>>

PauseReader ==
    /\ Fault
    /\ ~due
    /\ \E c \in Callers : timer = c /\ caller[c].at \in Reading
    /\ due' = TRUE
    /\ UNCHANGED <<outside, feed, state, dispatch, transport, timer, evidence,
                   local, conflict, application, caller, applier, repairs>>

-----------------------------------------------------------------------------
\* The prompt projector (events/prompt-projector.ts).

ProjectAccepted ==
    /\ cursor = 0 /\ log > 0
    /\ cursor' = 1
    /\ NoteAccepted
    /\ UNCHANGED <<outside, log, skipped, dispatch, clock, evidence, local,
                   conflict, application, caller, applier, bounds>>

\* The stored event that comes after the cursor.
NextTerminal(e) ==
    /\ cursor >= 1 /\ cursor < e /\ Stored(e)
    /\ \A d \in Terminals : cursor < d /\ d < e => d \in skipped

\* preparePromptEvidence fetches a receipt the row does not have yet, and
\* deposits it.
PrepareTerminal ==
    /\ \E e \in Terminals : NextTerminal(e)
    /\ receipt = "none" /\ Readable
    /\ Deposit(Seen)
    /\ UNCHANGED <<outside, feed, dispatch, bound, local, failures, applied,
                   caller, applier, bounds>>

\* recordPromptEvent: the terminal event is bound and reduced, whether or not
\* the host could be reached for its receipt.
ProjectTerminal(e) ==
    /\ NextTerminal(e)
    /\ cursor' = e
    /\ BindAndReduce(e)
    /\ UNCHANGED <<outside, log, skipped, dispatch, receipt, local,
                   failures, applied, caller, applier, bounds>>

-----------------------------------------------------------------------------
\* The owner's application.

\* An outcome that may be applied: agreed evidence, or proof that nothing was
\* sent.
Applicable == state \in Outcomes /\ (settled # "no" \/ local = "unsent")

\* claimPromptOwner.
ClaimOwner(a) ==
    /\ applier[a].at = "idle"
    /\ Applicable
    /\ app \in {"pending", "applying"} /\ ~leased
    /\ app' = "applying" /\ owner' = a /\ leased' = TRUE
    /\ applier' = [applier EXCEPT ![a] = [at |-> "claimed",
                                          failures |-> failures]]
    /\ UNCHANGED <<outside, feed, state, dispatch, transport, clock, evidence,
                   local, conflict, failures, applied, caller, bounds>>

\* The claim is still this applier's; the lease prepares the result.
PrepareOwner(a) ==
    /\ applier[a].at = "claimed"
    /\ applier' = [applier EXCEPT ![a] =
           IF ~conflict /\ owner = a
           THEN [at |-> "prepared", failures |-> applier[a].failures]
           ELSE Free]
    /\ UNCHANGED <<outside, feed, state, dispatch, transport, clock, evidence,
                   local, conflict, application, caller, bounds>>

\* claimPredicate.
Owned(a) == app = "applying" /\ owner = a /\ failures = applier[a].failures

\* Mutant: the claim token is not compared when the result is committed.
HoldsByState(a) == app \in {"pending", "applying", "superseded", "applied"}

Holds(a) == Owned(a) /\ leased

\* commitPreparedOwner: the owner's writes and the claim in one transaction;
\* an owner of another generation supersedes.  A result that cannot be
\* applied for good is finalized the same way, as a failure.
CommitOwner(a) ==
    /\ applier[a].at = "prepared"
    /\ Holds(a)
    /\ app' \in {"applied", "superseded"}
    /\ applied' = IF app' = "applied" THEN applied + 1 ELSE applied
    /\ owner' = Nobody /\ leased' = FALSE
    /\ applier' = [applier EXCEPT ![a] = Free]
    /\ UNCHANGED <<outside, feed, state, dispatch, transport, clock, evidence,
                   local, conflict, failures, caller, bounds>>

GiveBack(a) ==
    IF Owned(a)
    THEN app' = "pending" /\ owner' = Nobody /\ leased' = FALSE
    ELSE UNCHANGED <<app, claim>>

\* The claim was lost: the transaction is rolled back and what is left of the
\* claim is given back.
LoseClaim(a) ==
    /\ applier[a].at = "prepared"
    /\ ~Holds(a)
    /\ GiveBack(a)
    /\ applier' = [applier EXCEPT ![a] = Free]
    /\ UNCHANGED <<outside, feed, state, dispatch, transport, clock, evidence,
                   local, conflict, failures, applied, caller, bounds>>

\* recordFailure: poisoned at the limit, or at once on a broken invariant.
ApplyFails(a) ==
    /\ applier[a].at = "prepared"
    /\ applier' = [applier EXCEPT ![a] = Free]
    /\ IF Holds(a)
       THEN /\ failures' = IF failures < MaxFailures THEN failures + 1
                           ELSE MaxFailures
            /\ app' \in {IF failures' >= MaxFailures THEN "poisoned"
                         ELSE "pending", "poisoned"}
            /\ owner' = Nobody /\ leased' = FALSE
       ELSE UNCHANGED <<failures, app, claim>>
    /\ UNCHANGED <<outside, feed, state, dispatch, transport, clock, evidence,
                   local, conflict, applied, caller, bounds>>

\* A deferral, a service failure or a shutdown costs no attempt, unless it
\* interrupts the finalization of an exhausted result; a claim whose lease ran
\* out is given back by a shutdown only.
Defer(a) ==
    /\ applier[a].at # "idle"
    /\ Fault
    /\ \/ GiveBack(a) /\ UNCHANGED failures
       \/ ~Holds(a) /\ UNCHANGED <<app, claim, failures>>
       \/ /\ applier[a].at = "prepared" /\ Holds(a)
          /\ failures + 1 >= MaxFailures
          /\ failures' = MaxFailures
          /\ GiveBack(a)
    /\ applier' = [applier EXCEPT ![a] = Free]
    /\ UNCHANGED <<outside, feed, state, dispatch, transport, clock, evidence,
                   local, conflict, applied, caller, repairs>>

\* An operator recovers the crashed run: evidence nobody applied is applied
\* first, whoever holds the claim; a lost turn is superseded instead
\* (runs/crash-recover.ts).
HandOff ==
    /\ Repair
    /\ Applicable /\ ~conflict
    /\ \/ /\ app # "applied"
          /\ app' = "applied" /\ applied' = applied + 1
       \/ /\ app = "pending" /\ state = "failed"
          /\ app' = "superseded" /\ UNCHANGED applied
    /\ owner' = Nobody /\ leased' = FALSE
    /\ UNCHANGED <<outside, feed, state, dispatch, transport, clock, evidence,
                   local, conflict, failures, caller, applier, faults>>

\* rearmPromptApplication (prompt-application-recovery.ts).
RearmApplication ==
    /\ Repair
    /\ Applicable /\ ~conflict /\ ~leased
    /\ app \in {"pending", "applying", "poisoned"}
    /\ app' = "pending" /\ owner' = Nobody /\ failures' = 0
    /\ UNCHANGED <<outside, feed, state, dispatch, transport, clock, evidence,
                   local, conflict, leased, applied, caller, applier, faults>>

\* The lease is renewed while its holder prepares; it runs out under one that
\* is gone, or that stalls.
ExpireLease ==
    /\ leased
    /\ IF \A a \in Appliers : owner = a => applier[a].at = "idle"
       THEN UNCHANGED faults ELSE Fault
    /\ leased' = FALSE
    /\ UNCHANGED <<outside, feed, state, dispatch, transport, clock, evidence,
                   local, conflict, app, owner, failures, applied, caller,
                   applier, repairs>>

\* The web process dies and comes back.
Crash ==
    /\ Fault
    /\ caller' = [c \in Callers |-> Idle]
    /\ applier' = [a \in Appliers |-> Free]
    /\ UNCHANGED <<outside, feed, state, dispatch, transport, clock, evidence,
                   local, conflict, application, repairs>>

-----------------------------------------------------------------------------
Start(c) ==
    \/ ReadRow(c) \/ Dispatch(c) \/ TimeOut(c) \/ Admitted(c) \/ FailUnsent(c)
    \/ LookUp(c) \/ DepositLooked(c) \/ AckLooked(c) \/ StoreLooked(c)
    \/ FailRefused(c) \/ Unknown(c)

Reconcile(c) ==
    \/ ClaimRead(c) \/ ReadReceipt(c) \/ DepositRead(c) \/ OfferStored(c)
    \/ ReadSpan(c) \/ SettleSpan(c) \/ ReleaseRead(c) \/ LastLook(c)
    \/ PassLeavesUnknown(c) \/ PassReplays(c)

Apply(a) ==
    \/ ClaimOwner(a) \/ PrepareOwner(a) \/ CommitOwner(a) \/ LoseClaim(a)
    \/ ApplyFails(a)

Project ==
    \/ ProjectAccepted \/ PrepareTerminal
    \/ \E e \in Terminals : ProjectTerminal(e)

Next ==
    \/ \E n \in wire :
        HostTakes(n) \/ \E why \in {"pressured", "reconcile"} : HostRefuses(n, why)
    \/ HostEnds \/ HostLoses \/ HostReplaces \/ IngestEvent \/ SkipEvent
    \/ Project
    \/ \E c \in Callers :
        \/ Start(c) \/ LookStored(c) \/ Reconcile(c)
        \/ NotSent(c) \/ LookUpFails(c) \/ ReadFails(c)
    \/ \E a \in Appliers : Apply(a) \/ Defer(a)
    \/ RearmAdmission \/ RearmApplication \/ HandOff
    \/ TimePasses \/ PauseReader \/ ExpireLease \/ Crash

Spec == Init /\ [][Next]_vars

\* A call that has begun goes on, its network calls being bounded by
\* timeouts; recovery passes are scheduled for ever; the event plane delivers
\* what the host emits and the projector projects it; the owner worker polls;
\* clocks advance.  Nothing obliges the network to deliver a request, the
\* host to end a turn, a waiter to look, or an operator to repair.
Fairness ==
    /\ \A c \in Callers : WF_vars(Start(c) \/ Reconcile(c))
    /\ \A c \in Passes : WF_vars(LookStored(c))
    /\ \A a \in Appliers : WF_vars(Apply(a))
    /\ WF_vars(IngestEvent) /\ WF_vars(Project)
    /\ WF_vars(TimePasses) /\ WF_vars(ExpireLease)

LiveSpec == Spec /\ Fairness

-----------------------------------------------------------------------------
(* Properties.                                                             *)

\* A settlement is the outcome the host published first: whichever feed
\* settled the row (settled_from), its state is that of the first terminal
\* receipt and event, that receipt is kept as evidence, and the row was not
\* failed by the manager itself.  A receipt that replaced it settles nothing
\* and undoes nothing (reducePromptEvidence, prompt-evidence.ts).
SettledIsHosts ==
    settled # "no" =>
        host \in Outcomes /\ state = host /\ receipt = host /\ local = "no"

\* A prompt that is failed as never sent never reaches the host, however many
\* drivers and passes tried to send it (the not_sent branch of
\* startAsyncPrompt, deliverer.ts): its failure is applied without any
\* evidence of the host.
UnsentNeverRan == local = "unsent" => host = "none" /\ wire = {}

\* The outcome is applied to its owner at most once, and the row says so: by
\* an applier that lost its lease, its successor, a crash recovery and a
\* rearm together (commitPreparedOwner, prompt-owner-application.ts).
AppliedOnce == applied <= 1 /\ (applied = 1 <=> app = "applied")

\* Every dispatch is an attempt of its own, within the budget that repairs
\* opened (casTransition of startAsyncPrompt): a driver and a recovery pass
\* that read the same row never both send it.
SentPerAttempt ==
    /\ sends = attempts
    /\ attempts <= budget
    /\ budget <= MaxAttempts + repairs * ExtraAttempts

\* Evidence is quarantined for a reason: the terminal event could not be
\* stored, the manager had failed the prompt on a refusal although the host
\* admitted it, or the host replaced the receipt of a turn it had settled as
\* lost.  Receipt, event and host span of an ordinary turn agree in whatever
\* order they arrive (reducePromptEvidence).
ConflictWarranted ==
    conflict => 2 \in skipped \/ local = "refused" \/ Replaced

\* What has been concluded is not concluded again: a closed row keeps its
\* state, a settlement its feed, and an applied outcome stays applied.
VerdictStands ==
    [][ /\ state \in Outcomes => state' = state /\ local' = local
        /\ settled # "no" => settled' = settled
        /\ app = "applied" => app' = app ]_vars

\* A turn that ended is applied, superseded or poisoned in the end, whatever
\* was lost on the way (waiters, recovery.ts, the owner worker), unless the
\* manager had failed the prompt on a refusal or the host replaced the receipt
\* by one that it cannot serve, or after neither terminal could be stored.
TurnIsApplied ==
    host \in Outcomes ~>
        \/ app \in {"applied", "superseded", "poisoned"}
        \/ local = "refused"
        \/ Replaced /\ (~Readable \/ skipped = Terminals)

-----------------------------------------------------------------------------
(* The inductive invariant behind the theorems.                            *)

\* A receipt that was read is the host's first, or the one that replaced it.
Published(rcpt) == rcpt = host \/ (rcpt = "replaced" /\ Replaced)

\* The evidence that was stored is the host's, and a closed row was closed by
\* evidence or by the manager.
EvidenceInv ==
    /\ turn # "own" => host = "failed"
    /\ log <= Emitted
    /\ bound # 0 => bound <= log
    /\ receipt # "none" => Published(receipt)
    /\ local # "no" => state = "failed"
    /\ state \in Outcomes => settled # "no" \/ local # "no"

\* A request is that of an attempt, and the host ran none that is on its way.
WireInv ==
    /\ wire \subseteq 1..attempts
    /\ host # "none" => \E n \in 1..attempts : n \notin wire

\* What a caller believes: the receipt it read is one the host had, its
\* attempt is within the budget, and a first attempt that preflight refused is
\* the only one as long as no later one was claimed.
Sound(w) ==
    /\ w.seen \in Receipts => Published(w.seen)
    /\ w.at = "depositing" => w.seen \in {"accepted"} \cup Receipts
    /\ w.at = "claim" => w.try < budget
    /\ w.at \in {"claim", "sent", "failed"} => w.try <= attempts
    /\ w.at = "claim" /\ w.fresh => w.try = 0
    /\ w.at = "sent" /\ w.fresh => w.try = 1
    /\ w.at = "failed" /\ w.why = "not_sent" /\ w.fresh /\ w.try = attempts =>
          wire = {} /\ host = "none"

CallerInv == \A c \in Callers : Sound(caller[c])

\* Everything the theorems of PromptTurn_proofs rest on: the stored evidence
\* is the host's (prompt-evidence.ts), the row was closed for a reason
\* (commands.ts), and what a driver believes of its attempt holds
\* (deliverer.ts).
PromptInv ==
    /\ TypeOK /\ EvidenceInv /\ WireInv /\ CallerInv
    /\ SettledIsHosts /\ UnsentNeverRan /\ AppliedOnce /\ SentPerAttempt
    /\ ConflictWarranted

=============================================================================
