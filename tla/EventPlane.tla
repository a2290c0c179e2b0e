----------------------------- MODULE EventPlane -----------------------------
(***************************************************************************)
(* The runtime event stream of one execution host: the durable outbox with *)
(* its acknowledgement and replay floor (supervisor/src/host-state.ts and  *)
(* runtime-event-subscribers.ts), the manager's consumers that read it     *)
(* under a lease (web/lib/execution-host/events/consumer.ts), the ingest   *)
(* transaction that settles each position once (events/ingest.ts) and the  *)
(* health pass that gives a silent stream up (events/stream-health.ts).    *)
(*                                                                         *)
(* Position p stands for the host's sequence p - 1, 0 for "none yet".  A   *)
(* connection delivers frames in order and without loss; it may break      *)
(* between frames, and a request or its answer may be lost.  Left out: a   *)
(* host that comes back with another stream id (ingest refuses it and      *)
(* marks the host unavailable), envelopes that break the schema, and the   *)
(* byte limits of batches and pages.                                       *)
(***************************************************************************)
EXTENDS Naturals, Sequences, FiniteSets

CONSTANTS
    Consumers,    \* consumer loops, in one web process or in several
    Runs,         \* runs that have a row
    Envelopes,    \* what the host can append
    BatchRows,    \* rows of an ingest batch
    BufferRows,   \* frames a reader holds before it stops reading
    MaxEvents,    \* bound: positions the host emits
    MaxEpoch,     \* bound: assignments of a run
    MaxFaults,    \* bound: crashes, pauses, stops, broken links, stall repairs
    Nobody,       \* no lease was ever taken
    Departed      \* the lease of a loop whose process died

\* An envelope names the run and the assignment epoch it belongs to.  A
\* receipt is a command event that matches a durable command row; a payload
\* PostgreSQL refuses is unstorable.
Kinds == {"output", "receipt", "unstorable"}

ASSUME PlaneAssumption ==
    /\ \A e \in Envelopes : e.kind \in Kinds /\ e.epoch \in Nat
    /\ BatchRows \in Nat \ {0}
    /\ BufferRows \in Nat \ {0}
    /\ MaxEvents \in Nat
    /\ MaxEpoch \in Nat \ {0}
    /\ MaxFaults \in Nat
    /\ {Nobody, Departed} \cap Consumers = {}

VARIABLES
    emitted,      \* every envelope the host appended, by position
    floor,        \* replay_floor_sequence: positions up to it are pruned
    acknowledged, \* acknowledged_through
    epoch,        \* the run's active assignment epoch
    state,        \* execution_event_streams.state, "absent" without a row
    contiguous,   \* last_contiguous_sequence
    confirmed,    \* last_ack_confirmed_sequence
    owner,        \* claim_owner
    leased,       \* claim_expires_at lies ahead
    repairing,    \* last_error says that a stall repair was attempted
    verdict,      \* ingest_disposition or the skip ledger, by position
    runSequence,  \* execution_events.run_sequence of an accepted position
    nextSequence, \* runs.next_execution_event_sequence
    pass,         \* consumeRuntimeEventStreamOnce of each loop
    faults        \* faults so far

host == <<emitted, floor, acknowledged>>
claim == <<owner, leased>>
row == <<state, contiguous, confirmed, repairing>>
ingested == <<verdict, runSequence, nextSequence>>
vars == <<host, epoch, row, claim, ingested, pass, faults>>

Position == 1..MaxEvents
Verdicts == {"accepted", "stale_epoch", "skipped"}
Places == {"idle", "catchup", "catchup_sent", "open", "reading", "split",
           "bootstrap", "ack", "ack_sent", "failing"}

\* at: what the pass does next; claimed: it holds a claim; got: the last
\* position it handed to ingest; read: the last frame it buffered; cut: the
\* end of a batch that is retried frame by frame; renewed: whether that batch
\* renewed the lease; through: the position to acknowledge; lastAck: the last
\* one acknowledged.
Pass == [at : Places, claimed : BOOLEAN, got : Nat, read : Nat, cut : Nat,
         renewed : {"none", "yes", "no"}, through : Nat, lastAck : Nat]

Idle == [at |-> "idle", claimed |-> FALSE, got |-> 0, read |-> 0, cut |-> 0,
         renewed |-> "none", through |-> 0, lastAck |-> 0]

TypeOK ==
    /\ emitted \in Seq(Envelopes)
    /\ floor \in Nat
    /\ acknowledged \in Nat
    /\ epoch \in [Runs -> Nat]
    /\ state \in {"absent", "active", "lost"}
    /\ contiguous \in Nat
    /\ confirmed \in Nat
    /\ owner \in Consumers \cup {Nobody, Departed}
    /\ leased \in BOOLEAN
    /\ repairing \in BOOLEAN
    /\ verdict \in [Position -> Verdicts \cup {"none", "pending_gap"}]
    /\ runSequence \in [Position -> Nat]
    /\ nextSequence \in [Runs -> Nat]
    /\ pass \in [Consumers -> Pass]
    /\ faults \in Nat

Init ==
    /\ emitted = <<>>
    /\ floor = 0
    /\ acknowledged = 0
    /\ epoch = [r \in Runs |-> 1]
    /\ state = "absent"
    /\ contiguous = 0
    /\ confirmed = 0
    /\ owner = Nobody
    /\ leased = FALSE
    /\ repairing = FALSE
    /\ verdict = [p \in Position |-> "none"]
    /\ runSequence = [p \in Position |-> 0]
    /\ nextSequence = [r \in Runs |-> 0]
    /\ pass = [c \in Consumers |-> Idle]
    /\ faults = 0

Fault ==
    /\ faults < MaxFaults
    /\ faults' = faults + 1

-----------------------------------------------------------------------------
\* The host.

\* appendRuntimeEvent: the envelope takes the next sequence of the stream.
\* A session of an earlier assignment may still publish.
AppendEvent(e) ==
    /\ Len(emitted) < MaxEvents
    /\ e.run \in Runs => e.epoch <= epoch[e.run]
    /\ emitted' = Append(emitted, e)
    /\ UNCHANGED <<floor, acknowledged, epoch, row, claim, ingested, pass,
                   faults>>

\* pruneAcknowledgedRuntimeEvents: a prefix of the acknowledged rows goes.
PruneEvents ==
    /\ \E p \in (floor + 1)..acknowledged : floor' = p
    /\ UNCHANGED <<emitted, acknowledged, epoch, row, claim, ingested, pass,
                   faults>>

\* The manager supersedes the run's active assignment.
MintAssignment(r) ==
    /\ epoch[r] < MaxEpoch
    /\ epoch' = [epoch EXCEPT ![r] = @ + 1]
    /\ UNCHANGED <<host, row, claim, ingested, pass, faults>>
-----------------------------------------------------------------------------
\* The ingest transaction.

Run(p) == emitted[p].run
Unstorable(p) ==
    /\ verdict[p] = "none"
    /\ Run(p) \in Runs
    /\ emitted[p].kind = "unstorable"

\* resolveAssignment at promotion: the envelope's assignment is the active
\* one, or the envelope is a receipt of a durable command.
Accepted(p) ==
    \/ emitted[p].epoch = epoch[Run(p)]
    \/ emitted[p].kind = "receipt"

\* A new envelope of a known run becomes a pending row, one of an unknown
\* run a row of the skip ledger; a known position is a duplicate.
Classify(ps) ==
    [p \in Position |->
        IF p \in ps /\ verdict[p] = "none"
        THEN IF Run(p) \in Runs THEN "pending_gap" ELSE "skipped"
        ELSE verdict[p]]

\* promoteContiguousPrefix: the walk from the watermark to the first hole.
Walk(d) ==
    CHOOSE n \in contiguous..MaxEvents :
        /\ \A p \in (contiguous + 1)..n : d[p] # "none"
        /\ n < MaxEvents => d[n + 1] = "none"

\* Mutant: rows that were promoted before are promoted again.
PromotedAgain(d, n) == {p \in 1..n : d[p] \in {"pending_gap", "accepted"}}

\* The rows of the walk that still wait for their verdict.
Promoted(d, n) == {p \in (contiguous + 1)..n : d[p] = "pending_gap"}

\* Mutant: the page takes its run sequences from the counter as it was read.
RankOfPage(p, ps) == 0

\* The rank of a promoted position among those of its run.
Rank(p, ps) == Cardinality({q \in ps : q < p})

\* applyPromotedPage and the stream row's new watermark: the pending rows of
\* the prefix get their verdict, the accepted ones of a run the next run
\* sequences in host order.
Promote(d) ==
    LET n == Walk(d)
        promoted == Promoted(d, n)
        ordered(r) == {p \in promoted : Accepted(p) /\ Run(p) = r}
    IN  /\ verdict' = [p \in Position |->
               IF p \in promoted
               THEN IF Accepted(p) THEN "accepted" ELSE "stale_epoch"
               ELSE d[p]]
        /\ runSequence' = [p \in Position |->
               IF p \in promoted /\ Accepted(p)
               THEN nextSequence[Run(p)] + Rank(p, ordered(Run(p)))
               ELSE runSequence[p]]
        /\ nextSequence' = [r \in Runs |->
               nextSequence[r] + Cardinality(ordered(r))]
        /\ contiguous' = n
        /\ state' = "active"

\* ingestPreparedBatch: duplicates alone move nothing; the lease is renewed
\* when the locked stream still names the consumer.
Ingest(c, ps) ==
    /\ IF \E p \in ps : verdict[p] = "none"
       THEN Promote(Classify(ps))
       ELSE UNCHANGED <<ingested, contiguous, state>>
    /\ leased' = (leased \/ (pass[c].claimed /\ owner = c))

\* quarantineUnstorableEvent: a payload that no retry can store goes to the
\* skip ledger; no lease is checked or renewed.
Quarantine(p) ==
    /\ Promote([verdict EXCEPT ![p] = "skipped"])
    /\ UNCHANGED leased

\* claimRenewed of one transaction.
Renewed(c) ==
    IF ~pass[c].claimed THEN "none" ELSE IF owner = c THEN "yes" ELSE "no"

\* mergeOutcomes over the transactions of a split batch.
Merge(r1, r2) ==
    IF "no" \in {r1, r2} THEN "no"
    ELSE IF "yes" \in {r1, r2} THEN "yes" ELSE "none"

-----------------------------------------------------------------------------
\* One pass of a consumer.

Free(c) == ~leased \/ owner = c

\* claimRuntimeEventStream: the active stream, when nobody else's lease is
\* live.
Claim(c) ==
    /\ state = "active"
    /\ Free(c)
    /\ owner' = c
    /\ leased' = TRUE

\* The pass starts at the watermark; what was ingested and not acknowledged
\* is acknowledged first.
StartPass(c) ==
    /\ pass[c].at = "idle"
    /\ Claim(c)
    /\ pass' = [pass EXCEPT ![c] =
           [Idle EXCEPT !.at = IF contiguous # confirmed THEN "catchup"
                               ELSE "open",
                        !.claimed = TRUE,
                        !.got = contiguous,
                        !.through = contiguous,
                        !.lastAck = confirmed]]
    /\ UNCHANGED <<host, epoch, row, ingested, faults>>

\* Without a claim the pass goes on, without a cursor.
StartUnclaimed(c) ==
    /\ pass[c].at = "idle"
    /\ ~(state = "active" /\ Free(c))
    /\ pass' = [pass EXCEPT ![c] = [Idle EXCEPT !.at = "open"]]
    /\ UNCHANGED <<host, epoch, row, claim, ingested, faults>>

\* Mutant: no cursor starts at the tip.
OpenStreamAtTip(c) ==
    /\ pass[c].at = "open"
    /\ pass' = [pass EXCEPT ![c] =
           IF @.got # 0 /\ @.got < floor THEN [@ EXCEPT !.at = "failing"]
           ELSE LET start == IF @.got = 0 THEN Len(emitted) ELSE @.got
                IN  [@ EXCEPT !.at = "reading", !.got = start,
                              !.read = start, !.through = 0]]
    /\ UNCHANGED <<host, epoch, row, claim, ingested, faults>>

\* GET /runtime-events: a cursor below the replay floor is refused, no cursor
\* starts at the floor.
OpenStream(c) ==
    /\ pass[c].at = "open"
    /\ pass' = [pass EXCEPT ![c] =
           IF @.got # 0 /\ @.got < floor THEN [@ EXCEPT !.at = "failing"]
           ELSE LET start == IF @.got = 0 THEN floor ELSE @.got
                IN  [@ EXCEPT !.at = "reading", !.got = start,
                              !.read = start, !.through = 0]]
    /\ UNCHANGED <<host, epoch, row, claim, ingested, faults>>

\* The reader buffers the next retained row, whatever the batcher is doing
\* with the earlier ones; a full buffer stops it.
ReadFrame(c) ==
    /\ pass[c].at \in {"reading", "split", "bootstrap", "ack", "ack_sent"}
    /\ floor <= pass[c].read
    /\ pass[c].read < Len(emitted)
    /\ pass[c].read - pass[c].got < BufferRows
    /\ pass' = [pass EXCEPT ![c] = [@ EXCEPT !.read = pass[c].read + 1]]
    /\ UNCHANGED <<host, epoch, row, claim, ingested, faults>>

\* After the commit: a pass without a claim tries for one, a pass that lost
\* its lease ends, and a watermark above the last acknowledgement is
\* acknowledged.
AfterBatch(q, renewed, end) ==
    IF ~q.claimed
    THEN [q EXCEPT !.at = "bootstrap", !.got = end, !.cut = 0,
                   !.renewed = "none", !.through = contiguous']
    ELSE IF renewed = "no" THEN Idle
    ELSE IF contiguous' > q.lastAck
    THEN [q EXCEPT !.at = "ack", !.got = end, !.cut = 0,
                   !.renewed = "none", !.through = contiguous']
    ELSE [q EXCEPT !.at = "reading", !.got = end, !.cut = 0,
                   !.renewed = "none"]

\* cutBatch takes leading frames of the buffer, at most BatchRows.
Batch(c, cut) == (pass[c].got + 1)..cut
Cuts(c) ==
    {n \in (pass[c].got + 1)..pass[c].read : n - pass[c].got <= BatchRows}

IngestBatch(c) ==
    /\ pass[c].at = "reading"
    /\ \E cut \in Cuts(c) :
        /\ \A p \in Batch(c, cut) : ~Unstorable(p)
        /\ Ingest(c, Batch(c, cut))
        /\ pass' = [pass EXCEPT ![c] = AfterBatch(@, Renewed(c), cut)]
    /\ UNCHANGED <<host, epoch, confirmed, repairing, owner, faults>>

\* PostgreSQL refused a payload of the batch: nothing was committed, and the
\* frames are ingested one at a time.
SplitBatch(c) ==
    /\ pass[c].at = "reading"
    /\ \E cut \in Cuts(c) :
        /\ \E p \in Batch(c, cut) : Unstorable(p)
        /\ pass' = [pass EXCEPT ![c] = [@ EXCEPT !.at = "split", !.cut = cut]]
    /\ UNCHANGED <<host, epoch, row, claim, ingested, faults>>

\* Mutant: a payload that cannot be stored fails the pass.
IngestOneOrFail(c) ==
    LET q == pass[c]
        p == q.got + 1
    IN  /\ q.at = "split"
        /\ IF Unstorable(p)
           THEN /\ UNCHANGED <<ingested, contiguous, state, leased>>
                /\ pass' = [pass EXCEPT ![c] = [@ EXCEPT !.at = "failing"]]
           ELSE /\ Ingest(c, {p})
                /\ LET r == Merge(q.renewed, Renewed(c))
                   IN  pass' = [pass EXCEPT ![c] =
                           IF p = q.cut THEN AfterBatch(q, r, p)
                           ELSE [q EXCEPT !.got = p, !.renewed = r]]
        /\ UNCHANGED <<host, epoch, confirmed, repairing, owner, faults>>

IngestOne(c) ==
    LET q == pass[c]
        p == q.got + 1
    IN  /\ q.at = "split"
        /\ \/ ~Unstorable(p) /\ Ingest(c, {p})
           \/ Unstorable(p) /\ Quarantine(p)
        /\ LET r == IF Unstorable(p) THEN q.renewed
                    ELSE Merge(q.renewed, Renewed(c))
           IN  pass' = [pass EXCEPT ![c] =
                   IF p = q.cut THEN AfterBatch(q, r, p)
                   ELSE [q EXCEPT !.got = p, !.renewed = r]]
        /\ UNCHANGED <<host, epoch, confirmed, repairing, owner, faults>>

\* The claim of a pass that started without one.
ClaimAfterIngest(c) ==
    /\ pass[c].at = "bootstrap"
    /\ Claim(c)
    /\ pass' = [pass EXCEPT ![c] =
           [@ EXCEPT !.claimed = TRUE,
                     !.at = IF pass[c].through > pass[c].lastAck THEN "ack"
                            ELSE "reading"]]
    /\ UNCHANGED <<host, epoch, row, ingested, faults>>

\* No claim to be had: reconnect with reason claim_lost.
ReconnectUnclaimed(c) ==
    /\ pass[c].at = "bootstrap"
    /\ ~(state = "active" /\ Free(c))
    /\ pass' = [pass EXCEPT ![c] = Idle]
    /\ UNCHANGED <<host, epoch, row, claim, ingested, faults>>

\* ackRuntimeEvents on the host, and its answer: the host answers with its
\* own watermark, which the consumer compares with the one it sent.
SendAck(c) ==
    /\ pass[c].at \in {"catchup", "ack"}
    /\ acknowledged' = IF pass[c].through > acknowledged THEN pass[c].through
                       ELSE acknowledged
    /\ pass' = [pass EXCEPT ![c] = [@ EXCEPT !.at =
           IF acknowledged' # pass[c].through THEN "failing"
           ELSE IF pass[c].at = "ack" THEN "ack_sent" ELSE "catchup_sent"]]
    /\ UNCHANGED <<emitted, floor, epoch, row, claim, ingested, faults>>

\* The request is lost, or the host commits and the answer is lost.
LoseAck(c) ==
    /\ Fault
    /\ pass[c].at \in {"catchup", "ack"}
    /\ acknowledged' \in {acknowledged} \cup
           {p \in {pass[c].through} : p > acknowledged}
    /\ pass' = [pass EXCEPT ![c] = [@ EXCEPT !.at = "failing"]]
    /\ UNCHANGED <<emitted, floor, epoch, row, claim, ingested>>

\* Mutant: the watermark is recorded instead of what the host answered.
RecordAckOfWatermark(c) ==
    LET q == pass[c] IN
    /\ q.at \in {"catchup_sent", "ack_sent"}
    /\ confirmed' = contiguous
    /\ repairing' = FALSE
    /\ pass' = [pass EXCEPT ![c] =
           [@ EXCEPT !.at = IF q.at = "ack_sent" THEN "reading" ELSE "open",
                     !.lastAck = contiguous, !.through = 0]]
    /\ UNCHANGED <<host, epoch, state, contiguous, claim, ingested, faults>>

\* recordConfirmedRuntimeEventAck: only the claim's owner records, without a
\* look at the expiry.
RecordAck(c) ==
    LET q == pass[c] IN
    /\ q.at \in {"catchup_sent", "ack_sent"}
    /\ IF owner = c /\ q.through <= contiguous
       THEN /\ confirmed' = IF q.through > confirmed THEN q.through
                            ELSE confirmed
            /\ repairing' = (repairing /\ q.through <= confirmed)
            /\ pass' = [pass EXCEPT ![c] =
                   [@ EXCEPT !.at = IF q.at = "ack_sent" THEN "reading"
                                    ELSE "open",
                             !.lastAck = q.through, !.through = 0]]
       ELSE /\ pass' = [pass EXCEPT ![c] = Idle]
            /\ UNCHANGED <<confirmed, repairing>>
    /\ UNCHANGED <<host, epoch, state, contiguous, claim, ingested, faults>>

\* recordConsumerFailure: the claim on the pass's stream, or on the host's
\* active stream, expires whoever holds it.
RecordFailure(c) ==
    /\ pass[c].at = "failing"
    /\ pass' = [pass EXCEPT ![c] = Idle]
    /\ IF pass[c].claimed \/ state = "active"
       THEN leased' = FALSE /\ repairing' = FALSE
       ELSE UNCHANGED <<leased, repairing>>
    /\ UNCHANGED <<host, epoch, state, contiguous, confirmed, owner, ingested,
                   faults>>

\* The host closes a subscriber that fell below the replay floor; what was
\* buffered is ingested first.
CloseBelowFloor(c) ==
    /\ pass[c].at = "reading"
    /\ pass[c].got = pass[c].read
    /\ pass[c].read < floor
    /\ pass' = [pass EXCEPT ![c] = Idle]
    /\ UNCHANGED <<host, epoch, row, claim, ingested, faults>>

\* The link breaks, with an error or with a clean end of the stream; a loop
\* aborted while it waited for its claim fails before it opens one.
BreakLink(c) ==
    /\ Fault
    /\ \/ /\ pass[c].at = "reading"
          /\ pass[c].got = pass[c].read
          /\ pass' = [pass EXCEPT ![c] = Idle]
       \/ /\ \/ pass[c].at = "open"
             \/ pass[c].at = "reading" /\ pass[c].got = pass[c].read
          /\ pass' = [pass EXCEPT ![c] = [@ EXCEPT !.at = "failing"]]
    /\ UNCHANGED <<host, epoch, row, claim, ingested>>

\* Only ingest renews a lease, so it runs out under a holder that waits for
\* frames, between two passes, and after its process died.
Waiting(c) ==
    \/ pass[c].at = "idle"
    \/ pass[c].at = "reading" /\ pass[c].got = pass[c].read

ExpireLease ==
    /\ leased
    /\ owner \in Consumers => Waiting(owner)
    /\ leased' = FALSE
    /\ UNCHANGED <<host, epoch, row, owner, ingested, pass, faults>>

\* A process is paused for longer than the lease while it is at work.
PauseHolder ==
    /\ Fault
    /\ leased
    /\ owner \in Consumers /\ ~Waiting(owner)
    /\ leased' = FALSE
    /\ UNCHANGED <<host, epoch, row, owner, ingested, pass>>

\* An aborted loop leaves its pass between two batches and releases its own
\* lease.
Abort(c) ==
    /\ pass[c].at \in {"idle", "reading"}
    /\ pass' = [pass EXCEPT ![c] = Idle]
    /\ leased' = (leased /\ owner # c)

StopConsumer(c) ==
    /\ Fault
    /\ Abort(c)
    /\ UNCHANGED <<host, epoch, row, owner, ingested>>

\* The web process dies; the next loop is another owner.
CrashConsumer(c) ==
    /\ Fault
    /\ pass' = [pass EXCEPT ![c] = Idle]
    /\ owner' = IF owner = c THEN Departed ELSE owner
    /\ UNCHANGED <<host, epoch, row, leased, ingested>>

\* runEventStreamHealthPass: the first pass over a silent stream restarts its
\* consumer, the second gives the stream up.
RepairStream(c) ==
    /\ Fault
    /\ state = "active"
    /\ ~repairing
    /\ repairing' = TRUE
    /\ Abort(c)
    /\ UNCHANGED <<host, epoch, state, contiguous, confirmed, owner, ingested>>

DegradeStream ==
    /\ state = "active"
    /\ repairing
    /\ state' = "lost"
    /\ UNCHANGED <<host, epoch, contiguous, confirmed, repairing, claim,
                   ingested, pass, faults>>

Consume(c) ==
    \/ StartPass(c) \/ StartUnclaimed(c) \/ OpenStream(c) \/ ReadFrame(c)
    \/ IngestBatch(c) \/ SplitBatch(c) \/ IngestOne(c)
    \/ ClaimAfterIngest(c) \/ ReconnectUnclaimed(c)
    \/ SendAck(c) \/ RecordAck(c) \/ RecordFailure(c) \/ CloseBelowFloor(c)

Next ==
    \/ \E e \in Envelopes : AppendEvent(e)
    \/ PruneEvents
    \/ \E r \in Runs : MintAssignment(r)
    \/ ExpireLease
    \/ PauseHolder
    \/ DegradeStream
    \/ \E c \in Consumers :
        \/ Consume(c)
        \/ LoseAck(c) \/ BreakLink(c) \/ StopConsumer(c)
        \/ CrashConsumer(c) \/ RepairStream(c)

Spec == Init /\ [][Next]_vars

\* Each loop goes on while its process lives, and time passes.  Nothing makes
\* the host emit, prune or the manager mint.
Fairness ==
    /\ \A c \in Consumers : WF_vars(Consume(c))
    /\ WF_vars(ExpireLease)

LiveSpec == Spec /\ Fairness

-----------------------------------------------------------------------------
\* What the plane promises.

\* An event leaves the host only after the manager settled it: what the host
\* counts as acknowledged, and so may prune, lies within the manager's
\* watermark, and the manager believes in no acknowledgement the host does
\* not have (ackRuntimeEvents, pruneAcknowledgedRuntimeEvents,
\* recordConfirmedRuntimeEventAck), whoever sent it and however late.
NothingLost ==
    /\ floor <= acknowledged
    /\ confirmed <= acknowledged
    /\ acknowledged <= contiguous
    /\ contiguous <= Len(emitted)

\* The watermark says exactly which positions are settled: every one up to it
\* and none beyond, so no committed batch ever leaves a gap
\* (promoteContiguousPrefix, claimRuntimeEventStream's cursor).
SettledPrefix ==
    \A p \in Position :
        verdict[p] \in IF p <= contiguous THEN Verdicts ELSE {"none"}

\* The run sequences the projectors read by follow the host's order, across
\* batches, consumers and splits, and no number is given twice
\* (applyPromotedPage).
RunOrder ==
    \A p \in Position :
        verdict[p] = "accepted" =>
            /\ Run(p) \in Runs
            /\ runSequence[p] < nextSequence[Run(p)]
            /\ \A q \in Position :
                (q < p /\ verdict[q] = "accepted" /\ Run(q) = Run(p)) =>
                    runSequence[q] < runSequence[p]

\* What no pass may do to the above: it never hands over a frame beyond the
\* host's log, never leaves a hole behind its cursor, never acknowledges past
\* the watermark and never records an acknowledgement the host did not make.
PassBounds ==
    \A c \in Consumers :
        LET q == pass[c] IN
        /\ q.read <= Len(emitted)
        /\ q.got <= contiguous
        /\ q.through <= contiguous
        /\ q.at = "split" => q.got < q.cut /\ q.cut <= q.read
        /\ q.at \in {"catchup_sent", "ack_sent"} => q.through <= acknowledged

\* The inductive invariant (EventPlane_proofs).
PlaneInv ==
    /\ TypeOK
    /\ Len(emitted) <= MaxEvents
    /\ NothingLost
    /\ SettledPrefix
    /\ RunOrder
    /\ PassBounds

\* Every position is settled once, in host order, and keeps its verdict.
Log == INSTANCE OrderedLog WITH
    log <- [p \in 1..contiguous |-> verdict[p]]
InOrderOnce == Log!Spec

\* Unless the health pass gives the stream up for good, whatever the host
\* emits is settled: no crash, lost acknowledgement or stolen lease makes the
\* consumers replay for ever (startRuntimeEventConsumer).
EventsArrive ==
    <>[](state # "lost") =>
        \A p \in Position : (Len(emitted) >= p) ~> (contiguous >= p)

=============================================================================
