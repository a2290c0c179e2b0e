----------------------------- MODULE Projection -----------------------------
(***************************************************************************)
(* One projector over the accepted events of every run                     *)
(* (web/lib/execution-host/events/projector.ts, projection-worker.ts): the *)
(* worker's slots and the readers that help out claim a run's consumer     *)
(* row, prepare a batch outside any transaction, and apply it in one       *)
(* transaction together with the cursor; a failed batch is recorded in a   *)
(* second one.  EventPlane produces the events: event i of a run is its    *)
(* i-th run sequence.                                                      *)
(*                                                                         *)
(* Every transaction is one step.  SKIP LOCKED is left out: two claim      *)
(* transactions that meet choose as if one had come after the other.       *)
(***************************************************************************)
EXTENDS Naturals, Sequences, FiniteSets

CONSTANTS
    NumRuns,      \* runs, in the order of the backfill's keyset
    Legacy,       \* runs with an event from before the consumer was seeded
    Slots,        \* slots of projection workers
    Readers,      \* requests that help with a quantum (projectExecutionEvents)
    Broken,       \* <<run, event>>: the handler refuses the event for good
    Unreachable,  \* runs whose referenced content cannot be loaded
    BatchRows,    \* events of a quantum
    PageRows,     \* runs of a backfill page
    MaxAttempts,  \* MAX_TRANSIENT_ATTEMPTS
    MaxEvents,    \* bound: events of a run
    MaxFaults,    \* bound: crashes, pauses, shutdowns, lost connections
    MaxRearms,    \* bound: operator repairs
    Nobody,       \* no claim
    Departed      \* a claim token that nobody will present again

Runs == 1..NumRuns
Actors == Slots \cup Readers

ASSUME ProjectionAssumption ==
    /\ NumRuns \in Nat
    /\ Legacy \subseteq Runs
    /\ Unreachable \subseteq Runs
    /\ Broken \subseteq Runs \X (Nat \ {0})
    /\ BatchRows \in Nat \ {0}
    /\ PageRows \in Nat \ {0}
    /\ MaxAttempts \in Nat \ {0}
    /\ MaxEvents \in Nat \ {0}
    /\ MaxFaults \in Nat
    /\ MaxRearms \in Nat
    /\ Slots \cap Readers = {}
    /\ {Nobody, Departed} \cap Actors = {}
    /\ Nobody # Departed

VARIABLES
    accepted,  \* accepted events of each run
    seeded,    \* the run has a consumer row
    cursor,    \* last_run_sequence
    state,     \* ready, retrying or poisoned
    attempts,  \* failures in a row
    due,       \* next_retry_at is null or past
    owner,     \* claim_owner
    leased,    \* claim_expires_at lies ahead
    failed,    \* last_error.eventId, 0 for none
    generation,\* last_error.errorGeneration, 0 for none
    view,      \* what the handler applied, in the order it did
    served,    \* the runs by last_served_at, least recent first
    scan,      \* the backfill: after, and whether it is complete
    actor,     \* what each slot and reader is doing
    note,      \* the failure an operator has looked at
    rearms,    \* repairs so far
    faults     \* faults so far

row == <<cursor, state, attempts, due, failed, generation>>
claim == <<owner, leased>>
feed == <<accepted, seeded, scan>>
repair == <<note, rearms>>
vars == <<feed, row, claim, view, served, actor, repair, faults>>

Idle == [at |-> "idle", run |-> 0, cursor |-> 0, upto |-> 0, through |-> 0,
         failed |-> 0, permanent |-> FALSE]
Work == [at : {"idle", "asked", "claimed", "prepared", "failing"},
         run : Nat, cursor : Nat, upto : Nat, through : Nat, failed : Nat,
         permanent : BOOLEAN]
NoNote == [run |-> 0, generation |-> 0]

TypeOK ==
    /\ accepted \in [Runs -> Nat]
    /\ seeded \in [Runs -> BOOLEAN]
    /\ cursor \in [Runs -> Nat]
    /\ state \in [Runs -> {"ready", "retrying", "poisoned"}]
    /\ attempts \in [Runs -> Nat]
    /\ due \in [Runs -> BOOLEAN]
    /\ owner \in [Runs -> Actors \cup {Nobody, Departed}]
    /\ leased \in [Runs -> BOOLEAN]
    /\ failed \in [Runs -> Nat]
    /\ generation \in [Runs -> 0..2]
    /\ view \in [Runs -> Seq(Nat)]
    /\ served \in [Runs -> Runs]
    /\ scan \in [after : Nat, complete : BOOLEAN]
    /\ actor \in [Actors -> Work]
    /\ note \in [run : Nat, generation : 0..2]
    /\ rearms \in Nat
    /\ faults \in Nat

Init ==
    /\ accepted = [r \in Runs |-> IF r \in Legacy THEN 1 ELSE 0]
    /\ seeded = [r \in Runs |-> FALSE]
    /\ cursor = [r \in Runs |-> 0]
    /\ state = [r \in Runs |-> "ready"]
    /\ attempts = [r \in Runs |-> 0]
    /\ due = [r \in Runs |-> TRUE]
    /\ owner = [r \in Runs |-> Nobody]
    /\ leased = [r \in Runs |-> FALSE]
    /\ failed = [r \in Runs |-> 0]
    /\ generation = [r \in Runs |-> 0]
    /\ view = [r \in Runs |-> <<>>]
    /\ served = [r \in Runs |-> r]
    /\ scan = [after |-> 0, complete |-> FALSE]
    /\ actor = [a \in Actors |-> Idle]
    /\ note = NoNote
    /\ rearms = 0
    /\ faults = 0

Fault ==
    /\ faults < MaxFaults
    /\ faults' = faults + 1

-----------------------------------------------------------------------------
\* Where the work comes from.

\* Ingest promotes an event of the run and seeds its consumers
\* (seedCanonicalProjectionConsumers).
Accept(r) ==
    /\ accepted[r] < MaxEvents
    /\ accepted' = [accepted EXCEPT ![r] = @ + 1]
    /\ seeded' = [seeded EXCEPT ![r] = TRUE]
    /\ UNCHANGED <<scan, row, claim, view, served, actor, repair, faults>>

\* The page of a scan: the first runs with an event beyond the cursor.
Page ==
    {r \in Runs :
        /\ r > scan.after
        /\ accepted[r] > 0
        /\ Cardinality({q \in Runs : /\ scan.after < q
                                     /\ q < r
                                     /\ accepted[q] > 0}) < PageRows}

\* backfillProjectionConsumers: the page's rows and the scan cursor commit
\* together; a short page is the last.
Backfill ==
    /\ ~scan.complete
    /\ seeded' = [r \in Runs |-> seeded[r] \/ r \in Page]
    /\ \E last \in Page \cup {scan.after} :
        /\ \A q \in Page : q <= last
        /\ scan' = [after |-> last, complete |-> Cardinality(Page) < PageRows]
    /\ UNCHANGED <<accepted, row, claim, view, served, actor, repair, faults>>

-----------------------------------------------------------------------------
\* Claims.

\* Mutant: a poisoned run is claimed again.
EligiblePoisoned(r) == seeded[r] /\ due[r] /\ ~leased[r] /\ cursor[r] < accepted[r]

\* claimNextExecutionProjection: the least recently served run that has work.
Eligible(r) ==
    /\ seeded[r]
    /\ state[r] # "poisoned"
    /\ due[r]
    /\ ~leased[r]
    /\ cursor[r] < accepted[r]

\* Mutant: the runs are served by their key.
CandidateByKey ==
    {r \in Runs : Eligible(r) /\ \A q \in 1..(r - 1) : ~Eligible(q)}

Candidate ==
    {served[i] : i \in {k \in DOMAIN served :
        /\ Eligible(served[k])
        /\ \A j \in 1..(k - 1) : ~Eligible(served[j])}}

\* A claim, a commit and a failure move the run to the back.
Served(r) ==
    [i \in Runs |-> IF \A j \in 1..i : served[j] # r THEN served[i]
                   ELSE IF i < NumRuns THEN served[i + 1]
                   ELSE r]

Take(a, r, through) ==
    /\ owner' = [owner EXCEPT ![r] = a]
    /\ leased' = [leased EXCEPT ![r] = TRUE]
    /\ actor' = [actor EXCEPT ![a] =
           [Idle EXCEPT !.at = "claimed", !.run = r, !.cursor = cursor[r],
                        !.through = through]]

ClaimNext(a) ==
    /\ a \in Slots
    /\ actor[a].at = "idle"
    /\ \E r \in Candidate :
        /\ Take(a, r, MaxEvents)
        /\ served' = Served(r)
    /\ UNCHANGED <<feed, row, view, repair, faults>>

\* A reader compares the run's head with the cursor, and asks for a quantum
\* up to that head.
Look(a) ==
    /\ a \in Readers
    /\ actor[a].at = "idle"
    /\ \E r \in Runs :
        /\ cursor[r] < accepted[r]
        /\ actor' = [actor EXCEPT ![a] =
               [Idle EXCEPT !.at = "asked", !.run = r,
                            !.through = accepted[r]]]
    /\ UNCHANGED <<feed, row, claim, view, served, repair, faults>>

\* claimConsumer: the row is made when it is missing; a poisoned, backing off
\* or claimed one is unavailable.
ClaimAsked(a) ==
    LET r == actor[a].run IN
    /\ actor[a].at = "asked"
    /\ seeded' = [seeded EXCEPT ![r] = TRUE]
    /\ IF state[r] # "poisoned" /\ due[r] /\ ~leased[r]
       THEN Take(a, r, actor[a].through)
       ELSE /\ actor' = [actor EXCEPT ![a] = Idle]
            /\ UNCHANGED claim
    /\ UNCHANGED <<accepted, scan, row, view, served, repair, faults>>

-----------------------------------------------------------------------------
\* applyClaimedExecutionProjection.

\* readProjectionEvents: events after the claim's cursor, at least one when
\* there is one.
Batches(a) ==
    LET w == actor[a]
        last == CHOOSE n \in {accepted[w.run], w.through, w.cursor + BatchRows} :
                    \A m \in {accepted[w.run], w.through, w.cursor + BatchRows} :
                        n <= m
    IN  IF last <= w.cursor THEN {w.cursor} ELSE (w.cursor + 1)..last

\* The events up to n that a broken one does not hold back.
Sound(a, n) ==
    \A e \in (actor[a].cursor + 1)..n : <<actor[a].run, e>> \notin Broken

\* prepare hydrates the batch outside the apply transaction.
Prepare(a) ==
    /\ actor[a].at = "claimed"
    /\ actor[a].run \notin Unreachable
    /\ \E n \in Batches(a) :
        actor' = [actor EXCEPT ![a] = [@ EXCEPT !.at = "prepared", !.upto = n]]
    /\ UNCHANGED <<feed, row, claim, view, served, repair, faults>>

\* EXECUTOR_UNAVAILABLE is nobody's failure: the claim stays until its lease
\* runs out, and the token is forgotten.
Forget(a) ==
    /\ owner' = [r \in Runs |-> IF owner[r] = a THEN Departed ELSE owner[r]]
    /\ actor' = [actor EXCEPT ![a] = Idle]

PrepareUnavailable(a) ==
    /\ actor[a].at = "claimed"
    /\ actor[a].run \in Unreachable
    /\ Forget(a)
    /\ UNCHANGED <<feed, row, leased, view, served, repair, faults>>

\* Mutant: only the lease is looked at.
CurrentByLease(a) == leased[actor[a].run]

\* The row, read again under its lock, still belongs to the claim.
Current(a) ==
    LET r == actor[a].run IN
    /\ owner[r] = a
    /\ cursor[r] = actor[a].cursor
    /\ leased[r]

\* The handler's writes and the cursor commit together.
Commit(a, n) ==
    LET r == actor[a].run IN
    /\ view' = [view EXCEPT ![r] =
           @ \o [i \in 1..(n - actor[a].cursor) |-> actor[a].cursor + i]]
    /\ cursor' = [cursor EXCEPT ![r] = n]
    /\ state' = [state EXCEPT ![r] = "ready"]
    /\ attempts' = [attempts EXCEPT ![r] = 0]
    /\ due' = [due EXCEPT ![r] = TRUE]
    /\ failed' = [failed EXCEPT ![r] = 0]
    /\ owner' = [owner EXCEPT ![r] = Nobody]
    /\ leased' = [leased EXCEPT ![r] = FALSE]
    /\ generation' = [generation EXCEPT ![r] = 0]
    /\ served' = Served(r)

\* The soft deadline may end the batch early, after one event at least.
Prefixes(a) ==
    LET w == actor[a] IN
    {n \in w.cursor..w.upto :
        /\ w.upto = w.cursor \/ n > w.cursor
        /\ Sound(a, n)}

Apply(a) ==
    /\ actor[a].at = "prepared"
    /\ Current(a)
    /\ \E n \in Prefixes(a) : Commit(a, n)
    /\ actor' = [actor EXCEPT ![a] = Idle]
    /\ UNCHANGED <<feed, repair, faults>>

\* The claim was lost meanwhile: nothing is applied.
ApplyStale(a) ==
    /\ actor[a].at = "prepared"
    /\ ~Current(a)
    /\ actor' = [actor EXCEPT ![a] = Idle]
    /\ UNCHANGED <<feed, row, claim, view, served, repair, faults>>

\* An event of the batch fails, while it is prepared or in the transaction,
\* which is rolled back; a broken one always does.
FailEvent(a) ==
    /\ \/ actor[a].at = "claimed" /\ actor[a].run \notin Unreachable
       \/ actor[a].at = "prepared" /\ Current(a)
    /\ \E n \in IF actor[a].at = "claimed" THEN Batches(a)
                ELSE {actor[a].upto} :
       \E e \in (actor[a].cursor + 1)..n :
        /\ Sound(a, e - 1)
        /\ actor' = [actor EXCEPT ![a] =
               [@ EXCEPT !.at = "failing", !.failed = e,
                         !.permanent = <<actor[a].run, e>> \in Broken]]
    /\ UNCHANGED <<feed, row, claim, view, served, repair, faults>>

\* The transaction's deadline passes while its commit goes through: the
\* caller sees a failure of an applied batch.
CommitPastDeadline(a) ==
    /\ Fault
    /\ actor[a].at = "prepared"
    /\ Current(a)
    /\ \E n \in Prefixes(a) :
        /\ n > actor[a].cursor
        /\ Commit(a, n)
        /\ actor' = [actor EXCEPT ![a] =
               [@ EXCEPT !.at = "failing", !.failed = n]]
    /\ UNCHANGED <<feed, repair>>

\* A connection whose rollback cannot be confirmed: the claim is retained.
LoseConnection(a) ==
    /\ Fault
    /\ actor[a].at \in {"claimed", "prepared"}
    /\ Forget(a)
    /\ UNCHANGED <<feed, row, leased, view, served, repair>>

\* Mutant: any failure is recorded.
FailureCurrentAlways(a) == TRUE

\* A failure is recorded by the claim that saw it, ahead of the cursor.
FailureCurrent(a) ==
    LET r == actor[a].run IN
    /\ owner[r] = a
    /\ cursor[r] = actor[a].cursor
    /\ actor[a].failed > cursor[r]

\* A new error generation: no operator has seen it.
Fresh(r) == CHOOSE g \in {1, 2} : note # [run |-> r, generation |-> g]

\* recordProjectionFailure.
RecordFailure(a) ==
    LET r == actor[a].run
        poisoned == actor[a].permanent \/ attempts[r] + 1 >= MaxAttempts
    IN  /\ actor[a].at = "failing"
        /\ actor' = [actor EXCEPT ![a] = Idle]
        /\ IF FailureCurrent(a)
           THEN /\ state' = [state EXCEPT ![r] = IF poisoned THEN "poisoned"
                                                 ELSE "retrying"]
                /\ attempts' = [attempts EXCEPT ![r] = @ + 1]
                /\ due' = [due EXCEPT ![r] = poisoned]
                /\ failed' = [failed EXCEPT ![r] = actor[a].failed]
                /\ generation' = [generation EXCEPT ![r] = Fresh(r)]
                /\ owner' = [owner EXCEPT ![r] = Nobody]
                /\ leased' = [leased EXCEPT ![r] = FALSE]
                /\ served' = Served(r)
                /\ UNCHANGED cursor
           ELSE UNCHANGED <<row, claim, served>>
        /\ UNCHANGED <<feed, view, repair, faults>>

\* releaseExecutionProjectionClaim: shutdown gives back its own token only.
Shutdown(a) ==
    LET r == actor[a].run IN
    /\ Fault
    /\ a \in Slots
    /\ actor[a].at \in {"claimed", "prepared", "failing"}
    /\ actor' = [actor EXCEPT ![a] = Idle]
    /\ IF owner[r] = a /\ cursor[r] = actor[a].cursor
       THEN /\ owner' = [owner EXCEPT ![r] = Nobody]
            /\ leased' = [leased EXCEPT ![r] = FALSE]
       ELSE UNCHANGED claim
    /\ UNCHANGED <<feed, row, view, served, repair>>

\* The process dies.
Crash(a) ==
    /\ Fault
    /\ actor[a].at # "idle"
    /\ Forget(a)
    /\ UNCHANGED <<feed, row, leased, view, served, repair>>

-----------------------------------------------------------------------------
\* Time, and the operator.

Expire(r) ==
    /\ leased[r]
    /\ owner[r] = Departed
    /\ leased' = [leased EXCEPT ![r] = FALSE]
    /\ UNCHANGED <<feed, row, owner, view, served, actor, repair, faults>>

\* A holder is paused for longer than its lease.
Pause(r) ==
    /\ Fault
    /\ leased[r]
    /\ owner[r] \in Actors
    /\ leased' = [leased EXCEPT ![r] = FALSE]
    /\ UNCHANGED <<feed, row, owner, view, served, actor, repair>>

RetryDue(r) ==
    /\ ~due[r]
    /\ due' = [due EXCEPT ![r] = TRUE]
    /\ UNCHANGED <<feed, cursor, state, attempts, failed, generation, claim,
                   view, served, actor, repair, faults>>

\* An operator notes the failure to repair.
Observe(r) ==
    /\ rearms < MaxRearms
    /\ failed[r] # 0
    /\ note' = [run |-> r, generation |-> generation[r]]
    /\ note' # note
    /\ UNCHANGED <<feed, row, claim, view, served, actor, rearms, faults>>

\* What the repair has to match: the noted failure, and no live claim.
RearmMatches(r) ==
    /\ state[r] \in {"poisoned", "retrying"}
    /\ failed[r] # 0
    /\ generation[r] = note.generation
    /\ ~leased[r]

\* rearmExecutionProjection; a mismatch is a conflict.
Rearm ==
    LET r == note.run IN
    /\ note # NoNote
    /\ note' = NoNote
    /\ rearms' = rearms + 1
    /\ IF RearmMatches(r)
       THEN /\ state' = [state EXCEPT ![r] = "ready"]
            /\ attempts' = [attempts EXCEPT ![r] = 0]
            /\ due' = [due EXCEPT ![r] = TRUE]
            /\ failed' = [failed EXCEPT ![r] = 0]
            /\ generation' = [generation EXCEPT ![r] = 0]
            /\ owner' = [owner EXCEPT ![r] = Nobody]
            /\ UNCHANGED <<cursor, leased>>
       ELSE UNCHANGED <<row, claim>>
    /\ UNCHANGED <<feed, view, served, actor, faults>>

-----------------------------------------------------------------------------
Step(a) ==
    \/ ClaimNext(a) \/ ClaimAsked(a)
    \/ Prepare(a) \/ PrepareUnavailable(a)
    \/ Apply(a) \/ ApplyStale(a) \/ FailEvent(a) \/ RecordFailure(a)

Next ==
    \/ \E r \in Runs :
        \/ Accept(r) \/ Expire(r) \/ Pause(r) \/ RetryDue(r) \/ Observe(r)
    \/ Backfill
    \/ Rearm
    \/ \E a \in Actors :
        \/ Step(a) \/ Look(a)
        \/ CommitPastDeadline(a) \/ LoseConnection(a)
        \/ Shutdown(a) \/ Crash(a)

Spec == Init /\ [][Next]_vars

\* A started process goes on, slots keep polling, leases run out and backoffs
\* pass.  Nothing makes a reader ask or an operator look.
Fairness ==
    /\ \A a \in Actors : WF_vars(Step(a))
    /\ \A r \in Runs : WF_vars(Expire(r)) /\ WF_vars(RetryDue(r))
    /\ WF_vars(Backfill)

LiveSpec == Spec /\ Fairness

-----------------------------------------------------------------------------
\* Whatever slots, readers, crashes and late commits do, the handler has
\* applied exactly the events up to the cursor, each once and in run order
\* (applyClaimedExecutionProjection).
ViewFollowsCursor ==
    \A r \in Runs : view[r] = [i \in 1..cursor[r] |-> i]

\* A recorded failure names an event that has not been applied: a recorder
\* that comes late cannot poison an advanced cursor
\* (recordProjectionFailure).
FailureIsAhead ==
    \A r \in Runs :
        state[r] # "ready" => cursor[r] < failed[r] /\ failed[r] <= accepted[r]

\* A poisoned run is left alone by every claim, late or new, until a repair
\* that names its present failure (rearmExecutionProjection).
PoisonNeedsRepair ==
    [][\A r \in Runs :
        (state[r] = "poisoned" /\ state'[r] # "poisoned") =>
            /\ note = [run |-> r, generation |-> generation[r]]
            /\ cursor'[r] = cursor[r]]_vars

\* What the two invariants rest on: a batch and a failure lie within the
\* accepted events, a failure is on record exactly while the run is not
\* ready, and a poisoned run has no claim.
ProjectionInv ==
    /\ TypeOK
    /\ ViewFollowsCursor
    /\ FailureIsAhead
    /\ \A r \in Runs :
        /\ cursor[r] <= accepted[r]
        /\ state[r] = "ready" => failed[r] = 0
        /\ state[r] = "poisoned" => owner[r] = Nobody
    /\ \A a \in Actors :
        LET w == actor[a] IN
        w.at # "idle" =>
            /\ w.run \in Runs
            /\ w.cursor <= accepted[w.run]
            /\ w.upto <= accepted[w.run]
            /\ w.failed <= accepted[w.run]
            /\ w.at = "prepared" => w.cursor <= w.upto

\* Every accepted event is applied, or its run is poisoned before it; a run
\* whose content cannot be loaded starves nobody else
\* (claimNextExecutionProjection's order, the backfill and the leases).
EventsProject ==
    \A r \in Runs \ Unreachable, e \in 1..MaxEvents :
        (accepted[r] >= e) ~> (cursor[r] >= e \/ state[r] = "poisoned")

=============================================================================
