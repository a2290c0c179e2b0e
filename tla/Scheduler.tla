----------------------------- MODULE Scheduler -----------------------------
(***************************************************************************)
(* Admission to the flow pool: web/lib/scheduler.ts and the transitions    *)
(* that take or give back one of its slots.  Every admission is one        *)
(* transaction under the scheduler's advisory lock, so each is one action. *)
(*                                                                         *)
(* A flow run is launched through an accepted task launch intent: the      *)
(* intent queues, reserves a slot while its worktree is prepared           *)
(* (preparing), binds its Pending run (run_bound) and is committed by the  *)
(* step that makes the run Running.  A scratch run starts at once or is    *)
(* refused.  Runs that gave their slot back wait in Pending (a recover at  *)
(* a full pool) or in NeedsInputIdle with resume_requested_at stamped.     *)
(***************************************************************************)
EXTENDS Integers, Sequences, FiniteSets, SequencesExt

CONSTANTS
    Flow,        \* flow runs, each launched through its own intent
    Scratch,     \* scratch runs
    Families,    \* the sets of flow runs one orchestrator may have delegated
    MaxActive,   \* that orchestrator's maxActiveChildren
    Weight,      \* criticality weight of each run's task
    Cap,         \* MAISTER_MAX_CONCURRENT_RUNS
    MaxParks,    \* bound: questions, waits and takeovers of all runs
    MaxFaults    \* bound: crashes, lost leases, failed spawns, host faults

Runs == Flow \cup Scratch

ASSUME SchedulerAssumption ==
    /\ IsFiniteSet(Flow) /\ IsFiniteSet(Scratch)
    /\ Flow \cap Scratch = {}
    /\ Families \subseteq SUBSET Flow
    /\ MaxActive \in Nat \ {0}
    /\ Weight \in [Runs -> Nat]
    /\ Cap \in Nat \ {0}
    /\ MaxParks \in Nat /\ MaxFaults \in Nat

VARIABLES
    children,   \* the flow runs with a parent_run_id
    status,     \* runs.status
    launch,     \* task_launch_intents.state; "waiting": queued, dueAt ahead;
                \* "committed": dispatch_committed_at; "closed": over unstarted
    leased,     \* the preparing intents whose lease is live
    owed,       \* the runs whose question is answered and not yet delivered
    asks,       \* the runs with resume_requested_at, in its order
    line,       \* the runs in the order of started_at (accepted_at before)
    stranded,   \* parked runs whose last host was retired
    pressured,  \* the host's pressure record
    parks, faults

vars == <<children, status, launch, leased, owed, asks, line, stranded,
          pressured, parks, faults>>

Statuses == {"absent", "Pending", "Running", "NeedsInput", "NeedsInputIdle",
             "HumanWorking", "WaitingOnChildren", "Review", "Crashed", "Over"}

LaunchStates == {"none", "queued", "waiting", "preparing", "run_bound",
                 "committed", "held", "closed"}

Holding == {"Running", "NeedsInput", "HumanWorking"}

Init ==
    /\ children \in Families
    /\ status = [r \in Runs |-> "absent"]
    /\ launch = [r \in Flow |-> "none"]
    /\ leased = {}
    /\ owed = {}
    /\ asks = <<>>
    /\ line = <<>>
    /\ stranded = {}
    /\ pressured = FALSE
    /\ parks = 0
    /\ faults = 0

----------------------------------------------------------------------------
(* Counting. *)

Live == {r \in Runs : status[r] \in Holding}

Reserved ==
    {r \in Flow : \/ launch[r] = "preparing"
                  \/ launch[r] = "run_bound" /\ status[r] = "Pending"}

Count == Cardinality(Live) + Cardinality(Reserved)

EffectiveCap == IF pressured THEN 0 ELSE Cap

(* Mutant: a resume reads the plain cap. *)
PoolFullUnpressured == Count >= Cap

PoolFull == Count >= EffectiveCap

ActiveChildrenAtCap(r) ==
    /\ r \in children
    /\ Cardinality({c \in children \ {r} : status[c] \in Holding}) >= MaxActive

----------------------------------------------------------------------------
(* Selection. *)

Asked == Range(asks)

Stamp(r) == asks' = IF r \in Asked THEN asks ELSE Append(asks, r)

PlaceIn(q, r) == CHOOSE i \in DOMAIN q : q[i] = r

Without(q, r) == IF r \in Range(q) THEN RemoveAt(q, PlaceIn(q, r)) ELSE q

Unstamp(r) == asks' = Without(asks, r)

ToBack(r) == line' = Append(Without(line, r), r)

Idle(r) == status[r] = "NeedsInputIdle"

(* Heavier first, then resumes before launches, then first come. *)
Precedes(a, b) ==
    \/ Weight[a] > Weight[b]
    \/ /\ Weight[a] = Weight[b]
       /\ \/ Idle(a) /\ ~Idle(b)
          \/ Idle(a) /\ Idle(b) /\ PlaceIn(asks, a) < PlaceIn(asks, b)
          \/ ~Idle(a) /\ ~Idle(b) /\ PlaceIn(line, a) < PlaceIn(line, b)

(* The first rows of a candidate query. *)
Window(S) == {r \in S : Cardinality({s \in S : Precedes(s, r)}) < Cap}

QueuedRuns ==
    {r \in Flow : /\ status[r] = "Pending" /\ launch[r] = "committed"
                  /\ ~ActiveChildrenAtCap(r)}

AskedRuns == {r \in Asked : Idle(r) /\ ~ActiveChildrenAtCap(r)}

(* Mutant: an intent whose owner died while preparing is not looked at. *)
AcceptedLaunchesOwned ==
    {r \in Flow : \/ launch[r] = "queued" /\ Count < Cap
                  \/ launch[r] = "run_bound"}

AcceptedLaunches ==
    {r \in Flow : \/ launch[r] = "queued" /\ Count < Cap
                  \/ launch[r] = "preparing" /\ r \notin leased
                  \/ launch[r] = "run_bound"}

(* The candidates the claim loop of a promotion would not skip. *)
Admissible ==
    AcceptedLaunches \cup
    {r \in Window(QueuedRuns) \cup Window(AskedRuns) :
        Count < Cap /\ ~(r \in Scratch /\ r \in stranded)}

First(r) == r \in Admissible /\ \A s \in Admissible \ {r} : Precedes(r, s)

----------------------------------------------------------------------------
(* Launches. *)

Accept(r) ==
    /\ launch[r] = "none"
    /\ launch' = [launch EXCEPT ![r] = "queued"]
    /\ ToBack(r)
    /\ UNCHANGED <<children, status, leased, owed, asks, stranded, pressured,
                   parks, faults>>

(* A due intent takes the reservation of a free slot; one whose owner's    *)
(* lease ran out keeps its reservation unless the pool is over its cap.    *)
ClaimIntent(r) ==
    /\ \/ /\ launch[r] = "queued" \/ Count - 1 < Cap
          /\ launch' = [launch EXCEPT ![r] = "preparing"]
          /\ leased' = leased \cup {r}
       \/ /\ launch[r] = "preparing" /\ Count - 1 >= Cap
          /\ launch' = [launch EXCEPT ![r] = "queued"]
          /\ UNCHANGED leased
    /\ UNCHANGED <<children, status, owed, asks, line, stranded, pressured,
                   parks, faults>>

Bind(r) ==
    /\ launch[r] = "preparing" /\ r \in leased
    /\ launch' = [launch EXCEPT ![r] = "run_bound"]
    /\ leased' = leased \ {r}
    /\ status' = [status EXCEPT ![r] = "Pending"]
    /\ UNCHANGED <<children, owed, asks, line, stranded, pressured, parks,
                   faults>>

(* The preparation fails while its lease is live, to be retried. *)
PreparationFails(r) ==
    /\ launch[r] = "preparing" /\ r \in leased
    /\ faults < MaxFaults
    /\ launch' = [launch EXCEPT ![r] = "waiting"]
    /\ leased' = leased \ {r}
    /\ faults' = faults + 1
    /\ UNCHANGED <<children, status, owed, asks, line, stranded, pressured,
                   parks>>

LoseLease(r) ==
    /\ launch[r] = "preparing" /\ r \in leased
    /\ faults < MaxFaults
    /\ leased' = leased \ {r}
    /\ faults' = faults + 1
    /\ UNCHANGED <<children, status, launch, owed, asks, line, stranded,
                   pressured, parks>>

ComeDue(r) ==
    /\ launch[r] = "waiting"
    /\ launch' = [launch EXCEPT ![r] = "queued"]
    /\ UNCHANGED <<children, status, leased, owed, asks, line, stranded,
                   pressured, parks, faults>>

Unstarted == {"queued", "waiting", "preparing", "run_bound"}

(* A launch that is not dispatched is held for its operator: it failed for *)
(* good, was refused, or its task was edited.                              *)
Hold(r) ==
    /\ launch[r] \in Unstarted
    /\ launch' = [launch EXCEPT ![r] = "held"]
    /\ leased' = leased \ {r}
    /\ UNCHANGED <<children, status, owed, asks, line, stranded, pressured,
                   parks, faults>>

(* Mutant: the run of a cancelled launch stays Pending. *)
CancelIntentOnly(r) ==
    /\ launch[r] \in Unstarted \cup {"held"}
    /\ launch' = [launch EXCEPT ![r] = "closed"]
    /\ leased' = leased \ {r}
    /\ UNCHANGED <<children, status, owed, asks, line, stranded, pressured,
                   parks, faults>>

(* A launch that is not dispatched is cancelled, its Pending run with it.  *)
Cancel(r) ==
    /\ launch[r] \in Unstarted \cup {"held"}
    /\ launch' = [launch EXCEPT ![r] = "closed"]
    /\ leased' = leased \ {r}
    /\ status' = [status EXCEPT ![r] = IF @ = "Pending" THEN "Over" ELSE @]
    /\ UNCHANGED <<children, owed, asks, line, stranded, pressured, parks,
                   faults>>

(* What a start needs beside the run's own reservation. *)
MayStart(r) == ~ActiveChildrenAtCap(r) /\ Count - 1 < EffectiveCap

(* Mutant: the intent is not committed with the start of its run. *)
TryStartRunUncommitted(r) ==
    /\ launch[r] = "run_bound" /\ status[r] = "Pending"
    /\ MayStart(r)
    /\ status' = [status EXCEPT ![r] = "Running"]
    /\ ToBack(r)
    /\ UNCHANGED <<children, launch, leased, owed, asks, stranded, pressured,
                   parks, faults>>

TryStartRun(r) ==
    /\ launch[r] = "run_bound" /\ status[r] = "Pending"
    /\ \/ /\ MayStart(r)
          /\ launch' = [launch EXCEPT ![r] = "committed"]
          /\ status' = [status EXCEPT ![r] = "Running"]
          /\ ToBack(r)
       \/ /\ ~MayStart(r)
          /\ launch' = [launch EXCEPT ![r] = "waiting"]
          /\ UNCHANGED <<status, line>>
    /\ UNCHANGED <<children, leased, owed, asks, stranded, pressured, parks,
                   faults>>

(* A scratch run starts at once, against its own reading of the pool. *)
ScratchCount ==
    Cardinality({r \in Runs : status[r] \in {"Running", "NeedsInput"}})
        + Cardinality(Reserved)

LaunchScratch(r) ==
    /\ status[r] = "absent"
    /\ ScratchCount < Cap
    /\ status' = [status EXCEPT ![r] = "Running"]
    /\ ToBack(r)
    /\ UNCHANGED <<children, launch, leased, owed, asks, stranded, pressured,
                   parks, faults>>

----------------------------------------------------------------------------
(* promoteNextPending: one admission per call. *)

StartQueued(r) ==
    /\ status' = [status EXCEPT ![r] = "Running"]
    /\ ToBack(r)
    /\ UNCHANGED <<children, launch, leased, owed, asks, stranded, pressured,
                   parks, faults>>

ResumeAsked(r) ==
    /\ status' = [status EXCEPT ![r] =
                    IF r \in Scratch THEN "Running" ELSE "NeedsInput"]
    /\ Unstamp(r)
    /\ owed' = owed \ ({r} \cap Scratch)
    /\ stranded' = stranded \ {r}
    /\ UNCHANGED <<children, launch, leased, line, pressured, parks, faults>>

PromoteNextPending ==
    /\ ~pressured
    /\ \E r \in Runs :
        /\ First(r)
        /\ \/ r \in AcceptedLaunches /\ launch[r] = "run_bound"
                /\ TryStartRun(r)
           \/ r \in AcceptedLaunches /\ launch[r] # "run_bound"
                /\ ClaimIntent(r)
           \/ r \in QueuedRuns /\ StartQueued(r)
           \/ r \in AskedRuns /\ ResumeAsked(r)

----------------------------------------------------------------------------
(* The life of an admitted run. *)

Park == parks < MaxParks /\ parks' = parks + 1

Fault == faults < MaxFaults /\ faults' = faults + 1

Move(r, from, to) ==
    /\ status[r] \in from
    /\ status' = [status EXCEPT ![r] = to]

(* The run asks a question and keeps its slot. *)
Ask(r) ==
    /\ Move(r, {"Running"}, "NeedsInput")
    /\ Park
    /\ owed' = owed \ {r}
    /\ UNCHANGED <<children, launch, leased, asks, line, stranded, pressured,
                   faults>>

(* The answer reaches the live session, or the resumed one delivers it. *)
Deliver(r) ==
    /\ Move(r, {"NeedsInput"}, "Running")
    /\ owed' = owed \ {r}
    /\ UNCHANGED <<children, launch, leased, asks, line, stranded, pressured,
                   parks, faults>>

(* The keep-alive sweep checkpoints a question nobody answered in time. *)
MarkCheckpointed(r) ==
    /\ Move(r, {"NeedsInput"}, "NeedsInputIdle")
    /\ r \notin owed
    /\ UNCHANGED <<children, launch, leased, owed, asks, line, stranded,
                   pressured, parks, faults>>

(* A resumed session cannot be spawned: the claim is undone. *)
RollbackResumedRun(r) ==
    /\ Move(r, {"NeedsInput"}, "NeedsInputIdle")
    /\ r \in owed /\ r \in Flow
    /\ Fault
    /\ UNCHANGED <<children, launch, leased, owed, asks, line, stranded,
                   pressured, parks>>

(* The answer to a parked run claims a slot, or stamps the run when the    *)
(* pool is full; a repeated answer tries again.  A permission resumes      *)
(* through markResumed, which clears the stamp only when the host already  *)
(* holds the answer's receipt; a graph review through claimGraphResumeSlot *)
(* and a scratch run through claimScratchIdleResume, which both clear it.  *)
Respond(r) ==
    /\ Idle(r)
    /\ \/ /\ PoolFull
          /\ Stamp(r)
          /\ owed' = owed \cup {r}
          /\ UNCHANGED <<status, stranded>>
       \/ /\ ~PoolFull
          /\ \/ r \in Flow /\ Move(r, {"NeedsInputIdle"}, "NeedsInput")
                  /\ UNCHANGED asks /\ owed' = owed \cup {r}
             \/ r \in Flow /\ Move(r, {"NeedsInputIdle"}, "NeedsInput")
                  /\ Unstamp(r) /\ owed' = owed \cup {r}
             \/ Move(r, {"NeedsInputIdle"}, "Running")
                  /\ Unstamp(r) /\ owed' = owed \ {r}
          /\ stranded' = stranded \ {r}
    /\ UNCHANGED <<children, launch, leased, line, pressured, parks, faults>>

(* A takeover keeps the slot; a rework claim on Review takes one. *)
TakeOver(r) ==
    /\ r \in Flow
    /\ r \notin owed
    /\ Move(r, {"NeedsInput"}, "HumanWorking")
    /\ Park
    /\ UNCHANGED <<children, launch, leased, owed, asks, line, stranded,
                   pressured, faults>>

(* The claim counts the pool against its plain cap: it reads no pressure.  *)
(* A delegated child, whose parent may be parked on it, cannot be taken.   *)
ReworkClaim(r) ==
    /\ r \in Flow \ children
    /\ Count < Cap
    /\ Move(r, {"Review"}, "HumanWorking")
    /\ Park
    /\ UNCHANGED <<children, launch, leased, owed, asks, line, stranded,
                   pressured, faults>>

HandBack(r) ==
    /\ \E s \in {"Running", "NeedsInput", "Review"} :
         Move(r, {"HumanWorking"}, s)
    /\ UNCHANGED <<children, launch, leased, owed, asks, line, stranded,
                   pressured, parks, faults>>

(* A coordinator parks until its children settle and is woken at a free    *)
(* slot; the wake of a full pool is stamped and tried again.  A recovered  *)
(* coordinator is parked back without its stamp.                           *)
WaitOnChildren(r) ==
    /\ r \in Flow
    /\ Move(r, {"Running"}, "WaitingOnChildren")
    /\ UNCHANGED asks \/ Unstamp(r)
    /\ Park
    /\ UNCHANGED <<children, launch, leased, owed, line, stranded, pressured,
                   faults>>

MarkResumedFromWait(r) ==
    /\ status[r] = "WaitingOnChildren"
    /\ \/ PoolFull /\ Stamp(r) /\ UNCHANGED status
       \/ /\ ~PoolFull /\ Unstamp(r)
          /\ Move(r, {"WaitingOnChildren"}, "Running")
    /\ UNCHANGED <<children, launch, leased, owed, line, stranded, pressured,
                   parks, faults>>

Finish(r) ==
    /\ \E s \in {"Review", "Over"} : Move(r, {"Running"}, s)
    /\ UNCHANGED <<children, launch, leased, owed, asks, line, stranded,
                   pressured, parks, faults>>

(* Abandoned by its user, or by the sweep when nobody answered; the        *)
(* trigger on the run's terminal status settles its intent with it.        *)
Abandon(r) ==
    /\ Move(r, {"Pending", "Running", "NeedsInput", "NeedsInputIdle",
                "WaitingOnChildren", "Review", "Crashed"}, "Over")
    /\ launch' = [f \in Flow |-> IF f = r /\ launch[f] # "committed"
                                 THEN "closed" ELSE launch[f]]
    /\ leased' = leased \ {r}
    /\ UNCHANGED <<children, owed, asks, line, stranded, pressured, parks,
                   faults>>

(* A child whose orchestrator is gone crashes in its parked statuses too.  *)
CrashesFrom(r) ==
    {"Running", "NeedsInput", "WaitingOnChildren"}
        \cup IF r \in children THEN {"NeedsInputIdle", "Review"} ELSE {}

Crash(r) ==
    /\ r \in Flow
    /\ Move(r, CrashesFrom(r), "Crashed")
    /\ Fault
    /\ owed' = owed \ {r}
    /\ UNCHANGED <<children, launch, leased, asks, line, stranded, pressured,
                   parks>>

(* resumeCrashedRun counts the live runs of the pool against its cap. *)
ResumeCrashedRun(r) ==
    /\ Move(r, {"Crashed"}, IF Cardinality(Live) >= Cap THEN "Pending"
                                                        ELSE "Running")
    /\ UNCHANGED <<children, launch, leased, owed, asks, line, stranded,
                   pressured, parks, faults>>

(* The host: its outbox falls behind and recovers; it is replaced. *)
PressureRises ==
    /\ ~pressured /\ pressured' = TRUE
    /\ Fault
    /\ UNCHANGED <<children, status, launch, leased, owed, asks, line,
                   stranded, parks>>

PressureFalls ==
    /\ pressured /\ pressured' = FALSE
    /\ UNCHANGED <<children, status, launch, leased, owed, asks, line,
                   stranded, parks, faults>>

HostRetired ==
    /\ Fault
    /\ stranded' = {r \in Runs : Idle(r)}
    /\ UNCHANGED <<children, status, launch, leased, owed, asks, line,
                   pressured, parks>>

----------------------------------------------------------------------------
Next ==
    \/ PromoteNextPending
    \/ PressureRises \/ PressureFalls \/ HostRetired
    \/ \E r \in Flow :
        \/ Accept(r) \/ Bind(r) \/ PreparationFails(r) \/ LoseLease(r)
        \/ ComeDue(r) \/ TryStartRun(r) \/ Hold(r) \/ Cancel(r)
    \/ \E r \in Scratch : LaunchScratch(r)
    \/ \E r \in Runs :
        \/ Ask(r) \/ Deliver(r) \/ MarkCheckpointed(r)
        \/ RollbackResumedRun(r) \/ Respond(r) \/ TakeOver(r)
        \/ ReworkClaim(r) \/ HandBack(r) \/ WaitOnChildren(r)
        \/ MarkResumedFromWait(r) \/ Finish(r) \/ Abandon(r) \/ Crash(r)
        \/ ResumeCrashedRun(r)

Spec == Init /\ [][Next]_vars

(* The gate is called again by the launch worker and by every sweep; a     *)
(* claimed preparation is driven to its start; every holder of a slot, the *)
(* human included, ends its turn at last.                                  *)
Fairness ==
    /\ WF_vars(PromoteNextPending)
    /\ WF_vars(PressureFalls)
    /\ \A r \in Flow :
        /\ WF_vars(Bind(r)) /\ WF_vars(ComeDue(r)) /\ WF_vars(TryStartRun(r))
        /\ WF_vars(MarkResumedFromWait(r))
    /\ \A r \in Runs :
        /\ WF_vars(Finish(r)) /\ WF_vars(HandBack(r))
        /\ WF_vars(Deliver(r) \/ MarkCheckpointed(r))

LiveSpec == Spec /\ Fairness

----------------------------------------------------------------------------
(* Type invariant. *)
TypeOK ==
    /\ children \in SUBSET Flow
    /\ status \in [Runs -> Statuses]
    /\ launch \in [Flow -> LaunchStates]
    /\ leased \subseteq Flow /\ owed \subseteq Runs /\ stranded \subseteq Runs
    /\ asks \in Seq(Runs) /\ line \in Seq(Runs)
    /\ pressured \in BOOLEAN
    /\ parks \in 0 .. MaxParks /\ faults \in 0 .. MaxFaults

(* A launch (claimTaskLaunchIntent, tryStartRun, cancelLockedTaskLaunch,   *)
(* the abandon trigger) holds one claim on the pool at a time, and none    *)
(* when it is over: the intent reserves until the very step that makes its *)
(* run Running, a run not admitted yet is never counted as live beside it, *)
(* and a launch that ends unstarted, at whichever step it is stopped,      *)
(* leaves neither a Pending run nor a reservation behind.                  *)
OneSlotPerLaunch ==
    \A r \in Flow :
        /\ launch[r] \notin {"committed", "closed"}
                => status[r] \in {"absent", "Pending"}
        /\ launch[r] = "closed" => status[r] \in {"absent", "Over"}
        /\ launch[r] \in {"run_bound", "committed"} => status[r] # "absent"
        /\ r \in leased => launch[r] = "preparing"

(* Type correctness, one slot per launch, and the statuses a scratch run   *)
(* never takes.                                                            *)
SchedulerInv ==
    /\ TypeOK
    /\ OneSlotPerLaunch
    /\ \A r \in Scratch :
        status[r] \notin {"Pending", "Crashed", "WaitingOnChildren"}

(* Steps that do not read the pool as the gate does: the start of a        *)
(* scratch run and of a recovered crash, and a rework claim.               *)
Bypass(r) ==
    /\ status[r] \in IF r \in Scratch THEN {"absent"} ELSE {"Crashed"}
    /\ status'[r] = "Running"

Reworks(r) == status[r] = "Review" /\ status'[r] = "HumanWorking"

(* A step that takes a slot for work the pool had queued or parked         *)
(* (promoteNextPending, an intent's claim, resume, wake) leaves the pool   *)
(* within its effective cap: reservations of launches being prepared       *)
(* count, and a pressured host admits nothing.  A rework claim, which      *)
(* reads no pressure, still leaves it within its cap.                      *)
AdmitsWithinCap ==
    [][ (Count' > Count /\ \A r \in Runs : ~Bypass(r))
            => Count' <= IF \E r \in Runs : Reworks(r) THEN Cap
                                                       ELSE EffectiveCap ]_vars

(* Whatever is queued is admitted at last by promoteNextPending and the    *)
(* launch worker: an accepted launch starts (or its preparation is held),  *)
(* a queued recover starts, and a stamped parked run is resumed unless its *)
(* host is gone.                                                           *)
Queued(r) ==
    \/ r \in Flow /\ launch[r] \in {"queued", "waiting", "preparing",
                                    "run_bound"}
    \/ status[r] = "Pending" /\ launch[r] # "held"
    \/ Idle(r) /\ r \in Asked /\ r \notin stranded

QueuedStarts == \A r \in Runs : Queued(r) ~> ~Queued(r)

(* A parked run with resume_requested_at is one whose question was         *)
(* answered: the C3 candidates of promoteNextPending are read as such, and *)
(* the keep-alive sweep never abandons them.                               *)
StampMeansAnswered == \A r \in Runs : Idle(r) /\ r \in Asked => r \in owed

=============================================================================
