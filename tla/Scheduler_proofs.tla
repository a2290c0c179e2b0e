--------------------------- MODULE Scheduler_proofs ---------------------------
(***************************************************************************)
(* Proofs about Scheduler: a launch holds at most one slot, and every      *)
(* admission the gate makes leaves the pool within its effective cap, a    *)
(* rework claim within its plain one.  The cap is argued over one set, the *)
(* runs that hold a slot or a reservation: OneSlotPerLaunch makes Count    *)
(* its cardinality, and every step changes it by one run at most.          *)
(***************************************************************************)
EXTENDS Scheduler, FiniteSetTheorems, SequenceTheorems, TLAPS

(* The bookkeeping a slot does not depend on. *)
Books ==
    /\ owed \subseteq Runs /\ stranded \subseteq Runs
    /\ asks \in Seq(Runs) /\ line \in Seq(Runs)
    /\ pressured \in BOOLEAN
    /\ parks \in 0 .. MaxParks /\ faults \in 0 .. MaxFaults

(* What SchedulerInv says of the slots. *)
Slots ==
    /\ status \in [Runs -> Statuses]
    /\ launch \in [Flow -> LaunchStates]
    /\ leased \subseteq Flow
    /\ OneSlotPerLaunch
    /\ \A r \in Scratch :
        status[r] \notin {"Pending", "Crashed", "WaitingOnChildren"}

LEMMA InvParts ==
    SchedulerInv <=> children \in SUBSET Flow /\ Books /\ Slots
BY DEF SchedulerInv, TypeOK, Books, Slots

LEMMA InvPartsNext ==
    children' \in SUBSET Flow /\ Books' /\ Slots' => SchedulerInv'
BY DEF SchedulerInv, TypeOK, Books, Slots

(* A run's parent is set at its launch. *)
LEMMA FamilyStays == Next => children' = children
<1>1. ASSUME NEW r \in Runs,
             \/ ClaimIntent(r) \/ TryStartRun(r) \/ StartQueued(r)
             \/ ResumeAsked(r) \/ LaunchScratch(r)
             \/ Ask(r) \/ Deliver(r) \/ MarkCheckpointed(r)
             \/ RollbackResumedRun(r) \/ Respond(r) \/ TakeOver(r)
      PROVE  children' = children
    BY <1>1 DEF ClaimIntent, TryStartRun, StartQueued, ResumeAsked,
       LaunchScratch, Ask, Deliver, MarkCheckpointed, RollbackResumedRun,
       Respond, TakeOver
<1>2. ASSUME NEW r \in Runs,
             \/ ReworkClaim(r) \/ HandBack(r) \/ WaitOnChildren(r)
             \/ MarkResumedFromWait(r) \/ Finish(r) \/ Abandon(r)
             \/ Crash(r) \/ ResumeCrashedRun(r)
             \/ Accept(r) \/ Bind(r) \/ PreparationFails(r)
             \/ LoseLease(r) \/ ComeDue(r) \/ Hold(r) \/ Cancel(r)
      PROVE  children' = children
    BY <1>2 DEF ReworkClaim, HandBack, WaitOnChildren, MarkResumedFromWait,
       Finish, Abandon, Crash, ResumeCrashedRun, Accept, Bind,
       PreparationFails, LoseLease, ComeDue, Hold, Cancel
<1>3. CASE PressureRises \/ PressureFalls \/ HostRetired
    BY <1>3 DEF PressureRises, PressureFalls, HostRetired
<1>4. CASE PromoteNextPending
    BY <1>1, <1>4 DEF PromoteNextPending
<1>5. Flow \subseteq Runs /\ Scratch \subseteq Runs
    BY DEF Runs
<1> QED BY <1>1, <1>2, <1>3, <1>4, <1>5 DEF Next

-----------------------------------------------------------------------------
(* The queues stay sequences of runs. *)

LEMMA WithoutType ==
    ASSUME NEW q \in Seq(Runs), NEW r
    PROVE  Without(q, r) \in Seq(Runs)
<1>1. CASE r \in Range(q)
  <2>1. PICK k : k = PlaceIn(q, r)
      OBVIOUS
  <2>2. DOMAIN q = 1..Len(q) /\ Len(q) \in Nat
      BY LenProperties
  <2>3. \E i \in DOMAIN q : q[i] = r
      BY <1>1 DEF Range
  <2>4. k \in 1..Len(q)
      BY <2>1, <2>2, <2>3 DEF PlaceIn
  <2>5. \A i \in 1..Len(q) : q[i] \in Runs
      BY ElementOfSeq
  <2>6. SubSeq(q, 1, k - 1) \in Seq(Runs)
    <3>1. \A i \in 1..(k - 1) : q[i] \in Runs
        BY <2>2, <2>4, <2>5
    <3> QED BY <2>4, <3>1, SubSeqProperties
  <2>7. SubSeq(q, k + 1, Len(q)) \in Seq(Runs)
    <3>1. \A i \in (k + 1)..Len(q) : q[i] \in Runs
        BY <2>2, <2>4, <2>5
    <3> QED BY <2>2, <2>4, <3>1, SubSeqProperties
  <2>8. SubSeq(q, 1, k - 1) \o SubSeq(q, k + 1, Len(q)) \in Seq(Runs)
      BY <2>6, <2>7, ConcatProperties
  <2> QED BY <1>1, <2>1, <2>8 DEF Without, RemoveAt
<1>2. CASE r \notin Range(q)
    BY <1>2 DEF Without
<1> QED BY <1>1, <1>2

LEMMA QueueSteps ==
    ASSUME Books, NEW r \in Runs
    PROVE  /\ Stamp(r) => asks' \in Seq(Runs)
           /\ Unstamp(r) => asks' \in Seq(Runs)
           /\ ToBack(r) => line' \in Seq(Runs)
<1>1. asks \in Seq(Runs) /\ line \in Seq(Runs)
    BY DEF Books
<1>2. Append(asks, r) \in Seq(Runs)
    BY <1>1, AppendProperties
<1>3. Without(asks, r) \in Seq(Runs) /\ Without(line, r) \in Seq(Runs)
    BY <1>1, WithoutType
<1>4. Append(Without(line, r), r) \in Seq(Runs)
    BY <1>3, AppendProperties
<1> QED BY <1>1, <1>2, <1>3, <1>4 DEF Stamp, Unstamp, ToBack

LEMMA CounterSteps ==
    ASSUME Books
    PROVE  /\ Park => parks' \in 0 .. MaxParks
           /\ Fault => faults' \in 0 .. MaxFaults
           /\ faults < MaxFaults /\ faults' = faults + 1
                => faults' \in 0 .. MaxFaults
BY SchedulerAssumption DEF Books, Park, Fault

LEMMA BooksNext ==
    ASSUME Books, Next
    PROVE  Books'
<1>1. ASSUME NEW r \in Flow,
             Accept(r) \/ Bind(r) \/ PreparationFails(r) \/ LoseLease(r)
               \/ ComeDue(r) \/ TryStartRun(r) \/ Hold(r) \/ Cancel(r)
               \/ ClaimIntent(r)
      PROVE  Books'
  <2>1. r \in Runs
      BY DEF Runs
  <2>2. line' \in Seq(Runs)
      BY <1>1, <2>1, QueueSteps
      DEF Books, Accept, Bind, PreparationFails, LoseLease, ComeDue,
          TryStartRun, Hold, Cancel, ClaimIntent
  <2>3. faults' \in 0 .. MaxFaults
      BY <1>1, CounterSteps
      DEF Books, Accept, Bind, PreparationFails, LoseLease, ComeDue,
          TryStartRun, Hold, Cancel, ClaimIntent
  <2> QED BY <1>1, <2>2, <2>3
      DEF Books, Accept, Bind, PreparationFails, LoseLease, ComeDue,
          TryStartRun, Hold, Cancel, ClaimIntent
<1>2. ASSUME NEW r \in Runs,
             LaunchScratch(r) \/ StartQueued(r) \/ ResumeAsked(r)
               \/ Respond(r) \/ MarkResumedFromWait(r)
      PROVE  Books'
  <2>1. line' \in Seq(Runs)
      BY <1>2, QueueSteps
      DEF Books, LaunchScratch, StartQueued, ResumeAsked, Respond,
          MarkResumedFromWait
  <2>2. asks' \in Seq(Runs)
      BY <1>2, QueueSteps
      DEF Books, LaunchScratch, StartQueued, ResumeAsked, Respond,
          MarkResumedFromWait
  <2>3. owed' \subseteq Runs /\ stranded' \subseteq Runs
      BY <1>2
      DEF Books, LaunchScratch, StartQueued, ResumeAsked, Respond,
          MarkResumedFromWait
  <2> QED BY <1>2, <2>1, <2>2, <2>3
      DEF Books, LaunchScratch, StartQueued, ResumeAsked, Respond,
          MarkResumedFromWait
<1>3. ASSUME NEW r \in Runs,
             Ask(r) \/ Deliver(r) \/ MarkCheckpointed(r)
               \/ RollbackResumedRun(r) \/ TakeOver(r) \/ ReworkClaim(r)
               \/ HandBack(r) \/ WaitOnChildren(r) \/ Finish(r)
               \/ Abandon(r) \/ Crash(r) \/ ResumeCrashedRun(r)
      PROVE  Books'
  <2>1. parks' \in 0 .. MaxParks /\ faults' \in 0 .. MaxFaults
      BY <1>3, CounterSteps
      DEF Books, Ask, Deliver, MarkCheckpointed, RollbackResumedRun,
          TakeOver, ReworkClaim, HandBack, WaitOnChildren, Finish, Abandon,
          Crash, ResumeCrashedRun
  <2>2. owed' \subseteq Runs /\ asks' \in Seq(Runs)
      BY <1>3, QueueSteps
      DEF Books, Ask, Deliver, MarkCheckpointed, RollbackResumedRun,
          TakeOver, ReworkClaim, HandBack, WaitOnChildren, Finish, Abandon,
          Crash, ResumeCrashedRun
  <2> QED BY <1>3, <2>1, <2>2
      DEF Books, Ask, Deliver, MarkCheckpointed, RollbackResumedRun,
          TakeOver, ReworkClaim, HandBack, WaitOnChildren, Finish, Abandon,
          Crash, ResumeCrashedRun
<1>4. ASSUME PressureRises \/ PressureFalls \/ HostRetired
      PROVE  Books'
  <2>1. faults' \in 0 .. MaxFaults
      BY <1>4, CounterSteps DEF Books, PressureRises, PressureFalls, HostRetired
  <2>2. pressured' \in BOOLEAN
      BY <1>4 DEF Books, PressureRises, PressureFalls, HostRetired
  <2> QED BY <1>4, <2>1, <2>2
      DEF Books, PressureRises, PressureFalls, HostRetired
<1>5. CASE PromoteNextPending
  <2>1. PICK r \in Runs :
          \/ r \in AcceptedLaunches /\ (TryStartRun(r) \/ ClaimIntent(r))
          \/ StartQueued(r) \/ ResumeAsked(r)
      BY <1>5 DEF PromoteNextPending
  <2>2. r \in AcceptedLaunches => r \in Flow
      BY DEF AcceptedLaunches
  <2> QED BY <1>1, <1>2, <2>1, <2>2
<1>6. ASSUME NEW r \in Scratch, LaunchScratch(r) PROVE Books'
    BY <1>2, <1>6 DEF Runs
<1> QED BY <1>1, <1>2, <1>3, <1>4, <1>5, <1>6 DEF Next

-----------------------------------------------------------------------------
(* Slots step by step. *)

(* A run that has been admitted has a committed launch. *)
LEMMA Admitted ==
    ASSUME Slots, NEW r \in Flow, status[r] \notin {"absent", "Pending", "Over"}
    PROVE  launch[r] = "committed"
BY DEF Slots, OneSlotPerLaunch

(* A step of one committed (or scratch) run that leaves the launches alone. *)
LEMMA MoveSlots ==
    ASSUME Slots, NEW r \in Runs, NEW s \in Statuses \ {"absent"},
           status' = [status EXCEPT ![r] = s], UNCHANGED <<launch, leased>>,
           r \in Flow => launch[r] = "committed",
           r \in Scratch => s \notin {"Pending", "Crashed", "WaitingOnChildren"}
    PROVE  Slots'
<1>1. status' \in [Runs -> Statuses]
    BY DEF Slots
<1>2. status'[r] = s /\ \A q \in Runs \ {r} : status'[q] = status[q]
    BY DEF Slots
<1>3. OneSlotPerLaunch'
    BY <1>2 DEF Slots, OneSlotPerLaunch, Runs
<1>4. \A q \in Scratch :
        status'[q] \notin {"Pending", "Crashed", "WaitingOnChildren"}
    BY <1>2 DEF Slots, Runs
<1> QED BY <1>1, <1>3, <1>4 DEF Slots

(* A step of one launch. *)
LEMMA LaunchSlots ==
    ASSUME Slots, NEW r \in Flow, NEW l \in LaunchStates, NEW s \in Statuses,
           launch' = [launch EXCEPT ![r] = l],
           status' = [status EXCEPT ![r] = s],
           leased' \subseteq leased \cup {r},
           r \in leased' => l = "preparing",
           l \notin {"committed", "closed"} => s \in {"absent", "Pending"},
           l = "closed" => s \in {"absent", "Over"},
           l \in {"run_bound", "committed"} => s # "absent"
    PROVE  Slots'
<1>1. status' \in [Runs -> Statuses] /\ launch' \in [Flow -> LaunchStates]
    BY DEF Slots
<1>2. status'[r] = s /\ \A q \in Runs \ {r} : status'[q] = status[q]
    BY DEF Slots, Runs
<1>3. launch'[r] = l /\ \A q \in Flow \ {r} : launch'[q] = launch[q]
    BY DEF Slots
<1>4. leased' \subseteq Flow
    BY DEF Slots
<1>5. OneSlotPerLaunch'
  <2> SUFFICES ASSUME NEW q \in Flow
               PROVE  /\ launch'[q] \notin {"committed", "closed"}
                            => status'[q] \in {"absent", "Pending"}
                      /\ launch'[q] = "closed" => status'[q] \in {"absent", "Over"}
                      /\ launch'[q] \in {"run_bound", "committed"}
                            => status'[q] # "absent"
                      /\ q \in leased' => launch'[q] = "preparing"
      BY DEF OneSlotPerLaunch
  <2>1. CASE q = r
      BY <1>2, <1>3, <2>1
  <2>2. CASE q # r
      BY <1>2, <1>3, <2>2 DEF Slots, OneSlotPerLaunch, Runs
  <2> QED BY <2>1, <2>2
<1>6. \A q \in Scratch :
        status'[q] \notin {"Pending", "Crashed", "WaitingOnChildren"}
  <2>1. \A q \in Scratch : q # r /\ q \in Runs
      BY SchedulerAssumption DEF Runs
  <2> QED BY <1>2, <2>1 DEF Slots
<1> QED BY <1>1, <1>4, <1>5, <1>6 DEF Slots

(* The steps of one launch and what they do to its claim on the pool. *)
LEMMA LaunchSteps ==
    ASSUME Slots, NEW r \in Flow,
           \/ Accept(r) \/ Bind(r) \/ PreparationFails(r) \/ LoseLease(r)
           \/ ComeDue(r) \/ TryStartRun(r) \/ Hold(r) \/ Cancel(r)
           \/ r \in AcceptedLaunches /\ launch[r] # "run_bound" /\ ClaimIntent(r)
    PROVE  Slots'
<1>1. /\ status \in [Runs -> Statuses] /\ launch \in [Flow -> LaunchStates]
      /\ leased \subseteq Flow /\ r \in Runs
      /\ launch[r] \notin {"committed", "closed"}
            => status[r] \in {"absent", "Pending"}
      /\ launch[r] \in {"run_bound", "committed"} => status[r] # "absent"
      /\ r \in leased => launch[r] = "preparing"
    BY DEF Slots, OneSlotPerLaunch, Runs
<1>2. status = [status EXCEPT ![r] = status[r]] /\ status[r] \in Statuses
        /\ launch = [launch EXCEPT ![r] = launch[r]] /\ launch[r] \in LaunchStates
    BY <1>1
<1>3. CASE Accept(r)
  <2>1. launch' = [launch EXCEPT ![r] = "queued"] /\ launch[r] = "none"
          /\ status' = status /\ leased' = leased /\ "queued" \in LaunchStates
      BY <1>3 DEF Accept, LaunchStates
  <2> QED BY <1>1, <1>2, <2>1, LaunchSlots
<1>4. CASE Bind(r)
  <2>1. launch' = [launch EXCEPT ![r] = "run_bound"]
          /\ status' = [status EXCEPT ![r] = "Pending"]
          /\ leased' = leased \ {r}
          /\ "run_bound" \in LaunchStates /\ "Pending" \in Statuses
      BY <1>4 DEF Bind, LaunchStates, Statuses
  <2> QED BY <2>1, LaunchSlots
<1>5. CASE PreparationFails(r)
  <2>1. launch' = [launch EXCEPT ![r] = "waiting"] /\ launch[r] = "preparing"
          /\ status' = status /\ leased' = leased \ {r}
          /\ "waiting" \in LaunchStates
      BY <1>5 DEF PreparationFails, LaunchStates
  <2> QED BY <1>1, <1>2, <2>1, LaunchSlots
<1>6. CASE LoseLease(r)
  <2>1. launch' = launch /\ launch[r] = "preparing"
          /\ status' = status /\ leased' = leased \ {r}
      BY <1>6 DEF LoseLease
  <2> QED BY <1>1, <1>2, <2>1, LaunchSlots
<1>7. CASE ComeDue(r)
  <2>1. launch' = [launch EXCEPT ![r] = "queued"] /\ launch[r] = "waiting"
          /\ status' = status /\ leased' = leased /\ "queued" \in LaunchStates
      BY <1>7 DEF ComeDue, LaunchStates
  <2> QED BY <1>1, <1>2, <2>1, LaunchSlots
<1>8. CASE TryStartRun(r)
  <2>1. launch[r] = "run_bound" /\ leased' = leased /\ r \notin leased
          /\ status[r] = "Pending"
      BY <1>1, <1>8 DEF TryStartRun
  <2>2. CASE launch' = [launch EXCEPT ![r] = "committed"]
               /\ status' = [status EXCEPT ![r] = "Running"]
    <3>1. "committed" \in LaunchStates /\ "Running" \in Statuses
        BY DEF LaunchStates, Statuses
    <3> QED BY <2>1, <2>2, <3>1, LaunchSlots
  <2>3. CASE launch' = [launch EXCEPT ![r] = "waiting"] /\ status' = status
    <3>1. "waiting" \in LaunchStates
        BY DEF LaunchStates
    <3> QED BY <1>2, <2>1, <2>3, <3>1, LaunchSlots
  <2> QED BY <1>8, <2>2, <2>3 DEF TryStartRun
<1>9. CASE Hold(r)
  <2>1. launch' = [launch EXCEPT ![r] = "held"]
          /\ launch[r] \notin {"committed", "closed"}
          /\ status' = status /\ leased' = leased \ {r} /\ "held" \in LaunchStates
      BY <1>9 DEF Hold, Unstarted, LaunchStates
  <2> QED BY <1>1, <1>2, <2>1, LaunchSlots
<1>10. CASE Cancel(r)
  <2>1. PICK s : s = IF status[r] = "Pending" THEN "Over" ELSE status[r]
      OBVIOUS
  <2>2. launch' = [launch EXCEPT ![r] = "closed"]
          /\ launch[r] \notin {"committed", "closed"}
          /\ status' = [status EXCEPT ![r] = s]
          /\ leased' = leased \ {r} /\ "closed" \in LaunchStates
      BY <1>1, <1>10, <2>1 DEF Cancel, Unstarted, LaunchStates
  <2>3. s \in {"absent", "Over"} /\ s \in Statuses
      BY <1>1, <2>1, <2>2 DEF Statuses
  <2> QED BY <2>2, <2>3, LaunchSlots
<1>11. CASE r \in AcceptedLaunches /\ launch[r] # "run_bound" /\ ClaimIntent(r)
  <2>1. status' = status /\ launch[r] \in {"queued", "preparing"}
          /\ (launch[r] = "preparing" => r \notin leased)
      BY <1>11 DEF ClaimIntent, AcceptedLaunches
  <2>2. CASE launch' = [launch EXCEPT ![r] = "preparing"]
               /\ leased' = leased \cup {r}
    <3>1. "preparing" \in LaunchStates
        BY DEF LaunchStates
    <3> QED BY <1>1, <1>2, <2>1, <2>2, <3>1, LaunchSlots
  <2>3. CASE launch[r] = "preparing" /\ launch' = [launch EXCEPT ![r] = "queued"]
               /\ leased' = leased
    <3>1. "queued" \in LaunchStates
        BY DEF LaunchStates
    <3> QED BY <1>1, <1>2, <2>1, <2>3, <3>1, LaunchSlots
  <2> QED BY <1>11, <2>2, <2>3 DEF ClaimIntent
<1> QED BY <1>3, <1>4, <1>5, <1>6, <1>7, <1>8, <1>9, <1>10, <1>11

(* The steps of one run and what they do to its slot. *)
LEMMA RunSteps ==
    ASSUME Slots, NEW r \in Runs,
           \/ Ask(r) \/ Deliver(r) \/ MarkCheckpointed(r)
           \/ RollbackResumedRun(r) \/ Respond(r) \/ TakeOver(r)
           \/ ReworkClaim(r) \/ HandBack(r) \/ WaitOnChildren(r)
           \/ MarkResumedFromWait(r) \/ Finish(r) \/ Crash(r)
           \/ ResumeCrashedRun(r)
           \/ r \in Scratch /\ LaunchScratch(r)
           \/ r \in QueuedRuns /\ StartQueued(r)
           \/ r \in AskedRuns /\ ResumeAsked(r)
    PROVE  Slots'
<1>1. /\ r \in Flow => r \notin Scratch
      /\ r \in Scratch =>
            status[r] \notin {"Pending", "Crashed", "WaitingOnChildren"}
  <2>1. Flow \cap Scratch = {}
      BY SchedulerAssumption
  <2> QED BY <2>1 DEF Slots
<1>2. UNCHANGED <<launch, leased>>
    BY DEF Ask, Deliver, MarkCheckpointed, RollbackResumedRun, Respond,
           TakeOver, ReworkClaim, HandBack, WaitOnChildren,
           MarkResumedFromWait, Finish, Crash, ResumeCrashedRun,
           LaunchScratch, StartQueued, ResumeAsked
<1>3. CASE status' = status
    BY <1>2, <1>3 DEF Slots, OneSlotPerLaunch
<1>4. ASSUME NEW s \in Statuses \ {"absent"},
             status' = [status EXCEPT ![r] = s],
             status[r] \notin {"absent", "Pending", "Over"},
             r \in Scratch => s \notin {"Pending", "Crashed", "WaitingOnChildren"}
      PROVE  Slots'
    BY <1>2, <1>4, Admitted, MoveSlots
<1>5. CASE Ask(r) \/ Deliver(r) \/ MarkCheckpointed(r)
               \/ RollbackResumedRun(r) \/ TakeOver(r) \/ ReworkClaim(r)
               \/ HandBack(r) \/ Finish(r)
  <2>1. PICK s \in {"Running", "NeedsInput", "NeedsInputIdle", "HumanWorking",
                    "Review", "Over"} :
          /\ status' = [status EXCEPT ![r] = s]
          /\ status[r] \in {"Running", "NeedsInput", "HumanWorking", "Review"}
      BY <1>5 DEF Ask, Deliver, MarkCheckpointed, RollbackResumedRun,
                  TakeOver, ReworkClaim, HandBack, Finish, Move
  <2>2. s \in Statuses \ {"absent"}
      BY <2>1 DEF Statuses
  <2> QED BY <1>4, <2>1, <2>2
<1>6. CASE \/ Respond(r) \/ MarkResumedFromWait(r)
           \/ r \in AskedRuns /\ ResumeAsked(r)
  <2>1. status[r] \in {"NeedsInputIdle", "WaitingOnChildren"}
      BY <1>6 DEF Respond, MarkResumedFromWait, AskedRuns, Idle
  <2>2. status' = status \/ \E s \in {"Running", "NeedsInput"} :
                              status' = [status EXCEPT ![r] = s]
      BY <1>6 DEF Respond, MarkResumedFromWait, ResumeAsked, Move
  <2>3. {"Running", "NeedsInput"} \subseteq Statuses \ {"absent"}
      BY DEF Statuses
  <2> QED BY <1>3, <1>4, <2>1, <2>2, <2>3
<1>7. CASE WaitOnChildren(r) \/ Crash(r)
  <2>1. PICK s \in {"WaitingOnChildren", "Crashed"} :
          /\ status' = [status EXCEPT ![r] = s] /\ r \in Flow
          /\ status[r] \in {"Running", "NeedsInput", "WaitingOnChildren",
                            "NeedsInputIdle", "Review"}
      BY <1>7 DEF WaitOnChildren, Crash, CrashesFrom, Move
  <2>2. s \in Statuses \ {"absent"}
      BY <2>1 DEF Statuses
  <2> QED BY <1>1, <1>4, <2>1, <2>2
<1>8. CASE ResumeCrashedRun(r)
  <2>1. PICK s \in {"Pending", "Running"} :
          status' = [status EXCEPT ![r] = s] /\ status[r] = "Crashed"
      BY <1>8 DEF ResumeCrashedRun, Move
  <2>2. s \in Statuses \ {"absent"}
      BY <2>1 DEF Statuses
  <2> QED BY <1>1, <1>4, <2>1, <2>2
<1>9. CASE r \in Scratch /\ LaunchScratch(r)
  <2>1. status' = [status EXCEPT ![r] = "Running"]
          /\ "Running" \in Statuses \ {"absent"}
      BY <1>9 DEF LaunchScratch, Statuses
  <2> QED BY <1>1, <1>2, <1>9, <2>1, MoveSlots
<1>10. CASE r \in QueuedRuns /\ StartQueued(r)
  <2>1. status' = [status EXCEPT ![r] = "Running"] /\ launch[r] = "committed"
          /\ "Running" \in Statuses \ {"absent"}
      BY <1>10 DEF StartQueued, QueuedRuns, Statuses
  <2> QED BY <1>2, <2>1, MoveSlots
<1> QED BY <1>5, <1>6, <1>7, <1>8, <1>9, <1>10, Zenon

LEMMA AbandonSlots ==
    ASSUME Slots, NEW r \in Runs, Abandon(r)
    PROVE  Slots'
<1>1. status' = [status EXCEPT ![r] = "Over"]
        /\ status[r] # "Over" /\ status[r] # "absent"
        /\ leased' = leased \ {r}
        /\ launch' = [f \in Flow |-> IF f = r /\ launch[f] # "committed"
                                     THEN "closed" ELSE launch[f]]
    BY DEF Abandon, Move
<1>2. "Over" \in Statuses \ {"absent"}
        /\ {"closed", "committed"} \subseteq LaunchStates
    BY DEF Statuses, LaunchStates
<1>3. launch \in [Flow -> LaunchStates] /\ leased \subseteq Flow
    BY DEF Slots
<1>4. CASE r \in Flow
  <2>1. PICK l \in {"closed", "committed"} :
          l = IF launch[r] # "committed" THEN "closed" ELSE launch[r]
      OBVIOUS
  <2>2. launch' = [launch EXCEPT ![r] = l]
      BY <1>1, <1>3, <2>1
  <2> QED BY <1>1, <1>2, <1>4, <2>1, <2>2, LaunchSlots
<1>5. CASE r \notin Flow
  <2>1. launch' = launch
      BY <1>1, <1>3, <1>5
  <2>2. leased' = leased
      BY <1>1, <1>3, <1>5
  <2> QED BY <1>1, <1>2, <1>5, <2>1, <2>2, MoveSlots
<1> QED BY <1>4, <1>5

(* Which step a promotion takes. *)
LEMMA PromotionStep ==
    ASSUME PromoteNextPending
    PROVE  \E r \in Runs :
             /\ r \in Admissible
             /\ \/ r \in Flow /\ TryStartRun(r)
                \/ /\ r \in Flow /\ r \in AcceptedLaunches
                   /\ launch[r] # "run_bound" /\ ClaimIntent(r)
                \/ r \in QueuedRuns /\ StartQueued(r)
                \/ r \in AskedRuns /\ ResumeAsked(r)
<1>1. PICK r \in Runs :
        /\ First(r)
        /\ \/ r \in AcceptedLaunches /\ launch[r] = "run_bound" /\ TryStartRun(r)
           \/ r \in AcceptedLaunches /\ launch[r] # "run_bound" /\ ClaimIntent(r)
           \/ r \in QueuedRuns /\ StartQueued(r)
           \/ r \in AskedRuns /\ ResumeAsked(r)
    BY DEF PromoteNextPending
<1>2. r \in Admissible
    BY <1>1 DEF First
<1>3. r \in AcceptedLaunches => r \in Flow
    BY DEF AcceptedLaunches
<1> QED BY <1>1, <1>2, <1>3

LEMMA HostSteps ==
    ASSUME PressureRises \/ PressureFalls \/ HostRetired
    PROVE  UNCHANGED <<status, launch, leased>>
BY DEF PressureRises, PressureFalls, HostRetired

LEMMA SlotsNext ==
    ASSUME Slots, Next
    PROVE  Slots'
<1>1. CASE PromoteNextPending
    BY <1>1, PromotionStep, LaunchSteps, RunSteps
<1>2. CASE PressureRises \/ PressureFalls \/ HostRetired
    BY <1>2, HostSteps DEF Slots, OneSlotPerLaunch
<1>3. Scratch \subseteq Runs
    BY DEF Runs
<1> QED BY <1>1, <1>2, <1>3, LaunchSteps, RunSteps, AbandonSlots DEF Next

-----------------------------------------------------------------------------
LEMMA InitInv == Init => SchedulerInv
<1> SUFFICES ASSUME Init PROVE SchedulerInv
    OBVIOUS
<1>1. Books
  <2>1. MaxParks \in Nat /\ MaxFaults \in Nat
      BY SchedulerAssumption
  <2>2. asks \in Seq(Runs) /\ line \in Seq(Runs)
      BY EmptySeq DEF Init
  <2>3. parks \in 0 .. MaxParks /\ faults \in 0 .. MaxFaults
      BY <2>1 DEF Init
  <2>4. owed \subseteq Runs /\ stranded \subseteq Runs /\ pressured \in BOOLEAN
      BY DEF Init
  <2> QED BY <2>2, <2>3, <2>4 DEF Books
<1>2. Slots
    BY DEF Init, Slots, OneSlotPerLaunch, Statuses, LaunchStates, Runs
<1>3. children \in SUBSET Flow
    BY SchedulerAssumption DEF Init
<1> QED BY <1>1, <1>2, <1>3, InvParts

LEMMA NextInv == SchedulerInv /\ [Next]_vars => SchedulerInv'
<1> SUFFICES ASSUME SchedulerInv, [Next]_vars PROVE SchedulerInv'
    OBVIOUS
<1>1. CASE Next
    BY <1>1, InvParts, InvPartsNext, BooksNext, SlotsNext, FamilyStays
<1>2. CASE UNCHANGED vars
    BY <1>2 DEF SchedulerInv, TypeOK, OneSlotPerLaunch, vars
<1> QED BY <1>1, <1>2

(* Type correctness, one slot per launch, and the statuses of scratch runs *)
(* hold in every reachable state.                                          *)
THEOREM Safety == Spec => []SchedulerInv
BY InitInv, NextInv, PTL DEF Spec

(* A launch holds one claim on the pool at a time and leaves none behind   *)
(* (tryStartRun, the launch intents, the settling trigger).                *)
THEOREM LaunchHoldsOneSlot == Spec => []OneSlotPerLaunch
<1>1. SchedulerInv => OneSlotPerLaunch
    BY DEF SchedulerInv
<1> QED BY <1>1, Safety, PTL

-----------------------------------------------------------------------------
(* The cap. *)

Holders == Live \cup Reserved

Holds(r) == r \in Holders

LEMMA HoldersCounted ==
    ASSUME Slots
    PROVE  Count = Cardinality(Holders) /\ IsFiniteSet(Holders) /\ Count \in Nat
<1>1. IsFiniteSet(Runs) /\ Live \subseteq Runs /\ Reserved \subseteq Runs
    BY SchedulerAssumption, FS_Union DEF Runs, Live, Reserved
<1>2. IsFiniteSet(Live) /\ IsFiniteSet(Reserved)
    BY <1>1, FS_Subset
<1>3. Live \cap Reserved = {}
    BY DEF Slots, OneSlotPerLaunch, Live, Reserved, Holding
<1>4. Cardinality(Live \cap Reserved) = 0
    BY <1>3, FS_EmptySet
<1>5. Cardinality(Live) \in Nat /\ Cardinality(Reserved) \in Nat
    BY <1>2, FS_CardinalityType
<1>6. IsFiniteSet(Holders) /\ Cardinality(Holders) =
        Cardinality(Live) + Cardinality(Reserved) - Cardinality(Live \cap Reserved)
    BY <1>2, FS_Union DEF Holders
<1> QED BY <1>4, <1>5, <1>6 DEF Count

(* A step of one run changes the count by one at most, and raises it only  *)
(* when that run comes to hold a slot.                                     *)
LEMMA OneRunCounts ==
    ASSUME Slots, Slots', NEW r \in Runs,
           \A q \in Runs \ {r} : status'[q] = status[q],
           \A q \in Flow \ {r} : launch'[q] = launch[q]
    PROVE  /\ Count \in Nat /\ Count' \in Nat
           /\ Count' <= Count + 1
           /\ Holds(r) => Count' <= Count
           /\ ~Holds(r)' => Count' <= Count
<1>1. Count = Cardinality(Holders) /\ IsFiniteSet(Holders) /\ Count \in Nat
    BY HoldersCounted
<1>2. (Count = Cardinality(Holders) /\ IsFiniteSet(Holders) /\ Count \in Nat)'
  <2>1. IsFiniteSet(Runs)
      BY SchedulerAssumption, FS_Union DEF Runs
  <2>2. Live' \subseteq Runs /\ Reserved' \subseteq Runs
      BY DEF Runs, Live, Reserved
  <2>3. IsFiniteSet(Live') /\ IsFiniteSet(Reserved')
      BY <2>1, <2>2, FS_Subset
  <2>4. Live' \cap Reserved' = {}
      BY DEF Slots, OneSlotPerLaunch, Live, Reserved, Holding
  <2>5. Cardinality(Live' \cap Reserved') = 0
      BY <2>4, FS_EmptySet
  <2>6. Cardinality(Live') \in Nat /\ Cardinality(Reserved') \in Nat
      BY <2>3, FS_CardinalityType
  <2>7. IsFiniteSet(Live' \cup Reserved') /\ Cardinality(Live' \cup Reserved') =
          Cardinality(Live') + Cardinality(Reserved')
            - Cardinality(Live' \cap Reserved')
      BY <2>3, FS_Union
  <2> QED BY <2>5, <2>6, <2>7 DEF Count, Holders
<1>3. Holders' \subseteq Holders \cup {r}
    BY DEF Holders, Live, Reserved, Runs
<1>4. /\ IsFiniteSet(Holders \cup {r})
      /\ Cardinality(Holders \cup {r}) =
           IF r \in Holders THEN Cardinality(Holders) ELSE Cardinality(Holders) + 1
    BY <1>1, FS_AddElement
<1>5. Cardinality(Holders') <= Cardinality(Holders \cup {r})
    BY <1>3, <1>4, FS_Subset
<1>6. ~Holds(r)' => Holders' \subseteq Holders
    BY <1>3 DEF Holds
<1>7. ~Holds(r)' => Cardinality(Holders') <= Cardinality(Holders)
    BY <1>1, <1>6, FS_Subset
<1> QED BY <1>1, <1>2, <1>4, <1>5, <1>7 DEF Holds

(* A step of one run or launch leaves the others alone. *)
LEMMA OneRunMoves ==
    ASSUME Slots, NEW r \in Runs,
           \/ /\ r \in Flow
              /\ \/ Accept(r) \/ Bind(r) \/ PreparationFails(r) \/ LoseLease(r)
                 \/ ComeDue(r) \/ TryStartRun(r) \/ Hold(r) \/ Cancel(r)
                 \/ ClaimIntent(r)
           \/ Ask(r) \/ Deliver(r) \/ MarkCheckpointed(r)
           \/ RollbackResumedRun(r) \/ Respond(r) \/ TakeOver(r)
           \/ ReworkClaim(r) \/ HandBack(r) \/ WaitOnChildren(r)
           \/ MarkResumedFromWait(r) \/ Finish(r) \/ Abandon(r) \/ Crash(r)
           \/ ResumeCrashedRun(r) \/ LaunchScratch(r) \/ StartQueued(r)
           \/ ResumeAsked(r)
    PROVE  /\ \A q \in Runs \ {r} : status'[q] = status[q]
           /\ \A q \in Flow \ {r} : launch'[q] = launch[q]
<1>1. status \in [Runs -> Statuses] /\ launch \in [Flow -> LaunchStates]
    BY DEF Slots
<1>2. status' = status \/ \E s : status' = [status EXCEPT ![r] = s]
    BY DEF Accept, Bind, PreparationFails, LoseLease, ComeDue, TryStartRun,
           Hold, Cancel, ClaimIntent, Ask, Deliver, MarkCheckpointed,
           RollbackResumedRun, Respond, TakeOver, ReworkClaim, HandBack,
           WaitOnChildren, MarkResumedFromWait, Finish, Abandon, Crash,
           ResumeCrashedRun, LaunchScratch, StartQueued, ResumeAsked, Move
<1>3. CASE Abandon(r)
    BY <1>1, <1>2, <1>3 DEF Abandon
<1>4. CASE ~Abandon(r)
  <2>1. launch' = launch \/ \E l : launch' = [launch EXCEPT ![r] = l]
      BY <1>4 DEF Accept, Bind, PreparationFails, LoseLease, ComeDue,
           TryStartRun, Hold, Cancel, ClaimIntent, Ask, Deliver,
           MarkCheckpointed, RollbackResumedRun, Respond, TakeOver,
           ReworkClaim, HandBack, WaitOnChildren, MarkResumedFromWait, Finish,
           Crash, ResumeCrashedRun, LaunchScratch, StartQueued, ResumeAsked
  <2> QED BY <1>1, <1>2, <2>1
<1> QED BY <1>3, <1>4

(* The steps that give no run a slot it did not hold. *)
LEMMA QuietSteps ==
    ASSUME Slots, NEW r \in Runs,
           \/ /\ r \in Flow
              /\ \/ Accept(r) \/ Bind(r) \/ PreparationFails(r) \/ LoseLease(r)
                 \/ ComeDue(r) \/ TryStartRun(r) \/ Hold(r) \/ Cancel(r)
           \/ Ask(r) \/ Deliver(r) \/ MarkCheckpointed(r)
           \/ RollbackResumedRun(r) \/ TakeOver(r) \/ HandBack(r)
           \/ WaitOnChildren(r) \/ Finish(r) \/ Abandon(r) \/ Crash(r)
    PROVE  Holds(r) \/ ~Holds(r)'
<1>1. status \in [Runs -> Statuses] /\ launch \in [Flow -> LaunchStates]
    BY DEF Slots
<1>2. CASE r \in Flow /\ (Bind(r) \/ PreparationFails(r) \/ LoseLease(r)
                            \/ TryStartRun(r))
    BY <1>2 DEF Holds, Holders, Reserved, Bind, PreparationFails, LoseLease,
                TryStartRun
<1>3. CASE Ask(r) \/ Deliver(r) \/ MarkCheckpointed(r)
             \/ RollbackResumedRun(r) \/ TakeOver(r) \/ HandBack(r)
             \/ WaitOnChildren(r) \/ Finish(r)
  <2>1. status[r] \in Holding
      BY <1>3 DEF Ask, Deliver, MarkCheckpointed, RollbackResumedRun,
                  TakeOver, HandBack, WaitOnChildren, Finish, Move, Holding
  <2> QED BY <2>1 DEF Holds, Holders, Live
<1>4. CASE r \in Flow /\ (Accept(r) \/ ComeDue(r) \/ Hold(r) \/ Cancel(r))
  <2>1. launch'[r] \in {"queued", "held", "closed"}
      BY <1>1, <1>4 DEF Accept, ComeDue, Hold, Cancel
  <2>2. status'[r] \notin Holding
    <3>1. launch[r] \notin {"committed", "closed"}
        BY <1>4 DEF Accept, ComeDue, Hold, Cancel, Unstarted
    <3>2. status[r] \in {"absent", "Pending"}
        BY <1>4, <3>1 DEF Slots, OneSlotPerLaunch
    <3>3. status'[r] \in {status[r], "Over"}
        BY <1>1, <1>4 DEF Accept, ComeDue, Hold, Cancel
    <3> QED BY <3>2, <3>3 DEF Holding
  <2> QED BY <2>1, <2>2 DEF Holds, Holders, Live, Reserved
<1>5. CASE Abandon(r)
  <2>1. status'[r] = "Over" /\ \A f \in Flow : f = r =>
                                 launch'[f] \in {"closed", "committed"}
      BY <1>1, <1>5 DEF Abandon, Move
  <2> QED BY <2>1 DEF Holds, Holders, Live, Reserved, Holding
<1>6. CASE Crash(r)
  <2>1. status'[r] = "Crashed" /\ launch' = launch /\ r \in Flow
          /\ status[r] \in {"Running", "NeedsInput", "WaitingOnChildren",
                            "NeedsInputIdle", "Review"}
      BY <1>1, <1>6 DEF Crash, CrashesFrom, Move
  <2>2. launch[r] = "committed"
      BY <2>1, Admitted
  <2> QED BY <2>1, <2>2 DEF Holds, Holders, Live, Reserved, Holding
<1> QED BY <1>2, <1>3, <1>4, <1>5, <1>6, Zenon

(* A promotion that gives a slot found the pool under its cap. *)
LEMMA PromotionHasRoom ==
    ASSUME Slots, NEW r \in Admissible,
           \/ r \in QueuedRuns
           \/ r \in AskedRuns
           \/ r \in AcceptedLaunches /\ launch[r] = "queued"
    PROVE  Count < Cap
<1>1. CASE r \in AcceptedLaunches /\ launch[r] = "queued"
    BY <1>1 DEF AcceptedLaunches
<1>2. CASE r \in QueuedRuns
  <2>1. r \notin AcceptedLaunches
      BY <1>2 DEF QueuedRuns, AcceptedLaunches
  <2> QED BY <2>1 DEF Admissible
<1>3. CASE r \in AskedRuns
  <2>1. status[r] = "NeedsInputIdle"
      BY <1>3 DEF AskedRuns, Idle
  <2>2. r \notin AcceptedLaunches
    <3>1. r \in Flow => launch[r] = "committed"
        BY <2>1, Admitted
    <3> QED BY <3>1 DEF AcceptedLaunches
  <2> QED BY <2>2 DEF Admissible
<1> QED BY <1>1, <1>2, <1>3

(* The cap that a step is held to. *)
Bound == IF \E r \in Runs : Reworks(r) THEN Cap ELSE EffectiveCap

LEMMA CapStep ==
    ASSUME SchedulerInv, SchedulerInv', Next, Count' > Count,
           \A r \in Runs : ~Bypass(r)
    PROVE  Count' <= Bound
<1>0. Cap \in Nat /\ EffectiveCap <= Cap /\ EffectiveCap \in Nat
    BY SchedulerAssumption DEF EffectiveCap
<1>1. Slots /\ Slots' /\ Cap \in Nat
    BY InvParts, SchedulerAssumption DEF SchedulerInv, TypeOK, Slots
<1>2. status \in [Runs -> Statuses] /\ Count \in Nat
    BY <1>1, HoldersCounted DEF Slots
<1>3. ASSUME NEW r \in Runs,
             \A q \in Runs \ {r} : status'[q] = status[q],
             \A q \in Flow \ {r} : launch'[q] = launch[q]
      PROVE  /\ ~Holds(r) /\ Holds(r)'
             /\ Count < EffectiveCap => Count' <= EffectiveCap
             /\ Count < Cap => Count' <= Cap
  <2>1. /\ Count \in Nat /\ Count' \in Nat
        /\ Count' <= Count + 1
        /\ Holds(r) => Count' <= Count
        /\ ~Holds(r)' => Count' <= Count
      BY <1>1, <1>3, OneRunCounts
  <2>2. EffectiveCap \in Nat
      BY <1>1 DEF EffectiveCap
  <2> QED BY <1>0, <2>1, <2>2
<1>4. ASSUME NEW r \in Flow,
             Accept(r) \/ Bind(r) \/ PreparationFails(r) \/ LoseLease(r)
               \/ ComeDue(r) \/ TryStartRun(r) \/ Hold(r) \/ Cancel(r)
      PROVE  FALSE
  <2>1. r \in Runs
      BY DEF Runs
  <2> QED BY <1>1, <1>3, <1>4, <2>1, OneRunMoves, QuietSteps
<1>5. ASSUME NEW r \in Runs,
             Ask(r) \/ Deliver(r) \/ MarkCheckpointed(r)
               \/ RollbackResumedRun(r) \/ TakeOver(r) \/ HandBack(r)
               \/ WaitOnChildren(r) \/ Finish(r) \/ Abandon(r) \/ Crash(r)
      PROVE  FALSE
    BY <1>1, <1>3, <1>5, OneRunMoves, QuietSteps
<1>6. ASSUME NEW r \in Runs, Respond(r) \/ MarkResumedFromWait(r)
      PROVE  Count' <= EffectiveCap
  <2>1. /\ ~Holds(r) /\ Holds(r)'
        /\ Count < EffectiveCap => Count' <= EffectiveCap
      BY <1>1, <1>3, <1>6, OneRunMoves
  <2>2. launch' = launch
      BY <1>6 DEF Respond, MarkResumedFromWait
  <2>3. status' # status
      BY <2>1, <2>2 DEF Holds, Holders, Live, Reserved
  <2>4. Count < EffectiveCap
      BY <1>0, <1>2, <1>6, <2>3 DEF Respond, MarkResumedFromWait, PoolFull
  <2> QED BY <2>1, <2>4
<1>11. ASSUME NEW r \in Runs, ReworkClaim(r)
      PROVE  Count' <= Bound
  <2>1. Reworks(r) /\ Count < Cap
      BY <1>2, <1>11 DEF ReworkClaim, Reworks, Move
  <2>2. Bound = Cap
      BY <2>1 DEF Bound
  <2>3. Count < Cap => Count' <= Cap
      BY <1>1, <1>3, <1>11, OneRunMoves
  <2> QED BY <2>1, <2>2, <2>3
<1>12. ASSUME Count' <= EffectiveCap PROVE Count' <= Bound
  <2>1. Count' \in Nat
    <3>1. IsFiniteSet(Runs) /\ Live' \subseteq Runs /\ Reserved' \subseteq Runs
        BY SchedulerAssumption, FS_Union DEF Runs, Live, Reserved
    <3>2. IsFiniteSet(Live') /\ IsFiniteSet(Reserved')
        BY <3>1, FS_Subset
    <3>3. Cardinality(Live') \in Nat /\ Cardinality(Reserved') \in Nat
        BY <3>2, FS_CardinalityType
    <3> QED BY <3>3 DEF Count
  <2> QED BY <1>0, <1>12, <2>1 DEF Bound
<1>7. ASSUME NEW r \in Runs, ResumeCrashedRun(r)
      PROVE  FALSE
  <2>1. status[r] = "Crashed" /\ launch' = launch
          /\ status'[r] \in {"Pending", "Running"}
      BY <1>2, <1>7 DEF ResumeCrashedRun, Move
  <2>2. r \notin Scratch
      BY <1>1, <2>1 DEF Slots
  <2>3. r \in Flow /\ launch[r] = "committed"
      BY <1>1, <2>1, <2>2, Admitted DEF Runs
  <2>4. status'[r] # "Running"
      BY <2>1, <2>2 DEF Bypass
  <2>5. ~Holds(r)'
      BY <2>1, <2>3, <2>4 DEF Holds, Holders, Live, Reserved, Holding
  <2> QED BY <1>1, <1>3, <1>7, <2>5, OneRunMoves
<1>8. ASSUME NEW r \in Scratch, LaunchScratch(r)
      PROVE  FALSE
  <2>1. r \in Runs
      BY DEF Runs
  <2>2. status[r] = "absent" /\ status'[r] = "Running"
      BY <1>2, <1>8, <2>1 DEF LaunchScratch
  <2> QED BY <1>8, <2>1, <2>2 DEF Bypass
<1>9. ASSUME PressureRises \/ PressureFalls \/ HostRetired
      PROVE  FALSE
  <2>1. status' = status /\ launch' = launch
      BY <1>9, HostSteps
  <2>2. Count' = Count
      BY <2>1 DEF Count, Live, Reserved
  <2> QED BY <1>2, <2>2
<1>10. ASSUME PromoteNextPending
       PROVE  Count' <= EffectiveCap
  <2>1. EffectiveCap = Cap
      BY <1>10 DEF PromoteNextPending, EffectiveCap
  <2>2. PICK r \in Runs :
          /\ r \in Admissible
          /\ \/ r \in Flow /\ TryStartRun(r)
             \/ /\ r \in Flow /\ r \in AcceptedLaunches
                /\ launch[r] # "run_bound" /\ ClaimIntent(r)
             \/ r \in QueuedRuns /\ StartQueued(r)
             \/ r \in AskedRuns /\ ResumeAsked(r)
      BY <1>10, PromotionStep
  <2>3. CASE r \in Flow /\ TryStartRun(r)
      BY <1>4, <2>3
  <2>4. CASE r \in QueuedRuns /\ StartQueued(r)
      BY <1>1, <1>3, <2>1, <2>2, <2>4, OneRunMoves, PromotionHasRoom
  <2>5. CASE r \in AskedRuns /\ ResumeAsked(r)
      BY <1>1, <1>3, <2>1, <2>2, <2>5, OneRunMoves, PromotionHasRoom
  <2>6. CASE r \in Flow /\ r \in AcceptedLaunches /\ launch[r] # "run_bound"
               /\ ClaimIntent(r)
    <3>1. /\ ~Holds(r)
          /\ Count < EffectiveCap => Count' <= EffectiveCap
        BY <1>1, <1>3, <2>6, OneRunMoves
    <3>2. launch[r] = "queued"
        BY <2>6, <3>1 DEF AcceptedLaunches, Holds, Holders, Reserved
    <3> QED BY <1>1, <2>1, <2>2, <2>6, <3>1, <3>2, PromotionHasRoom
  <2> QED BY <2>2, <2>3, <2>4, <2>5, <2>6
<1> QED BY <1>4, <1>5, <1>6, <1>7, <1>8, <1>9, <1>10, <1>11, <1>12 DEF Next

(* A step of the gate that takes a slot leaves the pool within its         *)
(* effective cap (promoteNextPending, claimTaskLaunchIntent, the resumes), *)
(* and a rework claim within its plain cap; only a scratch launch and a    *)
(* recover have rules of their own.                                        *)
THEOREM GateKeepsCap == Spec => AdmitsWithinCap
<1> DEFINE A == (Count' > Count /\ \A r \in Runs : ~Bypass(r))
                    => Count' <= IF \E r \in Runs : Reworks(r)
                                 THEN Cap ELSE EffectiveCap
<1>1. SchedulerInv /\ SchedulerInv' /\ [Next]_vars => [A]_vars
    BY CapStep DEF Bound
<1> QED BY <1>1, Safety, PTL DEF Spec, AdmitsWithinCap

=============================================================================
