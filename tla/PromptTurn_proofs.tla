------------------------- MODULE PromptTurn_proofs -------------------------
(***************************************************************************)
(* Proofs about PromptTurn.  PromptInv is taken apart into the outside and *)
(* the budget (DispatchInv), the application (AppInv), the row (RowInv)    *)
(* and the callers (CallersInv); a lemma per part shows that every step    *)
(* keeps it, given the parts it rests on.                                  *)
(***************************************************************************)
EXTENDS PromptTurn, TLAPS

DispatchInv == OutsideType /\ WireInv /\ SentPerAttempt
AppInv == ApplicationType /\ AppliedOnce
RowInv == RowType /\ EvidenceInv /\ SettledIsHosts /\ UnsentNeverRan
          /\ ConflictWarranted

\* Every step keeps the host, the wire and the budget in order.
LEMMA OutsideStep ==
    ASSUME OutsideType, RowType, WireInv, SentPerAttempt, CallerInv,
           caller \in [Callers -> Work], [Next]_vars PROVE DispatchInv'
<1> USE PromptAssumption DEF application, bounds, claim, clock, dispatch,
        evidence, feed, outside
<1>u. ASSUME UNCHANGED <<host, turn, signals, wire, log, skipped, cursor,
              faults, repairs, attempts, budget, sends>> PROVE DispatchInv'
  BY <1>u DEF DispatchInv, OutsideType, RowType, WireInv, SentPerAttempt,
    Outcomes, Terminals
<1>1. CASE UNCHANGED vars
  BY <1>1, <1>u DEF vars
<1>2. ASSUME NEW n \in wire, HostTakes(n) PROVE DispatchInv'
  BY <1>2 DEF HostTakes, Idle, DispatchInv, OutsideType, RowType, WireInv,
    SentPerAttempt, Outcomes
<1>3. ASSUME NEW n \in wire, NEW why \in {"pressured", "reconcile"},
            HostRefuses(n, why) PROVE DispatchInv'
  BY <1>3 DEF HostRefuses, DispatchInv, OutsideType, RowType, WireInv,
    SentPerAttempt, Outcomes
<1>4. ASSUME NEW c \in Callers, ReadRow(c) PROVE DispatchInv'
  BY <1>4, <1>u DEF ReadRow
<1>5. ASSUME NEW c \in Callers, Dispatch(c) PROVE DispatchInv'
  <2>1. CASE ~Claimable(c)
    <3>1. UNCHANGED <<host, turn, signals, wire, log, skipped, cursor,
                      faults, repairs, attempts, budget, sends>>
      BY <1>5, <2>1 DEF Dispatch
    <3> QED  BY <3>1, <1>u
  <2>2. CASE Claimable(c)
    <3>1. attempts = caller[c].try /\ attempts < budget
      BY <1>5, <2>2 DEF Dispatch, Claimable, CallerInv, Sound
    <3>2. /\ attempts' = attempts + 1 /\ sends' = sends + 1
          /\ wire' = wire \cup {attempts + 1}
          /\ UNCHANGED <<host, turn, signals, log, skipped, cursor, faults,
                         repairs, budget>>
      BY <1>5, <2>2, <3>1 DEF Dispatch
    <3>8. wire' \subseteq Nat
      BY <3>2 DEF OutsideType, RowType
    <3>3. OutsideType'
      BY <3>2, <3>8 DEF OutsideType
    <3>5. repairs' * ExtraAttempts = repairs * ExtraAttempts
      BY <3>2
    <3>6. sends' = attempts' /\ attempts' <= budget'
      BY <3>1, <3>2 DEF SentPerAttempt, RowType
    <3>7. budget' <= MaxAttempts + repairs' * ExtraAttempts
      BY <3>2, <3>5 DEF SentPerAttempt
    <3>4. WireInv'
      BY <3>2 DEF WireInv, RowType
    <3> QED  BY <3>3, <3>4, <3>6, <3>7 DEF DispatchInv, SentPerAttempt
  <2> QED  BY <2>1, <2>2
<1>6. ASSUME NEW c \in Callers, TimeOut(c) PROVE DispatchInv'
  BY <1>6, <1>u DEF TimeOut
<1>7. ASSUME NEW c \in Callers, Admitted(c) PROVE DispatchInv'
  BY <1>7, <1>u DEF Admitted
<1>8. ASSUME NEW c \in Callers, FailUnsent(c) PROVE DispatchInv'
  BY <1>8, <1>u DEF FailUnsent
<1>9. ASSUME NEW c \in Callers, LookUp(c) PROVE DispatchInv'
  BY <1>9, <1>u DEF LookUp
<1>10. ASSUME NEW c \in Callers, DepositLooked(c) PROVE DispatchInv'
  BY <1>10, <1>u DEF DepositLooked
<1>11. ASSUME NEW c \in Callers, AckLooked(c) PROVE DispatchInv'
  BY <1>11, <1>u DEF AckLooked
<1>12. ASSUME NEW c \in Callers, StoreLooked(c) PROVE DispatchInv'
  BY <1>12, <1>u DEF StoreLooked
<1>13. ASSUME NEW c \in Callers, FailRefused(c) PROVE DispatchInv'
  BY <1>13, <1>u DEF FailRefused
<1>14. ASSUME NEW c \in Callers, Unknown(c) PROVE DispatchInv'
  BY <1>14, <1>u DEF Unknown
<1>15. ASSUME NEW c \in Callers, LookStored(c) PROVE DispatchInv'
  BY <1>15, <1>u DEF LookStored
<1>16. ASSUME NEW c \in Callers, ClaimRead(c) PROVE DispatchInv'
  BY <1>16, <1>u DEF ClaimRead
<1>17. ASSUME NEW c \in Callers, ReadReceipt(c) PROVE DispatchInv'
  BY <1>17, <1>u DEF ReadReceipt
<1>18. ASSUME NEW c \in Callers, DepositRead(c) PROVE DispatchInv'
  BY <1>18, <1>u DEF DepositRead
<1>19. ASSUME NEW c \in Callers, OfferStored(c) PROVE DispatchInv'
  BY <1>19, <1>u DEF OfferStored
<1>20. ASSUME NEW c \in Callers, ReadSpan(c) PROVE DispatchInv'
  BY <1>20, <1>u DEF ReadSpan
<1>21. ASSUME NEW c \in Callers, SettleSpan(c) PROVE DispatchInv'
  BY <1>21, <1>u DEF SettleSpan
<1>22. ASSUME NEW c \in Callers, ReleaseRead(c) PROVE DispatchInv'
  BY <1>22, <1>u DEF ReleaseRead
<1>23. ASSUME NEW c \in Callers, LastLook(c) PROVE DispatchInv'
  BY <1>23, <1>u DEF LastLook
<1>24. ASSUME NEW c \in Callers, PassLeavesUnknown(c) PROVE DispatchInv'
  BY <1>24, <1>u DEF PassLeavesUnknown
<1>25. ASSUME NEW c \in Callers, PassReplays(c) PROVE DispatchInv'
  BY <1>25, <1>u DEF PassReplays
<1>26. ASSUME NEW c \in Callers, NotSent(c) PROVE DispatchInv'
  BY <1>26 DEF NotSent, Becomes, DispatchInv, OutsideType, RowType, WireInv,
    SentPerAttempt, Outcomes
<1>27. ASSUME NEW c \in Callers, LookUpFails(c) PROVE DispatchInv'
  BY <1>27 DEF LookUpFails, Unsent, Fault, Becomes, DispatchInv, OutsideType,
    RowType, WireInv, SentPerAttempt, Outcomes
<1>28. ASSUME NEW c \in Callers, ReadFails(c) PROVE DispatchInv'
  BY <1>28 DEF ReadFails, Fault, Becomes, Idle, Leave, DispatchInv,
    OutsideType, RowType, WireInv, SentPerAttempt, Outcomes
<1>29. ASSUME NEW a \in Appliers, ClaimOwner(a) PROVE DispatchInv'
  BY <1>29, <1>u DEF ClaimOwner
<1>30. ASSUME NEW a \in Appliers, PrepareOwner(a) PROVE DispatchInv'
  BY <1>30, <1>u DEF PrepareOwner
<1>31. ASSUME NEW a \in Appliers, CommitOwner(a) PROVE DispatchInv'
  BY <1>31, <1>u DEF CommitOwner
<1>32. ASSUME NEW a \in Appliers, LoseClaim(a) PROVE DispatchInv'
  BY <1>32, <1>u DEF LoseClaim
<1>33. ASSUME NEW a \in Appliers, ApplyFails(a) PROVE DispatchInv'
  BY <1>33, <1>u DEF ApplyFails
<1>34. ASSUME NEW a \in Appliers, Defer(a) PROVE DispatchInv'
  BY <1>34 DEF Defer, Fault, GiveBack, Owned, Holds, Free, DispatchInv,
    OutsideType, RowType, WireInv, SentPerAttempt, Outcomes
<1>35. CASE HostEnds
  BY <1>35 DEF HostEnds, DispatchInv, OutsideType, RowType, WireInv,
    SentPerAttempt, Outcomes
<1>36. CASE IngestEvent
  BY <1>36 DEF IngestEvent, Emitted, Replaced, DispatchInv, OutsideType,
    RowType, WireInv, SentPerAttempt, Outcomes
<1>37. CASE SkipEvent
  BY <1>37 DEF SkipEvent, Emitted, Replaced, Fault, DispatchInv, OutsideType,
    Terminals, RowType,
    WireInv, SentPerAttempt, Outcomes
<1>38. CASE ProjectAccepted
  BY <1>38 DEF ProjectAccepted, NoteAccepted, Acknowledge, DispatchInv,
    OutsideType, RowType, WireInv, SentPerAttempt, Outcomes
<1>39. CASE PrepareTerminal
  BY <1>39, <1>u DEF PrepareTerminal
<1>40. ASSUME NEW e \in Terminals, ProjectTerminal(e) PROVE DispatchInv'
  <2>1. cursor' = e /\ UNCHANGED <<host, turn, signals, wire, log, skipped,
                     faults, repairs, attempts, budget, sends>>
    BY <1>40 DEF ProjectTerminal
  <2> QED
    BY <2>1 DEF DispatchInv, OutsideType, RowType, WireInv, SentPerAttempt,
      Outcomes, Terminals
<1>41. CASE RearmAdmission
  BY <1>41 DEF RearmAdmission, Repair, NoDelay, DispatchInv, OutsideType,
    RowType, WireInv, SentPerAttempt, Outcomes
<1>42. CASE RearmApplication
  BY <1>42 DEF RearmApplication, Repair, Applicable, DispatchInv, OutsideType,
    RowType, WireInv, SentPerAttempt, Outcomes
<1>43. CASE HandOff
  BY <1>43 DEF HandOff, Repair, Applicable, DispatchInv, OutsideType, RowType,
    WireInv, SentPerAttempt, Outcomes
<1>44. CASE TimePasses
  BY <1>44, <1>u DEF TimePasses
<1>45. CASE PauseReader
  BY <1>45 DEF PauseReader, Fault, Reading, DispatchInv, OutsideType, RowType,
    WireInv, SentPerAttempt, Outcomes
<1>46. CASE ExpireLease
  BY <1>46 DEF ExpireLease, Fault, DispatchInv, OutsideType, RowType, WireInv,
    SentPerAttempt, Outcomes
<1>47. CASE Crash
  BY <1>47 DEF Crash, Fault, Idle, Free, DispatchInv, OutsideType, RowType,
    WireInv, SentPerAttempt, Outcomes
<1>48. CASE HostLoses
  BY <1>48 DEF HostLoses, DispatchInv, OutsideType, RowType, WireInv,
    SentPerAttempt, Outcomes
<1>49. CASE HostReplaces
  BY <1>49 DEF HostReplaces, DispatchInv, OutsideType, RowType, WireInv,
    SentPerAttempt, Outcomes
<1> QED  BY <1>1, <1>2, <1>3, <1>4, <1>5, <1>6, <1>7, <1>8, <1>9, <1>10,
        <1>11, <1>12, <1>13, <1>14, <1>15, <1>16, <1>17, <1>18, <1>19, <1>20,
        <1>21, <1>22, <1>23, <1>24, <1>25, <1>26, <1>27, <1>28, <1>29, <1>30,
        <1>31, <1>32, <1>33, <1>34, <1>35, <1>36, <1>37, <1>38, <1>39, <1>40,
        <1>41, <1>42, <1>43, <1>44, <1>45, <1>46, <1>47, <1>48, <1>49 DEF Next,
        Start, Reconcile, Apply, Project

\* Every step keeps the application in order.
LEMMA ApplicationStep ==
    ASSUME ApplicationType, AppliedOnce, [Next]_vars PROVE AppInv'
<1> USE PromptAssumption DEF application, bounds, claim, clock, dispatch,
        evidence, feed, outside
<1>u. ASSUME UNCHANGED <<app, owner, leased, failures, applied, applier>>
              PROVE AppInv'
  BY <1>u DEF AppInv, ApplicationType, AppliedOnce
<1>1. CASE UNCHANGED vars
  BY <1>1, <1>u DEF vars
<1>2. ASSUME NEW n \in wire, HostTakes(n) PROVE AppInv'
  BY <1>2, <1>u DEF HostTakes
<1>3. ASSUME NEW n \in wire, NEW why \in {"pressured", "reconcile"},
            HostRefuses(n, why) PROVE AppInv'
  BY <1>3, <1>u DEF HostRefuses
<1>4. ASSUME NEW c \in Callers, ReadRow(c) PROVE AppInv'
  BY <1>4, <1>u DEF ReadRow
<1>5. ASSUME NEW c \in Callers, Dispatch(c) PROVE AppInv'
  BY <1>5, <1>u DEF Dispatch
<1>6. ASSUME NEW c \in Callers, TimeOut(c) PROVE AppInv'
  BY <1>6, <1>u DEF TimeOut
<1>7. ASSUME NEW c \in Callers, Admitted(c) PROVE AppInv'
  BY <1>7, <1>u DEF Admitted
<1>8. ASSUME NEW c \in Callers, FailUnsent(c) PROVE AppInv'
  BY <1>8, <1>u DEF FailUnsent
<1>9. ASSUME NEW c \in Callers, LookUp(c) PROVE AppInv'
  BY <1>9, <1>u DEF LookUp
<1>10. ASSUME NEW c \in Callers, DepositLooked(c) PROVE AppInv'
  BY <1>10 DEF DepositLooked, SawReceipt, Outcomes, Deposit, NoteAccepted,
    Acknowledge, Quarantine, Leave, Becomes, Idle, AppInv, ApplicationType,
    AppliedOnce
<1>11. ASSUME NEW c \in Callers, AckLooked(c) PROVE AppInv'
  BY <1>11, <1>u DEF AckLooked
<1>12. ASSUME NEW c \in Callers, StoreLooked(c) PROVE AppInv'
  BY <1>12 DEF StoreLooked, ReconcileStored, NoEvidence, Candidate, Stored,
    BindAndReduce, Reduce,
    Disagrees, Outcomes, Quarantine, Acknowledge, NoDelay, SkippedTerminal,
    Leave, Becomes, Idle, AppInv, ApplicationType, AppliedOnce
<1>13. ASSUME NEW c \in Callers, FailRefused(c) PROVE AppInv'
  BY <1>13, <1>u DEF FailRefused
<1>14. ASSUME NEW c \in Callers, Unknown(c) PROVE AppInv'
  BY <1>14, <1>u DEF Unknown
<1>15. ASSUME NEW c \in Callers, LookStored(c) PROVE AppInv'
  BY <1>15 DEF LookStored, ReconcileStored, NoEvidence, Candidate, Stored,
    BindAndReduce, Reduce,
    Disagrees, Outcomes, Quarantine, Acknowledge, NoDelay, SkippedTerminal,
    Go, Becomes, Idle, AppInv, ApplicationType, AppliedOnce
<1>16. ASSUME NEW c \in Callers, ClaimRead(c) PROVE AppInv'
  BY <1>16, <1>u DEF ClaimRead
<1>17. ASSUME NEW c \in Callers, ReadReceipt(c) PROVE AppInv'
  BY <1>17, <1>u DEF ReadReceipt
<1>18. ASSUME NEW c \in Callers, DepositRead(c) PROVE AppInv'
  BY <1>18 DEF DepositRead, Deposit, NoteAccepted, Acknowledge, Quarantine,
    Leave, Becomes, Idle, Go, AppInv, ApplicationType, AppliedOnce
<1>19. ASSUME NEW c \in Callers, OfferStored(c) PROVE AppInv'
  BY <1>19 DEF OfferStored, ReconcileStored, NoEvidence, Candidate, Stored,
    BindAndReduce, Reduce,
    Disagrees, Outcomes, Quarantine, Acknowledge, NoDelay, SkippedTerminal,
    Go, Becomes, Idle, AppInv, ApplicationType, AppliedOnce
<1>20. ASSUME NEW c \in Callers, ReadSpan(c) PROVE AppInv'
  BY <1>20, <1>u DEF ReadSpan
<1>21. ASSUME NEW c \in Callers, SettleSpan(c) PROVE AppInv'
  BY <1>21 DEF SettleSpan, NoEvidence, Reduce, Disagrees, Outcomes,
    Quarantine, Acknowledge, NoDelay, Go, Becomes, Idle, AppInv,
    ApplicationType, AppliedOnce
<1>22. ASSUME NEW c \in Callers, ReleaseRead(c) PROVE AppInv'
  BY <1>22, <1>u DEF ReleaseRead
<1>23. ASSUME NEW c \in Callers, LastLook(c) PROVE AppInv'
  BY <1>23 DEF LastLook, ReconcileStored, NoEvidence, Candidate, Stored,
    BindAndReduce, Reduce,
    Disagrees, Outcomes, Quarantine, Acknowledge, NoDelay, SkippedTerminal,
    Becomes, Leave, Idle, AppInv, ApplicationType, AppliedOnce
<1>24. ASSUME NEW c \in Callers, PassLeavesUnknown(c) PROVE AppInv'
  BY <1>24, <1>u DEF PassLeavesUnknown
<1>25. ASSUME NEW c \in Callers, PassReplays(c) PROVE AppInv'
  BY <1>25, <1>u DEF PassReplays
<1>26. ASSUME NEW c \in Callers, NotSent(c) PROVE AppInv'
  BY <1>26, <1>u DEF NotSent
<1>27. ASSUME NEW c \in Callers, LookUpFails(c) PROVE AppInv'
  BY <1>27, <1>u DEF LookUpFails
<1>28. ASSUME NEW c \in Callers, ReadFails(c) PROVE AppInv'
  BY <1>28, <1>u DEF ReadFails
<1>29. ASSUME NEW a \in Appliers, ClaimOwner(a) PROVE AppInv'
  BY <1>29 DEF ClaimOwner, Applicable, Outcomes, AppInv, ApplicationType,
    AppliedOnce
<1>30. ASSUME NEW a \in Appliers, PrepareOwner(a) PROVE AppInv'
  BY <1>30 DEF PrepareOwner, Free, AppInv, ApplicationType, AppliedOnce
<1>31. ASSUME NEW a \in Appliers, CommitOwner(a) PROVE AppInv'
  <2>1. applied = 0
    BY <1>31 DEF CommitOwner, Holds, Owned, ApplicationType, AppliedOnce
  <2>2. CASE app' = "applied"
    <3>1. applied' = 1
      BY <1>31, <2>1, <2>2 DEF CommitOwner
    <3>2. owner' = Nobody /\ leased' = FALSE /\ failures' = failures
          /\ applier' = [applier EXCEPT ![a] = Free]
      BY <1>31 DEF CommitOwner
    <3>3. ApplicationType'
      BY <2>2, <3>1, <3>2 DEF ApplicationType, Free
    <3>4. AppliedOnce'
      BY <2>2, <3>1 DEF AppliedOnce
    <3> QED  BY <3>3, <3>4 DEF AppInv
  <2>3. CASE app' = "superseded"
    <3>1. applied' = 0
      BY <1>31, <2>1, <2>3 DEF CommitOwner
    <3>2. owner' = Nobody /\ leased' = FALSE /\ failures' = failures
          /\ applier' = [applier EXCEPT ![a] = Free]
      BY <1>31 DEF CommitOwner
    <3>3. ApplicationType'
      BY <2>3, <3>1, <3>2 DEF ApplicationType, Free
    <3>4. AppliedOnce'
      BY <2>3, <3>1 DEF AppliedOnce
    <3> QED  BY <3>3, <3>4 DEF AppInv
  <2> QED  BY <1>31, <2>2, <2>3 DEF CommitOwner
<1>32. ASSUME NEW a \in Appliers, LoseClaim(a) PROVE AppInv'
  BY <1>32 DEF LoseClaim, Holds, Owned, GiveBack, Free, AppInv,
    ApplicationType, AppliedOnce
<1>33. ASSUME NEW a \in Appliers, ApplyFails(a) PROVE AppInv'
  <2>1. CASE ~Holds(a)
    BY <1>33, <2>1 DEF ApplyFails, Free, AppInv, ApplicationType, AppliedOnce
  <2>2. CASE Holds(a)
    <3>1. applied = 0
      BY <2>2 DEF Holds, Owned, ApplicationType, AppliedOnce
    <3>2. failures' \in Nat
      BY <1>33, <2>2 DEF ApplyFails, ApplicationType
    <3>3. app' \in {"pending",
      "poisoned"} /\ owner' = Nobody /\ leased' = FALSE
          /\ applier' = [applier EXCEPT ![a] = Free] /\ applied' = applied
      BY <1>33, <2>2 DEF ApplyFails
    <3>4. ApplicationType'
      BY <3>1, <3>2, <3>3 DEF ApplicationType, Free
    <3>5. AppliedOnce'
      BY <3>1, <3>3 DEF AppliedOnce
    <3> QED  BY <3>4, <3>5 DEF AppInv
  <2> QED  BY <2>1, <2>2
<1>34. ASSUME NEW a \in Appliers, Defer(a) PROVE AppInv'
  BY <1>34 DEF Defer, Fault, GiveBack, Owned, Holds, Free, AppInv,
    ApplicationType, AppliedOnce
<1>35. CASE HostEnds
  BY <1>35, <1>u DEF HostEnds
<1>36. CASE IngestEvent
  BY <1>36, <1>u DEF IngestEvent
<1>37. CASE SkipEvent
  BY <1>37, <1>u DEF SkipEvent
<1>38. CASE ProjectAccepted
  BY <1>38, <1>u DEF ProjectAccepted
<1>39. CASE PrepareTerminal
  BY <1>39 DEF PrepareTerminal, Deposit, NoteAccepted, Acknowledge,
    Quarantine, AppInv, ApplicationType, AppliedOnce
<1>40. ASSUME NEW e \in Terminals, ProjectTerminal(e) PROVE AppInv'
  BY <1>40 DEF ProjectTerminal, BindAndReduce, Reduce, NoEvidence, Disagrees,
    Outcomes, Quarantine, Acknowledge, NoDelay, AppInv, ApplicationType,
      AppliedOnce
<1>41. CASE RearmAdmission
  BY <1>41, <1>u DEF RearmAdmission
<1>42. CASE RearmApplication
  BY <1>42 DEF RearmApplication, Repair, Applicable, Outcomes, AppInv,
    ApplicationType, AppliedOnce
<1>43. CASE HandOff
  <2>1. CASE app # "applied" /\ app' = "applied" /\ applied' = applied + 1
    <3>1. applied' = 1
      BY <2>1 DEF ApplicationType, AppliedOnce
    <3>4. owner' = Nobody /\ leased' = FALSE /\ failures' = failures
          /\ applier' = applier
      BY <1>43 DEF HandOff
    <3>5. app' = "applied"
      BY <2>1
    <3>2. ApplicationType'
      BY <3>1, <3>4, <3>5 DEF ApplicationType
    <3>3. AppliedOnce'
      BY <2>1, <3>1 DEF AppliedOnce
    <3> QED  BY <3>2, <3>3 DEF AppInv
  <2>2. CASE app = "pending" /\ app' = "superseded" /\ applied' = applied
    BY <1>43, <2>2 DEF HandOff, AppInv, ApplicationType, AppliedOnce
  <2> QED  BY <1>43, <2>1, <2>2 DEF HandOff
<1>44. CASE TimePasses
  BY <1>44, <1>u DEF TimePasses
<1>45. CASE PauseReader
  BY <1>45, <1>u DEF PauseReader
<1>46. CASE ExpireLease
  BY <1>46 DEF ExpireLease, Fault, AppInv, ApplicationType, AppliedOnce
<1>47. CASE Crash
  BY <1>47 DEF Crash, Fault, Idle, Free, AppInv, ApplicationType, AppliedOnce
<1>48. CASE HostLoses
  BY <1>48, <1>u DEF HostLoses
<1>49. CASE HostReplaces
  BY <1>49, <1>u DEF HostReplaces
<1> QED  BY <1>1, <1>2, <1>3, <1>4, <1>5, <1>6, <1>7, <1>8, <1>9, <1>10,
        <1>11, <1>12, <1>13, <1>14, <1>15, <1>16, <1>17, <1>18, <1>19, <1>20,
        <1>21, <1>22, <1>23, <1>24, <1>25, <1>26, <1>27, <1>28, <1>29, <1>30,
        <1>31, <1>32, <1>33, <1>34, <1>35, <1>36, <1>37, <1>38, <1>39, <1>40,
        <1>41, <1>42, <1>43, <1>44, <1>45, <1>46, <1>47, <1>48, <1>49 DEF Next,
        Start, Reconcile, Apply, Project

\* Only a receipt that was replaced names another outcome or a second event.
LEMMA SecondIsReplaced ==
    ASSUME RowInv, OutsideType PROVE /\ log >= 3 => Replaced
                                     /\ receipt \in Outcomes => receipt = host
<1>1. log <= Emitted /\ log \in 0..3
  BY DEF RowInv, EvidenceInv, OutsideType
<1>2. log >= 3 => Replaced
  BY <1>1 DEF Emitted
<1>3. receipt \in Outcomes => receipt = host
  BY DEF RowInv, EvidenceInv, Published, Outcomes
<1> QED  BY <1>2, <1>3

\* Quarantine with a cause keeps what is known of the row.
LEMMA QuarantineKeeps ==
    ASSUME RowInv, Quarantine, local = "refused" \/ Replaced \/ 2 \in skipped,
           bound' \in {0} \cup Terminals, bound' # 0 => bound' <= log,
           UNCHANGED <<host, turn, wire, log, skipped, local, receipt,
                       dispatch>>
    PROVE  RowInv'
<1>1. conflict' = TRUE /\ UNCHANGED <<state, transport, timer, due, settled>>
  BY DEF Quarantine, clock
<1>2. RowType'
  BY <1>1 DEF RowInv, RowType, dispatch
<1>3. EvidenceInv'
  BY <1>1 DEF RowInv, EvidenceInv, Published, Replaced, Emitted
<1>4. ConflictWarranted'
  BY DEF ConflictWarranted, Replaced
<1> QED
  BY <1>1, <1>2, <1>3, <1>4 DEF RowInv, SettledIsHosts, UnsentNeverRan

\* Reducing a stored receipt with the first terminal event, or with a second
\* one that was ingested, keeps it too: it settles with the host's outcome, or
\* quarantines for a cause.
LEMMA ReduceKeeps ==
    ASSUME RowInv, OutsideType, NEW from \in {"canonical", "host_span"},
           NEW e \in Terminals, e # 2 => e <= log, Reduce(receipt, e, from),
           bound' \in {0} \cup Terminals, bound' # 0 => bound' <= log,
           UNCHANGED <<host, turn, wire, log, skipped, local, receipt,
                       dispatch>>
    PROVE  RowInv'
<1> USE DEF dispatch, clock, claim
<1>1. CASE conflict \/ receipt = "none"
  BY <1>1 DEF Reduce, NoEvidence, RowInv, RowType, EvidenceInv,
    SettledIsHosts, UnsentNeverRan, ConflictWarranted, Published, Replaced,
    Emitted
<1>2. CASE ~conflict /\ receipt # "none" /\ Disagrees(receipt, e)
  <2>1. CASE e # 2
    <3>1. log >= 3
      BY <2>1 DEF Terminals, OutsideType
    <3> QED  BY <1>2, <3>1, SecondIsReplaced, QuarantineKeeps DEF Reduce
  <2>2. CASE receipt # host
    <3>1. Replaced
      BY <1>2, <2>2 DEF RowInv, EvidenceInv, Published
    <3> QED  BY <1>2, <3>1, QuarantineKeeps DEF Reduce
  <2>3. CASE e = 2 /\ receipt = host
    <3>1. state \in Outcomes /\ (state # receipt \/ local # "no")
      BY <1>2, <2>3 DEF Disagrees
    <3>2. local = "refused"
      BY <1>2, <2>3, <3>1 DEF RowInv, RowType, EvidenceInv, SettledIsHosts,
        UnsentNeverRan
    <3> QED  BY <1>2, <3>2, QuarantineKeeps DEF Reduce
  <2> QED  BY <2>1, <2>2, <2>3
<1>3. CASE ~conflict /\ receipt # "none" /\ ~Disagrees(receipt, e)
  <2>1. receipt = host /\ receipt \in Outcomes
    BY <1>3 DEF Disagrees, RowInv, RowType, OutsideType, Receipts, Outcomes
  <2>2. local = "no"
    BY <1>3, <2>1 DEF Disagrees, RowInv, RowType, EvidenceInv, Outcomes
  <2>3. /\ state' = receipt
        /\ settled' = IF settled = "no" THEN from ELSE settled
        /\ transport' = "acknowledged" /\ timer' = Nobody /\ due' = TRUE
        /\ conflict' = conflict
    BY <1>3 DEF Reduce, Acknowledge, NoDelay
  <2>4. settled' \in {"canonical", "host_span"}
    BY <2>3 DEF RowInv, RowType
  <2>5. RowType'
    BY <2>1, <2>3, <2>4 DEF RowInv, RowType, Transports
  <2>6. EvidenceInv'
    BY <2>1, <2>2, <2>3, <2>4 DEF RowInv, EvidenceInv, Published, Replaced,
      Emitted
  <2> QED
    BY <2>1, <2>2, <2>3, <2>5, <2>6 DEF RowInv, SettledIsHosts,
      UnsentNeverRan, ConflictWarranted, Replaced
<1> QED  BY <1>1, <1>2, <1>3

\* So does binding a terminal event that was ingested.
LEMMA BindKeeps ==
    ASSUME RowInv, OutsideType, NEW e \in Terminals, e <= log,
           BindAndReduce(e),
           UNCHANGED <<host, turn, wire, log, skipped, local, receipt,
                       dispatch>>
    PROVE  RowInv'
<1>1. CASE bound \in {0, e}
  <2>1. bound' = e /\ Reduce(receipt, e, "canonical")
    BY <1>1 DEF BindAndReduce
  <2>2. bound' \in {0} \cup Terminals /\ (bound' # 0 => bound' <= log)
    BY <2>1
  <2> QED  BY <2>1, <2>2, ReduceKeeps
<1>2. CASE bound \notin {0, e}
  <2>1. Quarantine /\ bound' = bound
    BY <1>2 DEF BindAndReduce
  <2>2. bound \in Terminals /\ bound <= log
    BY <1>2 DEF RowInv, RowType, EvidenceInv
  <2>3. log >= 3
    BY <1>2, <2>2 DEF Terminals, OutsideType
  <2> QED  BY <2>1, <2>2, <2>3, SecondIsReplaced, QuarantineKeeps
<1> QED  BY <1>1, <1>2

\* So does looking at what is stored, which may also find the terminal event
\* in the skip ledger.
LEMMA StoredKeeps ==
    ASSUME RowInv, OutsideType, ReconcileStored,
           UNCHANGED <<host, turn, wire, log, skipped, local, dispatch>>
    PROVE  RowInv'
<1> USE DEF dispatch, clock, claim
<1>0. receipt' = receipt
  BY DEF ReconcileStored
<1>4. bound \in {0} \cup Terminals /\ (bound # 0 => bound <= log)
  BY DEF RowInv, RowType, EvidenceInv
<1>1. CASE NoEvidence /\ UNCHANGED bound
  BY <1>0, <1>1 DEF NoEvidence, RowInv, RowType, EvidenceInv, SettledIsHosts,
    UnsentNeverRan, ConflictWarranted, Published, Replaced, Emitted
<1>2. CASE Candidate # 0 /\ BindAndReduce(Candidate)
  <2>1. Candidate \in Terminals /\ Candidate <= log
    BY <1>2, <1>4 DEF Candidate, Stored, Terminals
  <2> QED  BY <1>0, <1>2, <2>1, BindKeeps
<1>3. CASE SkippedTerminal /\ Quarantine /\ UNCHANGED bound
  <2>1. 2 \in skipped
    BY <1>3 DEF SkippedTerminal
  <2> QED  BY <1>0, <1>3, <1>4, <2>1, QuarantineKeeps
<1> QED  BY <1>1, <1>2, <1>3 DEF ReconcileStored

\* So does keeping a receipt that the host published.
LEMMA DepositKeeps ==
    ASSUME RowInv, OutsideType, NEW seen \in {"accepted"} \cup Receipts,
           seen \in Receipts => Published(seen), Deposit(seen),
           UNCHANGED <<host, turn, wire, log, skipped, local, bound, dispatch>>
    PROVE  RowInv'
<1> USE DEF dispatch, clock, claim
<1>1. CASE seen = "accepted"
  <2>1. UNCHANGED <<receipt, conflict, timer, due, settled>>
    BY <1>1 DEF Deposit
  <2>2. \/ state \in {"queued", "delivering"} /\ state' = "accepted"
           /\ transport' = "acknowledged"
        \/ UNCHANGED <<state, transport>>
    BY <1>1 DEF Deposit, NoteAccepted, Acknowledge
  <2>3. CASE UNCHANGED <<state, transport>>
    BY <2>1, <2>3 DEF RowInv, RowType, EvidenceInv, SettledIsHosts,
      UnsentNeverRan, ConflictWarranted, Published, Replaced, Emitted
  <2>4. CASE state \in {"queued", "delivering"} /\ state' = "accepted"
             /\ transport' = "acknowledged"
    <3>1. settled = "no" /\ local = "no"
      BY <2>4 DEF RowInv, RowType, EvidenceInv, SettledIsHosts, Outcomes
    <3> QED
      BY <2>1, <2>4, <3>1 DEF RowInv, RowType, EvidenceInv, SettledIsHosts,
        UnsentNeverRan, ConflictWarranted, Published, Replaced, Emitted, Open,
        Outcomes, Transports
  <2> QED  BY <2>2, <2>3, <2>4
<1>2. CASE seen \in Receipts
  <2>1. seen # "accepted" /\ seen # "none" /\ Published(seen)
    BY <1>2 DEF Receipts, Outcomes
  <2>2. CASE receipt # "none" /\ receipt # seen
    <3>1. Replaced
      BY <2>1, <2>2 DEF RowInv, EvidenceInv, Published
    <3>2. Quarantine /\ UNCHANGED receipt
      BY <2>1, <2>2 DEF Deposit
    <3>3. bound' \in {0} \cup Terminals /\ (bound' # 0 => bound' <= log)
      BY DEF RowInv, RowType, EvidenceInv
    <3> QED  BY <3>1, <3>2, <3>3, QuarantineKeeps
  <2>3. CASE ~(receipt # "none" /\ receipt # seen)
    <3>1. receipt' = seen /\ transport' = "acknowledged"
          /\ UNCHANGED <<state, timer, due, settled, conflict>>
      BY <2>1, <2>3 DEF Deposit, Acknowledge
    <3>2. RowType'
      BY <1>2, <3>1 DEF RowInv, RowType, Transports
    <3>3. EvidenceInv'
      BY <2>1, <3>1 DEF RowInv, EvidenceInv, Published, Replaced, Emitted
    <3>4. settled # "no" => receipt = seen
      BY <2>3 DEF RowInv, SettledIsHosts, Outcomes
    <3> QED
      BY <3>1, <3>2, <3>3, <3>4 DEF RowInv, SettledIsHosts, UnsentNeverRan,
        ConflictWarranted, Replaced
  <2> QED  BY <2>2, <2>3
<1> QED  BY <1>1, <1>2

\* So do a new delay or claim and what becomes of the transport.
LEMMA ClockKeeps ==
    ASSUME RowInv, timer' \in Callers \cup {Nobody}, due' \in BOOLEAN,
           transport' \in Transports,
           UNCHANGED <<host, turn, wire, log, skipped, state, local, evidence,
                       conflict, dispatch>>
    PROVE  RowInv'
<1> USE DEF Published, Replaced, Emitted
<1>1. UNCHANGED <<state, attempts, budget, sends, receipt, bound, settled,
                  local, conflict>>
  BY DEF dispatch, evidence
<1>2. RowType'
  BY <1>1 DEF RowInv, RowType
<1> QED
  BY <1>1, <1>2 DEF RowInv, EvidenceInv, SettledIsHosts, UnsentNeverRan,
    ConflictWarranted

\* So does leaving the outcome of an attempt unknown.
LEMMA UnknownKeeps ==
    ASSUME RowInv, NEW n, NEW x, RecordUnknown(n, x),
           UNCHANGED <<host, turn, wire, log, skipped, local, evidence,
                       conflict, dispatch>>
    PROVE  RowInv'
<1> USE DEF Published, Replaced, Emitted
<1>1. UNCHANGED <<attempts, budget, sends, receipt, bound, settled, local,
                  conflict, host, turn, wire, log, skipped>>
  BY DEF dispatch, evidence
<1>2. CASE UNCHANGED <<state, transport, clock>>
  <2>1. UNCHANGED <<state, transport, timer, due>>
    BY <1>2 DEF clock
  <2>2. timer' \in Callers \cup {Nobody} /\ transport' \in Transports
    BY <2>1 DEF RowInv, RowType
  <2>3. due' \in BOOLEAN
    BY <2>1 DEF RowInv, RowType
  <2> QED  BY <2>1, <2>2, <2>3, ClockKeeps
<1>3. CASE state \in Open /\ attempts = n
  <2>1. state' \in {"queued", "accepted"} /\ timer' = Nobody /\ due' = FALSE
    BY <1>3 DEF RecordUnknown
  <2>2. transport' \in Transports
    BY <1>3 DEF RecordUnknown, RowInv, RowType, Transports
  <2>3. settled = "no" /\ local = "no"
    BY <1>3 DEF RowInv, RowType, EvidenceInv, SettledIsHosts, Open, Outcomes
  <2>4. RowType'
    BY <1>1, <2>1, <2>2 DEF RowInv, RowType, Open
  <2> QED
    BY <1>1, <2>1, <2>3, <2>4 DEF RowInv, EvidenceInv, SettledIsHosts,
      UnsentNeverRan, ConflictWarranted, Outcomes
<1> QED  BY <1>2, <1>3 DEF RecordUnknown

\* So does an acceptance, of an answer, a receipt or an event.
LEMMA AcceptedKeeps ==
    ASSUME RowInv, state \in {"queued", "delivering"}, state' = "accepted",
           transport' = "acknowledged", timer' \in Callers \cup {Nobody},
           due' \in BOOLEAN,
           UNCHANGED <<host, turn, wire, log, skipped, local, evidence,
                       conflict, dispatch>>
    PROVE  RowInv'
<1> USE DEF Published, Replaced, Emitted
<1>1. UNCHANGED <<attempts, budget, sends, receipt, bound, settled, local,
                  conflict, host, turn, wire, log, skipped>>
  BY DEF dispatch, evidence
<1>2. settled = "no" /\ local = "no"
  BY DEF RowInv, RowType, EvidenceInv, SettledIsHosts, Outcomes
<1>3. RowType'
  BY <1>1 DEF RowInv, RowType, Open, Transports
<1> QED
  BY <1>1, <1>2, <1>3 DEF RowInv, EvidenceInv, SettledIsHosts, UnsentNeverRan,
    ConflictWarranted, Outcomes

\* Every step keeps what is known of the row.
LEMMA RowStep ==
    ASSUME OutsideType, RowInv, WireInv, CallerInv,
           caller \in [Callers -> Work], [Next]_vars PROVE RowInv'
<1> USE PromptAssumption DEF application, bounds, claim, clock, dispatch,
        evidence, feed, outside, Published, Replaced, Emitted
<1>u. ASSUME UNCHANGED <<state, attempts, budget, sends, transport, timer,
              due, receipt, bound, settled, local, conflict, host, turn, wire,
              log, skipped>> PROVE RowInv'
  BY <1>u DEF RowInv, RowType, OutsideType, EvidenceInv, SettledIsHosts,
    UnsentNeverRan, ConflictWarranted, Outcomes, Open, Transports
<1>1. CASE UNCHANGED vars
  BY <1>1, <1>u DEF vars
<1>2. ASSUME NEW n \in wire, HostTakes(n) PROVE RowInv'
  BY <1>2 DEF HostTakes, Idle, RowInv, RowType, OutsideType, EvidenceInv,
    SettledIsHosts, UnsentNeverRan, ConflictWarranted, Outcomes, Open,
    Transports
<1>3. ASSUME NEW n \in wire, NEW why \in {"pressured", "reconcile"},
            HostRefuses(n, why) PROVE RowInv'
  BY <1>3 DEF HostRefuses, RowInv, RowType, OutsideType, EvidenceInv,
    SettledIsHosts, UnsentNeverRan, ConflictWarranted, Outcomes, Open,
    Transports
<1>4. ASSUME NEW c \in Callers, ReadRow(c) PROVE RowInv'
  BY <1>4, <1>u DEF ReadRow
<1>5. ASSUME NEW c \in Callers, Dispatch(c) PROVE RowInv'
  <2>1. CASE ~Claimable(c)
    <3>1. UNCHANGED <<state, local, attempts, budget, sends, transport, timer,
                      due, receipt, bound, settled, conflict, host, turn, wire,
                      log, skipped>>
      BY <1>5, <2>1 DEF Dispatch
    <3> QED  BY <3>1, <1>u
  <2>2. CASE Claimable(c)
    <3>1. state = "queued" /\ attempts = caller[c].try
      BY <2>2 DEF Claimable
    <3>2. state' = "delivering" /\ attempts' = attempts + 1
          /\ sends' = sends + 1 /\ transport' = "dispatching"
          /\ timer' = Nobody /\ due' = TRUE
          /\ UNCHANGED <<budget, receipt, bound, settled, local, conflict,
                         host, turn, log, skipped>>
      BY <1>5, <2>2, <3>1 DEF Dispatch, NoDelay
    <3>3. settled = "no" /\ local = "no"
      BY <3>1 DEF RowInv, RowType, EvidenceInv, SettledIsHosts, Outcomes
    <3>4. attempts' \in Nat /\ sends' \in Nat
      BY <3>2 DEF RowInv, RowType
    <3> QED
      BY <3>2, <3>3, <3>4 DEF RowInv, RowType, EvidenceInv, SettledIsHosts,
        UnsentNeverRan, ConflictWarranted, Open, Outcomes, Transports
  <2> QED  BY <2>1, <2>2
<1>6. ASSUME NEW c \in Callers, TimeOut(c) PROVE RowInv'
  BY <1>6, <1>u DEF TimeOut
<1>7. ASSUME NEW c \in Callers, Admitted(c) PROVE RowInv'
  <2>1. UNCHANGED <<host, turn, wire, log, skipped, local, evidence, conflict,
                    dispatch>>
    BY <1>7 DEF Admitted
  <2>2. CASE UNCHANGED <<state, transport, clock>>
    BY <1>7, <2>1, <2>2, <1>u DEF Admitted
  <2>3. CASE ~UNCHANGED <<state, transport, clock>>
    <3>1. state = "delivering" /\ state' = "accepted"
          /\ transport' = "acknowledged" /\ timer' = Nobody /\ due' = TRUE
      BY <1>7, <2>3 DEF Admitted, MarkAccepted, Acknowledge, NoDelay
    <3> QED  BY <2>1, <3>1, AcceptedKeeps
  <2> QED  BY <2>2, <2>3
<1>8. ASSUME NEW c \in Callers, FailUnsent(c) PROVE RowInv'
  <2>1. CASE ~(state \in Open /\ attempts = caller[c].try)
    <3>1. UNCHANGED <<state, local, attempts, budget, sends, transport, timer,
                      due, receipt, bound, settled, conflict, host, turn, wire,
                      log, skipped>>
      BY <1>8, <2>1 DEF FailUnsent, MarkFailed
    <3> QED  BY <3>1, <1>u
  <2>2. CASE state \in Open /\ attempts = caller[c].try
    <3>1. wire = {} /\ host = "none"
      BY <1>8, <2>2 DEF FailUnsent, Unsent, CallerInv, Sound
    <3>2. state' = "failed" /\ local' = "unsent"
          /\ UNCHANGED <<attempts, budget, sends, transport, timer, due,
                         receipt, bound, settled, conflict, host, turn, wire,
                         log, skipped>>
      BY <1>8, <2>2 DEF FailUnsent, MarkFailed
    <3>3. settled = "no" /\ local = "no"
      BY <2>2 DEF RowInv, RowType, EvidenceInv, SettledIsHosts, Open, Outcomes
    <3> QED
      BY <3>1, <3>2, <3>3 DEF RowInv, RowType, EvidenceInv, SettledIsHosts,
        UnsentNeverRan, ConflictWarranted, Outcomes
  <2> QED  BY <2>1, <2>2
<1>9. ASSUME NEW c \in Callers, LookUp(c) PROVE RowInv'
  BY <1>9, <1>u DEF LookUp
<1>10. ASSUME NEW c \in Callers, DepositLooked(c) PROVE RowInv'
  <2>1. Deposit(caller[c].seen)
        /\ UNCHANGED <<host, turn, wire, log, skipped, local, bound, dispatch>>
    BY <1>10 DEF DepositLooked
  <2>2. caller[c].seen \in {"accepted"} \cup Receipts
        /\ (caller[c].seen \in Receipts => Published(caller[c].seen))
    BY <1>10 DEF DepositLooked, SawReceipt, CallerInv, Sound
  <2> QED  BY <2>1, <2>2, DepositKeeps
<1>11. ASSUME NEW c \in Callers, AckLooked(c) PROVE RowInv'
  <2>1. UNCHANGED <<host, turn, wire, log, skipped, local, evidence, conflict,
                    dispatch>>
    BY <1>11 DEF AckLooked
  <2>2. CASE UNCHANGED <<state, transport, clock>>
    BY <1>11, <2>1, <2>2, <1>u DEF AckLooked
  <2>3. CASE ~UNCHANGED <<state, transport, clock>>
    <3>1. state = "delivering" /\ state' = "accepted"
          /\ transport' = "acknowledged" /\ timer' = Nobody /\ due' = TRUE
      BY <1>11, <2>3 DEF AckLooked, MarkAccepted, Acknowledge, NoDelay
    <3> QED  BY <2>1, <3>1, AcceptedKeeps
  <2> QED  BY <2>2, <2>3
<1>12. ASSUME NEW c \in Callers, StoreLooked(c) PROVE RowInv'
  <2>1. ReconcileStored /\ UNCHANGED <<host, turn, wire, log, skipped, local,
                                       dispatch>>
    BY <1>12 DEF StoreLooked
  <2> QED  BY <2>1, StoredKeeps
<1>13. ASSUME NEW c \in Callers, FailRefused(c) PROVE RowInv'
  BY <1>13 DEF FailRefused, MarkFailed, Leave, Becomes, Idle, RowInv, RowType,
    OutsideType, EvidenceInv, SettledIsHosts, UnsentNeverRan,
    ConflictWarranted, Outcomes, Open, Transports
<1>14. ASSUME NEW c \in Callers, Unknown(c) PROVE RowInv'
  <2>1. UNCHANGED <<host, turn, wire, log, skipped, local, evidence, conflict,
                    dispatch>>
    BY <1>14 DEF Unknown
  <2>2. RecordUnknown(caller[c].try, caller[c].try >= caller[c].max
                                      \/ caller[c].why # "retry")
    BY <1>14 DEF Unknown
  <2> QED  BY <2>1, <2>2, UnknownKeeps
<1>15. ASSUME NEW c \in Callers, LookStored(c) PROVE RowInv'
  <2>1. ReconcileStored /\ UNCHANGED <<host, turn, wire, log, skipped, local,
                                       dispatch>>
    BY <1>15 DEF LookStored
  <2> QED  BY <2>1, StoredKeeps
<1>16. ASSUME NEW c \in Callers, ClaimRead(c) PROVE RowInv'
  <2>1. UNCHANGED <<host, turn, wire, log, skipped, state, local, evidence,
                    conflict, dispatch, transport>>
    BY <1>16 DEF ClaimRead
  <2>2. (timer' = c /\ due' = FALSE) \/ UNCHANGED <<timer, due>>
    BY <1>16 DEF ClaimRead
  <2>3. timer' \in Callers \cup {Nobody} /\ transport' \in Transports
    BY <2>1, <2>2 DEF RowInv, RowType
  <2>4. due' \in BOOLEAN
    BY <2>2 DEF RowInv, RowType
  <2> QED  BY <2>1, <2>3, <2>4, ClockKeeps
<1>17. ASSUME NEW c \in Callers, ReadReceipt(c) PROVE RowInv'
  BY <1>17, <1>u DEF ReadReceipt
<1>18. ASSUME NEW c \in Callers, DepositRead(c) PROVE RowInv'
  <2>1. Deposit(caller[c].seen)
        /\ UNCHANGED <<host, turn, wire, log, skipped, local, bound, dispatch>>
    BY <1>18 DEF DepositRead
  <2>2. caller[c].seen \in {"accepted"} \cup Receipts
        /\ (caller[c].seen \in Receipts => Published(caller[c].seen))
    BY <1>18 DEF DepositRead, CallerInv, Sound
  <2> QED  BY <2>1, <2>2, DepositKeeps
<1>19. ASSUME NEW c \in Callers, OfferStored(c) PROVE RowInv'
  <2>1. ReconcileStored /\ UNCHANGED <<host, turn, wire, log, skipped, local,
                                       dispatch>>
    BY <1>19 DEF OfferStored
  <2> QED  BY <2>1, StoredKeeps
<1>20. ASSUME NEW c \in Callers, ReadSpan(c) PROVE RowInv'
  BY <1>20, <1>u DEF ReadSpan
<1>21. ASSUME NEW c \in Callers, SettleSpan(c) PROVE RowInv'
  <2>1. UNCHANGED <<host, turn, wire, log, skipped, local, receipt, bound,
                    dispatch>>
    BY <1>21 DEF SettleSpan
  <2>2. CASE settled # "no"
    <3>1. UNCHANGED <<state, transport, timer, due, settled, conflict>>
      BY <1>21, <2>2 DEF SettleSpan, NoEvidence
    <3> QED  BY <2>1, <3>1, <1>u
  <2>3. CASE settled = "no"
    <3>1. Reduce(receipt, 2, "host_span")
      BY <1>21, <2>3 DEF SettleSpan
    <3>2. bound' \in {0} \cup Terminals /\ (bound' # 0 => bound' <= log)
      BY <2>1 DEF RowInv, RowType, EvidenceInv
    <3>3. 2 \in Terminals /\ (2 # 2 => 2 <= log)
      BY DEF Terminals
    <3> QED  BY <2>1, <3>1, <3>2, <3>3, ReduceKeeps
  <2> QED  BY <2>2, <2>3
<1>22. ASSUME NEW c \in Callers, ReleaseRead(c) PROVE RowInv'
  <2>1. UNCHANGED <<host, turn, wire, log, skipped, state, local, evidence,
                    conflict, dispatch>>
    BY <1>22 DEF ReleaseRead
  <2>2. (timer' = Nobody /\ due' = FALSE) \/ UNCHANGED <<timer, due>>
    BY <1>22 DEF ReleaseRead
  <2>3. transport' = "reconciliation_required" \/ transport' = transport
    BY <1>22 DEF ReleaseRead
  <2>4. timer' \in Callers \cup {Nobody} /\ transport' \in Transports
    BY <2>2, <2>3 DEF RowInv, RowType, Transports
  <2>5. due' \in BOOLEAN
    BY <2>2 DEF RowInv, RowType
  <2> QED  BY <2>1, <2>4, <2>5, ClockKeeps
<1>23. ASSUME NEW c \in Callers, LastLook(c) PROVE RowInv'
  <2>1. ReconcileStored /\ UNCHANGED <<host, turn, wire, log, skipped, local,
                                       dispatch>>
    BY <1>23 DEF LastLook
  <2> QED  BY <2>1, StoredKeeps
<1>24. ASSUME NEW c \in Callers, PassLeavesUnknown(c) PROVE RowInv'
  <2>1. UNCHANGED <<host, turn, wire, log, skipped, local, evidence, conflict,
                    dispatch>>
    BY <1>24 DEF PassLeavesUnknown
  <2>2. RecordUnknown(caller[c].try, caller[c].try >= caller[c].max)
    BY <1>24 DEF PassLeavesUnknown
  <2> QED  BY <2>1, <2>2, UnknownKeeps
<1>25. ASSUME NEW c \in Callers, PassReplays(c) PROVE RowInv'
  BY <1>25 DEF PassReplays, Missing, Restart, Becomes, Idle, Leave, RowInv,
    RowType, OutsideType, EvidenceInv, SettledIsHosts, UnsentNeverRan,
    ConflictWarranted, Outcomes, Open, Transports
<1>26. ASSUME NEW c \in Callers, NotSent(c) PROVE RowInv'
  BY <1>26 DEF NotSent, Becomes, RowInv, RowType, OutsideType, EvidenceInv,
    SettledIsHosts, UnsentNeverRan, ConflictWarranted, Outcomes, Open,
    Transports
<1>27. ASSUME NEW c \in Callers, LookUpFails(c) PROVE RowInv'
  BY <1>27, <1>u DEF LookUpFails
<1>28. ASSUME NEW c \in Callers, ReadFails(c) PROVE RowInv'
  BY <1>28, <1>u DEF ReadFails
<1>29. ASSUME NEW a \in Appliers, ClaimOwner(a) PROVE RowInv'
  BY <1>29, <1>u DEF ClaimOwner
<1>30. ASSUME NEW a \in Appliers, PrepareOwner(a) PROVE RowInv'
  BY <1>30, <1>u DEF PrepareOwner
<1>31. ASSUME NEW a \in Appliers, CommitOwner(a) PROVE RowInv'
  BY <1>31, <1>u DEF CommitOwner
<1>32. ASSUME NEW a \in Appliers, LoseClaim(a) PROVE RowInv'
  BY <1>32, <1>u DEF LoseClaim
<1>33. ASSUME NEW a \in Appliers, ApplyFails(a) PROVE RowInv'
  BY <1>33, <1>u DEF ApplyFails
<1>34. ASSUME NEW a \in Appliers, Defer(a) PROVE RowInv'
  BY <1>34, <1>u DEF Defer
<1>35. CASE HostEnds
  BY <1>35 DEF HostEnds, RowInv, RowType, OutsideType, EvidenceInv,
    SettledIsHosts, UnsentNeverRan, ConflictWarranted, Outcomes, Receipts,
    Open, Transports
<1>36. CASE IngestEvent
  BY <1>36 DEF IngestEvent, Emitted, RowInv, RowType, OutsideType,
    EvidenceInv, SettledIsHosts, UnsentNeverRan, ConflictWarranted, Outcomes,
    Open, Transports
<1>37. CASE SkipEvent
  BY <1>37 DEF SkipEvent, Emitted, Fault, RowInv, RowType, OutsideType,
    EvidenceInv, SettledIsHosts, UnsentNeverRan, ConflictWarranted, Outcomes,
    Open, Transports
<1>38. CASE ProjectAccepted
  <2>1. UNCHANGED <<host, turn, wire, log, skipped, local, evidence, conflict,
                    dispatch, timer, due>>
    BY <1>38 DEF ProjectAccepted
  <2>2. timer' \in Callers \cup {Nobody}
    BY <2>1 DEF RowInv, RowType
  <2>3. due' \in BOOLEAN
    BY <2>1 DEF RowInv, RowType
  <2>4. CASE UNCHANGED <<state, transport>>
    BY <2>1, <2>4, <1>u
  <2>5. CASE ~UNCHANGED <<state, transport>>
    <3>1. state \in {"queued", "delivering"} /\ state' = "accepted"
          /\ transport' = "acknowledged"
      BY <1>38, <2>5 DEF ProjectAccepted, NoteAccepted, Acknowledge
    <3> QED  BY <2>1, <2>2, <2>3, <3>1, AcceptedKeeps
  <2> QED  BY <2>4, <2>5
<1>39. CASE PrepareTerminal
  <2>1. UNCHANGED <<host, turn, wire, log, skipped, local, bound, dispatch>>
        /\ Deposit(Seen)
    BY <1>39 DEF PrepareTerminal
  <2>2. log >= 2
    BY <1>39 DEF PrepareTerminal, NextTerminal, Stored, Terminals, OutsideType
  <2>3. host \in Outcomes
    BY <2>2 DEF RowInv, EvidenceInv, OutsideType
  <2>4. Seen \in Receipts /\ Published(Seen)
    BY <2>3 DEF Seen, Receipts, Outcomes
  <2> QED  BY <2>1, <2>4, DepositKeeps
<1>40. ASSUME NEW e \in Terminals, ProjectTerminal(e) PROVE RowInv'
  <2>1. UNCHANGED <<host, turn, wire, log, skipped, local, receipt, dispatch>>
    BY <1>40 DEF ProjectTerminal
  <2>2. BindAndReduce(e) /\ e <= log
    BY <1>40 DEF ProjectTerminal, NextTerminal, Stored
  <2> QED  BY <2>1, <2>2, BindKeeps
<1>41. CASE RearmAdmission
  BY <1>41 DEF RearmAdmission, Repair, NoDelay, RowInv, RowType, OutsideType,
    EvidenceInv, SettledIsHosts, UnsentNeverRan, ConflictWarranted, Outcomes,
    Open, Transports
<1>42. CASE RearmApplication
  BY <1>42, <1>u DEF RearmApplication
<1>43. CASE HandOff
  BY <1>43, <1>u DEF HandOff
<1>44. CASE TimePasses
  BY <1>44 DEF TimePasses, Reading, RowInv, RowType, OutsideType, EvidenceInv,
    SettledIsHosts, UnsentNeverRan, ConflictWarranted, Outcomes, Open,
    Transports
<1>45. CASE PauseReader
  BY <1>45 DEF PauseReader, Fault, Reading, RowInv, RowType, OutsideType,
    EvidenceInv, SettledIsHosts, UnsentNeverRan, ConflictWarranted, Outcomes,
    Open, Transports
<1>46. CASE ExpireLease
  BY <1>46, <1>u DEF ExpireLease
<1>47. CASE Crash
  BY <1>47, <1>u DEF Crash
<1>48. CASE HostLoses
  BY <1>48 DEF HostLoses, RowInv, RowType, OutsideType, EvidenceInv,
    SettledIsHosts, UnsentNeverRan, ConflictWarranted, Outcomes, Receipts,
    Open, Transports
<1>49. CASE HostReplaces
  BY <1>49 DEF HostReplaces, RowInv, RowType, OutsideType, EvidenceInv,
    SettledIsHosts, UnsentNeverRan, ConflictWarranted, Outcomes, Receipts,
    Open, Transports
<1> QED  BY <1>1, <1>2, <1>3, <1>4, <1>5, <1>6, <1>7, <1>8, <1>9, <1>10,
        <1>11, <1>12, <1>13, <1>14, <1>15, <1>16, <1>17, <1>18, <1>19, <1>20,
        <1>21, <1>22, <1>23, <1>24, <1>25, <1>26, <1>27, <1>28, <1>29, <1>30,
        <1>31, <1>32, <1>33, <1>34, <1>35, <1>36, <1>37, <1>38, <1>39, <1>40,
        <1>41, <1>42, <1>43, <1>44, <1>45, <1>46, <1>47, <1>48, <1>49 DEF Next,
        Start, Reconcile, Apply, Project

\* Sound, of any work and any state of the host, the row and the wire.
SoundFor(w, h, t, b, n, r) ==
    /\ w.seen \in Receipts =>
          w.seen = h \/ (w.seen = "replaced" /\ t \in Outcomes)
    /\ w.at = "depositing" => w.seen \in {"accepted"} \cup Receipts
    /\ w.at = "claim" => w.try < b
    /\ w.at \in {"claim", "sent", "failed"} => w.try <= n
    /\ w.at = "claim" /\ w.fresh => w.try = 0
    /\ w.at = "sent" /\ w.fresh => w.try = 1
    /\ w.at = "failed" /\ w.why = "not_sent" /\ w.fresh /\ w.try = n =>
          r = {} /\ h = "none"

\* What a caller believes stays true while the host moves on, the budget and
\* the attempts grow, and nothing is sent without a new attempt.
LEMMA SoundGrows ==
    ASSUME NEW w \in Work, NEW h, NEW h2, NEW t, NEW t2, NEW b \in Nat,
           NEW b2 \in Nat, NEW n \in Nat, NEW n2 \in Nat, NEW r, NEW r2,
           SoundFor(w, h, t, b, n, r), h # "replaced",
           h \in Outcomes => h2 = h, t \in Outcomes => t2 \in Outcomes,
           b <= b2, n <= n2,
           n = n2 /\ r = {} /\ h = "none" => r2 = {} /\ h2 = "none"
    PROVE  SoundFor(w, h2, t2, b2, n2, r2)
<1>1. w.try \in Nat
  BY DEF Work
<1>2. w.seen \in Receipts =>
        w.seen = h2 \/ (w.seen = "replaced" /\ t2 \in Outcomes)
  BY DEF SoundFor, Receipts
<1>3. w.at = "depositing" => w.seen \in {"accepted"} \cup Receipts
  BY DEF SoundFor
<1>4. w.at = "claim" => w.try < b2
  BY <1>1 DEF SoundFor
<1>5. w.at \in {"claim", "sent", "failed"} => w.try <= n2
  BY <1>1 DEF SoundFor
<1>6. /\ w.at = "claim" /\ w.fresh => w.try = 0
      /\ w.at = "sent" /\ w.fresh => w.try = 1
  BY DEF SoundFor
<1>7. w.at = "failed" /\ w.why = "not_sent" /\ w.fresh /\ w.try = n2 =>
          r2 = {} /\ h2 = "none"
  <2>1. SUFFICES ASSUME w.at = "failed", w.why = "not_sent", w.fresh,
                        w.try = n2
                 PROVE  r2 = {} /\ h2 = "none"
    OBVIOUS
  <2>2. w.try <= n
    BY <2>1 DEF SoundFor
  <2>3. n = n2
    BY <2>1, <2>2
  <2> QED  BY <2>1, <2>3 DEF SoundFor
<1> QED  BY <1>2, <1>3, <1>4, <1>5, <1>6, <1>7 DEF SoundFor

\* The callers' part, and what leaves it alone.
CallersInv == caller \in [Callers -> Work] /\ CallerInv
Quiet == UNCHANGED <<host, turn, wire, attempts, budget>>

\* While the host and the row are quiet, a caller that takes up sound work
\* keeps the callers sound.
LEMMA BecomesKeeps ==
    ASSUME CallersInv, Quiet, NEW c \in Callers, NEW w \in Work,
           SoundFor(w, host, turn, budget, attempts, wire), Becomes(c, w)
    PROVE  CallersInv'
<1>1. caller' \in [Callers -> Work]
  BY DEF CallersInv, Becomes
<1>2. ASSUME NEW d \in Callers PROVE Sound(caller[d])'
  <2>1. caller'[d] = IF d = c THEN w ELSE caller[d]
    BY DEF CallersInv, Becomes
  <2>2. SoundFor(caller'[d], host', turn', budget', attempts', wire')
    BY <2>1 DEF Quiet, CallersInv, CallerInv, Sound, SoundFor,
      Published, Replaced
  <2> QED  BY <2>2 DEF Sound, SoundFor, Published, Replaced
<1> QED  BY <1>1, <1>2 DEF CallersInv, CallerInv

\* The places a caller goes to with nothing but the receipt it saw.
LEMMA GoKeeps ==
    ASSUME CallersInv, Quiet, NEW c \in Callers,
           NEW p \in Places \ {"depositing", "claim", "sent", "failed"},
           Go(c, p)
    PROVE  CallersInv'
<1> DEFINE w == [Idle EXCEPT !.at = p, !.seen = caller[c].seen]
<1>1. caller[c] \in Work /\ Sound(caller[c])
  BY DEF CallersInv, CallerInv
<1>2. w \in Work /\ w.at = p /\ w.seen = caller[c].seen
  BY <1>1 DEF Idle, Work
<1>3. SoundFor(w, host, turn, budget, attempts, wire)
  BY <1>1, <1>2 DEF Sound, SoundFor, Published, Replaced
<1>4. Becomes(c, w)
  BY DEF Go
<1> QED  BY <1>2, <1>3, <1>4, BecomesKeeps

\* A caller that is done believes nothing.
LEMMA LeaveKeeps ==
    ASSUME CallersInv, Quiet, NEW c \in Callers, Leave(c) PROVE CallersInv'
<1>1. Idle \in Work /\ Idle.at = "idle" /\ Idle.seen = "none"
  BY DEF Idle, Work, Places
<1>2. SoundFor(Idle, host, turn, budget, attempts, wire)
  BY <1>1 DEF SoundFor, Receipts, Outcomes
<1> QED  BY <1>1, <1>2, BecomesKeeps DEF Leave

\* Nor does one that starts over.
LEMMA RestartKeeps ==
    ASSUME CallersInv, Quiet, NEW c \in Callers, Restart(c) PROVE CallersInv'
<1> DEFINE w == [Idle EXCEPT !.at = "start"]
<1>1. w \in Work /\ w.at = "start" /\ w.seen = "none"
  BY DEF Idle, Work, Places, Dispatching
<1>2. SoundFor(w, host, turn, budget, attempts, wire)
  BY <1>1 DEF SoundFor, Receipts, Outcomes
<1> QED  BY <1>1, <1>2, BecomesKeeps DEF Restart

\* Every step keeps what the callers believe true.
LEMMA CallerStep ==
    ASSUME OutsideType, RowType, EvidenceInv, WireInv, CallersInv,
           [Next]_vars PROVE CallersInv'
<1> USE PromptAssumption DEF application, bounds, claim, clock, dispatch,
        evidence, feed, outside
<1>u. ASSUME UNCHANGED <<caller, host, turn, wire, attempts, budget>> PROVE
              CallersInv'
  BY <1>u DEF CallersInv, CallerInv, Sound, Published, Replaced
<1>s. /\ Seen \in {"missing", "accepted"} \cup Receipts
      /\ host # "none" => Seen \in {"accepted"} \cup Receipts
      /\ Seen \in Receipts =>
           Seen = host \/ (Seen = "replaced" /\ turn \in Outcomes)
  BY DEF Seen, Replaced, OutsideType, Receipts, Outcomes
<1>n. attempts \in Nat /\ budget \in Nat /\ attempts <= attempts
      /\ budget <= budget
  BY DEF RowType
<1>k. ASSUME UNCHANGED <<caller, attempts>>, budget' \in Nat,
             budget <= budget', host \in Outcomes => host' = host,
             turn \in Outcomes => turn' \in Outcomes,
             wire = {} /\ host = "none" => wire' = {} /\ host' = "none"
      PROVE  CallersInv'
  <2>1. ASSUME NEW c \in Callers
        PROVE  SoundFor(caller'[c], host', turn', budget', attempts', wire')
    <3>1. caller[c] \in Work /\ SoundFor(caller[c], host, turn, budget,
      attempts, wire)
      BY DEF CallersInv, CallerInv, Sound, SoundFor,
      Published, Replaced
    <3>2. attempts \in Nat /\ budget \in Nat /\ attempts <= attempts'
      BY <1>k DEF RowType
    <3>4. host # "replaced"
      BY DEF OutsideType, Outcomes
    <3>3. SoundFor(caller[c], host', turn', budget', attempts', wire')
      BY <1>k, <3>1, <3>2, <3>4, SoundGrows
    <3> QED  BY <1>k, <3>3
  <2> QED  BY <1>k, <2>1 DEF CallersInv, CallerInv, Sound, SoundFor,
      Published, Replaced
<1>g. ASSUME NEW c \in Callers, budget' = budget, attempts' \in Nat,
             attempts <= attempts', host \in Outcomes => host' = host,
             turn \in Outcomes => turn' \in Outcomes,
             attempts = attempts' => wire # {}
      PROVE  SoundFor(caller[c], host', turn', budget', attempts', wire')
  <2>1. caller[c] \in Work /\ SoundFor(caller[c], host, turn, budget,
    attempts, wire)
    BY DEF CallersInv, CallerInv, Sound, SoundFor,
      Published, Replaced
  <2>2. attempts \in Nat /\ budget \in Nat
    BY DEF RowType
  <2>3. host # "replaced"
    BY DEF OutsideType, Outcomes
  <2> QED  BY <1>g, <2>1, <2>2, <2>3, SoundGrows
<1>1. CASE UNCHANGED vars
  BY <1>1, <1>u DEF vars
<1>2. ASSUME NEW n \in wire, HostTakes(n) PROVE CallersInv'
  <2>1. /\ wire # {} /\ (host \in Outcomes => host' = host)
        /\ UNCHANGED <<turn, attempts, budget>>
    BY <1>2 DEF HostTakes, Outcomes
  <2>2. CASE UNCHANGED caller
    BY <2>1, <2>2, <1>n, <1>k
  <2>3. CASE caller' = [c \in Callers |->
               IF caller[c].at = "sent" /\ caller[c].try = n
               THEN [Idle EXCEPT !.at = "admitted", !.try = n] ELSE caller[c]]
    <3> DEFINE w == [Idle EXCEPT !.at = "admitted", !.try = n]
    <3>1. w \in Work /\ w.at = "admitted" /\ w.seen = "none"
      BY DEF Idle, Work, Places, Dispatching, OutsideType
    <3>2. SoundFor(w, host', turn', budget', attempts', wire')
      BY <3>1 DEF SoundFor, Receipts, Outcomes
    <3>3. \A c \in Callers : caller'[c] \in {caller[c], w}
      BY <2>3
    <3> HIDE DEF w
    <3>4. caller' \in [Callers -> Work]
      BY <2>3, <3>1 DEF CallersInv, w
    <3>5. \A c \in Callers :
            SoundFor(caller'[c], host', turn', budget', attempts', wire')
      BY <2>1, <3>2, <3>3, <1>n, <1>g
    <3> QED  BY <3>4, <3>5 DEF CallersInv, CallerInv, Sound, SoundFor,
      Published, Replaced
  <2> QED  BY <1>2, <2>2, <2>3 DEF HostTakes
<1>3. ASSUME NEW n \in wire, NEW why \in {"pressured", "reconcile"},
            HostRefuses(n, why) PROVE CallersInv'
  <2>1. /\ wire # {} /\ UNCHANGED <<host, turn, attempts, budget>>
    BY <1>3 DEF HostRefuses
  <2>2. caller' = [c \in Callers |->
               IF caller[c].at = "sent" /\ caller[c].try = n
               THEN [caller[c] EXCEPT !.at = "failed", !.why = why]
               ELSE caller[c]]
    BY <1>3 DEF HostRefuses
  <2>3. ASSUME NEW c \in Callers
        PROVE  /\ caller'[c] \in Work
               /\ SoundFor(caller'[c], host', turn', budget', attempts', wire')
    <3>1. CASE caller[c].at = "sent" /\ caller[c].try = n
      <4> DEFINE w == [caller[c] EXCEPT !.at = "failed", !.why = why]
      <4>1. caller[c] \in Work /\ Sound(caller[c])
        BY DEF CallersInv, CallerInv
      <4>2. w \in Work /\ w.at = "failed" /\ w.why # "not_sent"
            /\ w.seen = caller[c].seen /\ w.try = caller[c].try
        BY <4>1 DEF Work, Places, Dispatching
      <4>3. SoundFor(w, host', turn', budget', attempts', wire')
        BY <2>1, <3>1, <4>1, <4>2 DEF Sound, SoundFor, Published, Replaced
      <4>4. caller'[c] = w
        BY <2>2, <3>1
      <4> QED  BY <4>2, <4>3, <4>4
    <3>2. CASE ~(caller[c].at = "sent" /\ caller[c].try = n)
      <4>1. caller'[c] = caller[c]
        BY <2>2, <3>2
      <4> QED  BY <2>1, <4>1, <1>n, <1>g DEF CallersInv
    <3> QED  BY <3>1, <3>2
  <2>4. caller' \in [Callers -> Work]
    BY <2>2, <2>3
  <2> QED  BY <2>3, <2>4 DEF CallersInv, CallerInv, Sound, SoundFor,
      Published, Replaced
<1>4. ASSUME NEW c \in Callers, ReadRow(c) PROVE CallersInv'
  <2>0. Quiet
    BY <1>4 DEF ReadRow, Quiet
  <2>1. CASE ~Dispatchable
    BY <1>4, <2>0, <2>1, LeaveKeeps DEF ReadRow
  <2>2. CASE Dispatchable
    <3> DEFINE w == [Idle EXCEPT !.at = "claim", !.try = attempts,
                         !.max = budget,
                         !.fresh = (attempts = 0 /\ transport = "not_sent")]
    <3>1. Becomes(c, w)
      BY <1>4, <2>2 DEF ReadRow
    <3>2. attempts \in Nat /\ budget \in Nat /\ attempts < budget
      BY <2>2 DEF Dispatchable, RowType
    <3>3. w \in Work /\ w.at = "claim" /\ w.try = attempts /\ w.seen = "none"
      BY <3>2 DEF Idle, Work, Places, Dispatching
    <3>4. w.fresh => attempts = 0
      BY DEF Idle
    <3>5. SoundFor(w, host, turn, budget, attempts, wire)
      BY <3>2, <3>3, <3>4 DEF SoundFor, Receipts, Outcomes
    <3> QED  BY <2>0, <3>1, <3>3, <3>5, BecomesKeeps
  <2> QED  BY <2>1, <2>2
<1>5. ASSUME NEW c \in Callers, Dispatch(c) PROVE CallersInv'
  <2>s. caller[c] \in Work /\ Sound(caller[c])
    BY DEF CallersInv, CallerInv
  <2>c. CASE ~Claimable(c)
    <3>1. Leave(c) /\ Quiet
      BY <1>5, <2>c DEF Dispatch, Quiet
    <3> QED  BY <3>1, LeaveKeeps
  <2>d. CASE Claimable(c)
    <3> DEFINE w == [caller[c] EXCEPT !.at = "sent", !.try = caller[c].try + 1]
    <3>1. caller' = [caller EXCEPT ![c] = w]
      BY <1>5, <2>d DEF Dispatch, Becomes
    <3>2. /\ caller[c].at = "claim" /\ caller[c].try = attempts
          /\ attempts' = attempts + 1
          /\ UNCHANGED <<host, turn, budget>>
      BY <1>5, <2>d DEF Dispatch, Claimable
    <3>3. attempts \in Nat /\ attempts' \in Nat /\ attempts < attempts'
      BY <3>2 DEF RowType
    <3>4. w \in Work /\ w.at = "sent" /\ w.seen = caller[c].seen
          /\ w.try = attempts + 1 /\ w.fresh = caller[c].fresh
      BY <2>s, <3>2, <3>3 DEF Work, Places, Dispatching
    <3>5. SoundFor(w, host', turn', budget', attempts', wire')
      BY <2>s, <3>2, <3>3, <3>4 DEF Sound, SoundFor, Published, Replaced
    <3>6. ASSUME NEW d \in Callers
          PROVE  SoundFor(caller'[d], host', turn', budget', attempts', wire')
      <4>1. CASE d = c
        BY <3>1, <3>5, <4>1 DEF CallersInv
      <4>2. CASE d # c
        <5>1. caller'[d] = caller[d]
          BY <3>1, <4>2 DEF CallersInv
        <5> QED  BY <3>2, <3>3, <5>1, <1>n, <1>g
      <4> QED  BY <4>1, <4>2
    <3>7. caller' \in [Callers -> Work]
      BY <3>1, <3>4 DEF CallersInv
    <3> QED  BY <3>6, <3>7 DEF CallersInv, CallerInv, Sound, SoundFor,
      Published, Replaced
  <2> QED  BY <2>c, <2>d
<1>6. ASSUME NEW c \in Callers, TimeOut(c) PROVE CallersInv'
  <2>0. Quiet
    BY <1>6 DEF TimeOut, Quiet
  <2>s. caller[c] \in Work /\ Sound(caller[c])
    BY DEF CallersInv, CallerInv
  <2> DEFINE w == [caller[c] EXCEPT !.at = "failed", !.why = "retry"]
  <2>1. Becomes(c, w) /\ caller[c].at = "sent"
    BY <1>6 DEF TimeOut
  <2>2. w \in Work /\ w.at = "failed" /\ w.why = "retry"
        /\ w.seen = caller[c].seen /\ w.try = caller[c].try
    BY <2>s DEF Work, Places, Dispatching
  <2>3. SoundFor(w, host, turn, budget, attempts, wire)
    BY <2>s, <2>1, <2>2 DEF Sound, SoundFor, Published, Replaced
  <2> QED  BY <2>0, <2>1, <2>2, <2>3, BecomesKeeps
<1>7. ASSUME NEW c \in Callers, Admitted(c) PROVE CallersInv'
  <2>0. Quiet
    BY <1>7 DEF Admitted, Quiet
  <2>1. Leave(c)
    BY <1>7 DEF Admitted
  <2> QED  BY <2>0, <2>1, LeaveKeeps
<1>8. ASSUME NEW c \in Callers, FailUnsent(c) PROVE CallersInv'
  <2>0. Quiet
    BY <1>8 DEF FailUnsent, Quiet
  <2>1. Leave(c)
    BY <1>8 DEF FailUnsent
  <2> QED  BY <2>0, <2>1, LeaveKeeps
<1>9. ASSUME NEW c \in Callers, LookUp(c) PROVE CallersInv'
  <2>0. Quiet
    BY <1>9 DEF LookUp, Quiet
  <2>s. caller[c] \in Work /\ Sound(caller[c])
    BY DEF CallersInv, CallerInv
  <2> DEFINE w == [caller[c] EXCEPT !.at = "looked", !.seen = Seen]
             v == [caller[c] EXCEPT !.at = "looked", !.why = "reconcile",
                                    !.seen = "unreachable"]
  <2>1. Becomes(c, w) \/ Becomes(c, v)
    BY <1>9 DEF LookUp
  <2>3. w \in Work /\ w.at = "looked" /\ w.seen = Seen
    BY <2>s, <1>s DEF Work, Places, Dispatching
  <2>4. SoundFor(w, host, turn, budget, attempts, wire)
    BY <1>s, <2>3 DEF SoundFor
  <2>5. v \in Work /\ v.at = "looked" /\ v.seen = "unreachable"
    BY <2>s DEF Work, Places, Dispatching
  <2>6. SoundFor(v, host, turn, budget, attempts, wire)
    BY <2>5 DEF SoundFor, Receipts, Outcomes
  <2> QED  BY <2>0, <2>1, <2>3, <2>4, <2>5, <2>6, BecomesKeeps
<1>10. ASSUME NEW c \in Callers, DepositLooked(c) PROVE CallersInv'
  <2>0. Quiet
    BY <1>10 DEF DepositLooked, Quiet
  <2>s. caller[c] \in Work /\ Sound(caller[c])
    BY DEF CallersInv, CallerInv
  <2>1. CASE conflict' /\ ~conflict
    BY <1>10, <2>0, <2>1, LeaveKeeps DEF DepositLooked
  <2>2. CASE ~(conflict' /\ ~conflict)
    <3> DEFINE w == [Idle EXCEPT !.at = "acking", !.try = caller[c].try]
    <3>1. Becomes(c, w)
      BY <1>10, <2>2 DEF DepositLooked
    <3>2. w \in Work /\ w.at = "acking" /\ w.seen = "none"
      BY <2>s DEF Idle, Work, Places, Dispatching
    <3>3. SoundFor(w, host, turn, budget, attempts, wire)
      BY <3>2 DEF SoundFor, Receipts, Outcomes
    <3> QED  BY <2>0, <3>1, <3>2, <3>3, BecomesKeeps
  <2> QED  BY <2>1, <2>2
<1>11. ASSUME NEW c \in Callers, AckLooked(c) PROVE CallersInv'
  <2>0. Quiet
    BY <1>11 DEF AckLooked, Quiet
  <2>1. Go(c, "storing")
    BY <1>11 DEF AckLooked
  <2> QED  BY <2>0, <2>1, GoKeeps DEF Places, Dispatching, Reading
<1>12. ASSUME NEW c \in Callers, StoreLooked(c) PROVE CallersInv'
  <2>0. Quiet
    BY <1>12 DEF StoreLooked, Quiet
  <2>1. Leave(c)
    BY <1>12 DEF StoreLooked
  <2> QED  BY <2>0, <2>1, LeaveKeeps
<1>13. ASSUME NEW c \in Callers, FailRefused(c) PROVE CallersInv'
  <2>0. Quiet
    BY <1>13 DEF FailRefused, Quiet
  <2>1. Leave(c)
    BY <1>13 DEF FailRefused
  <2> QED  BY <2>0, <2>1, LeaveKeeps
<1>14. ASSUME NEW c \in Callers, Unknown(c) PROVE CallersInv'
  <2>0. Quiet
    BY <1>14 DEF Unknown, Quiet
  <2>1. Restart(c) \/ Leave(c)
    BY <1>14 DEF Unknown
  <2> QED  BY <2>0, <2>1, LeaveKeeps, RestartKeeps
<1>15. ASSUME NEW c \in Callers, LookStored(c) PROVE CallersInv'
  <2>0. Quiet
    BY <1>15 DEF LookStored, Quiet
  <2>1. Go(c, "waiting") \/ UNCHANGED caller
    BY <1>15 DEF LookStored
  <2>2. CASE UNCHANGED caller
    BY <2>0, <2>2, <1>u DEF Quiet
  <2>3. CASE Go(c, "waiting")
    BY <2>0, <2>3, GoKeeps DEF Places
  <2> QED  BY <2>1, <2>2, <2>3
<1>16. ASSUME NEW c \in Callers, ClaimRead(c) PROVE CallersInv'
  <2>0. Quiet
    BY <1>16 DEF ClaimRead, Quiet
  <2>1. \/ Leave(c) \/ Go(c, "last") \/ Go(c, "reading")
        \/ Go(c, "spanning")
    BY <1>16 DEF ClaimRead
  <2> QED
    BY <2>0, <2>1, LeaveKeeps, GoKeeps DEF Places, Reading
<1>17. ASSUME NEW c \in Callers, ReadReceipt(c) PROVE CallersInv'
  <2>0. Quiet
    BY <1>17 DEF ReadReceipt, Quiet
  <2> DEFINE w == [Idle EXCEPT !.seen = Seen,
                      !.at = IF host = "none" THEN "release" ELSE "depositing"]
  <2>1. Becomes(c, w) \/ Leave(c)
    BY <1>17 DEF ReadReceipt
  <2>2. w \in Work /\ w.at \in {"release", "depositing"} /\ w.seen = Seen
    BY <1>s DEF Idle, Work, Places, Reading
  <2>3. w.at = "depositing" => Seen \in {"accepted"} \cup Receipts
    BY <1>s DEF Idle
  <2>4. SoundFor(w, host, turn, budget, attempts, wire)
    BY <1>s, <2>2, <2>3 DEF SoundFor
  <2> QED  BY <2>0, <2>1, <2>2, <2>4, BecomesKeeps, LeaveKeeps
<1>18. ASSUME NEW c \in Callers, DepositRead(c) PROVE CallersInv'
  <2>0. Quiet
    BY <1>18 DEF DepositRead, Quiet
  <2> DEFINE w == [Idle EXCEPT !.at = "offering", !.seen = "present"]
  <2>1. Leave(c) \/ Becomes(c, w)
    BY <1>18 DEF DepositRead
  <2>2. w \in Work /\ w.at = "offering" /\ w.seen = "present"
    BY DEF Idle, Work, Places, Reading
  <2>3. SoundFor(w, host, turn, budget, attempts, wire)
    BY <2>2 DEF SoundFor, Receipts, Outcomes
  <2> QED  BY <2>0, <2>1, <2>2, <2>3, BecomesKeeps, LeaveKeeps
<1>19. ASSUME NEW c \in Callers, OfferStored(c) PROVE CallersInv'
  <2>0. Quiet
    BY <1>19 DEF OfferStored, Quiet
  <2>1. Go(c, "spanning") \/ Go(c, "release")
    BY <1>19 DEF OfferStored
  <2> QED  BY <2>0, <2>1, GoKeeps DEF Places, Reading
<1>20. ASSUME NEW c \in Callers, ReadSpan(c) PROVE CallersInv'
  <2>0. Quiet
    BY <1>20 DEF ReadSpan, Quiet
  <2>1. Go(c, "verified") \/ Go(c, "release")
    BY <1>20 DEF ReadSpan
  <2> QED  BY <2>0, <2>1, GoKeeps DEF Places, Reading
<1>21. ASSUME NEW c \in Callers, SettleSpan(c) PROVE CallersInv'
  <2>0. Quiet
    BY <1>21 DEF SettleSpan, Quiet
  <2>1. Go(c, "release")
    BY <1>21 DEF SettleSpan
  <2> QED  BY <2>0, <2>1, GoKeeps DEF Places, Dispatching, Reading
<1>22. ASSUME NEW c \in Callers, ReleaseRead(c) PROVE CallersInv'
  <2>0. Quiet
    BY <1>22 DEF ReleaseRead, Quiet
  <2>1. Go(c, "last")
    BY <1>22 DEF ReleaseRead
  <2> QED  BY <2>0, <2>1, GoKeeps DEF Places, Dispatching, Reading
<1>23. ASSUME NEW c \in Callers, LastLook(c) PROVE CallersInv'
  <2>0. Quiet
    BY <1>23 DEF LastLook, Quiet
  <2>s. caller[c] \in Work /\ Sound(caller[c])
    BY DEF CallersInv, CallerInv
  <2> DEFINE w == [caller[c] EXCEPT !.at = "judging", !.try = attempts,
                      !.max = budget, !.fresh = (state' = "delivering"),
                      !.why = IF transport' = "reconciliation_required"
                              THEN "reconcile" ELSE "none"]
  <2>1. Leave(c) \/ Becomes(c, w)
    BY <1>23 DEF LastLook
  <2>2. attempts \in Nat /\ budget \in Nat
    BY DEF RowType
  <2>3. w \in Work /\ w.at = "judging" /\ w.seen = caller[c].seen
    BY <2>s, <2>2 DEF Work, Places
  <2>4. SoundFor(w, host, turn, budget, attempts, wire)
    BY <2>s, <2>3 DEF Sound, SoundFor, Published, Replaced
  <2> QED  BY <2>0, <2>1, <2>3, <2>4, LeaveKeeps, BecomesKeeps
<1>24. ASSUME NEW c \in Callers, PassLeavesUnknown(c) PROVE CallersInv'
  <2>0. Quiet
    BY <1>24 DEF PassLeavesUnknown, Quiet
  <2>1. Leave(c)
    BY <1>24 DEF PassLeavesUnknown
  <2> QED  BY <2>0, <2>1, LeaveKeeps
<1>25. ASSUME NEW c \in Callers, PassReplays(c) PROVE CallersInv'
  <2>0. Quiet
    BY <1>25 DEF PassReplays, Quiet
  <2>1. Restart(c) \/ Leave(c)
    BY <1>25 DEF PassReplays
  <2> QED  BY <2>0, <2>1, LeaveKeeps, RestartKeeps
<1>26. ASSUME NEW c \in Callers, NotSent(c) PROVE CallersInv'
  <2>s. caller[c] \in Work /\ Sound(caller[c])
    BY DEF CallersInv, CallerInv
  <2> DEFINE w == [caller[c] EXCEPT !.at = "failed", !.why = "not_sent"]
  <2>1. caller' = [caller EXCEPT ![c] = w]
    BY <1>26 DEF NotSent, Becomes
  <2>2. /\ caller[c].at = "sent" /\ caller[c].try \in wire
        /\ wire' = wire \ {caller[c].try}
        /\ UNCHANGED <<host, turn, attempts, budget>>
    BY <1>26 DEF NotSent
  <2>3. wire # {}
    BY <2>2
  <2>4. w \in Work /\ w.at = "failed" /\ w.seen = caller[c].seen
        /\ w.try = caller[c].try /\ w.fresh = caller[c].fresh
    BY <2>s DEF Work, Places, Dispatching
  <2>5. SoundFor(w, host', turn', budget', attempts', wire')
    <3>1. w.try <= attempts
      BY <2>s, <2>2, <2>4 DEF Sound
    <3>2. ASSUME w.fresh, w.try = attempts PROVE wire' = {} /\ host' = "none"
      <4>1. caller[c].try = 1 /\ attempts = 1
        BY <2>s, <2>2, <2>4, <3>2 DEF Sound
      <4>2. wire \subseteq {1}
        BY <4>1 DEF WireInv
      <4>3. host = "none"
        BY <2>2, <4>1 DEF WireInv
      <4> QED  BY <2>2, <4>1, <4>2, <4>3
    <3> QED
      BY <2>s, <2>2, <2>4, <3>1, <3>2 DEF Sound, SoundFor, Published, Replaced
  <2>6. ASSUME NEW d \in Callers
        PROVE  SoundFor(caller'[d], host', turn', budget', attempts', wire')
    <3>1. CASE d = c
      BY <2>1, <2>5, <3>1 DEF CallersInv
    <3>2. CASE d # c
      <4>1. caller'[d] = caller[d]
        BY <2>1, <3>2 DEF CallersInv
      <4> QED  BY <2>2, <2>3, <4>1, <1>n, <1>g
    <3> QED  BY <3>1, <3>2
  <2>7. caller' \in [Callers -> Work]
    BY <2>1, <2>4 DEF CallersInv
  <2> QED  BY <2>6, <2>7 DEF CallersInv, CallerInv, Sound, SoundFor,
      Published, Replaced
<1>27. ASSUME NEW c \in Callers, LookUpFails(c) PROVE CallersInv'
  <2>0. Quiet
    BY <1>27 DEF LookUpFails, Quiet
  <2>s. caller[c] \in Work /\ Sound(caller[c])
    BY DEF CallersInv, CallerInv
  <2>1. PICK why \in {caller[c].why, "reconcile"} :
          Becomes(c, [caller[c] EXCEPT !.at = "looked", !.why = why,
                                       !.seen = "unreachable"])
    BY <1>27 DEF LookUpFails
  <2> DEFINE w == [caller[c] EXCEPT !.at = "looked", !.why = why,
                                    !.seen = "unreachable"]
  <2>2. w \in Work /\ w.at = "looked" /\ w.seen = "unreachable"
    BY <2>s DEF Work, Places, Dispatching
  <2>3. SoundFor(w, host, turn, budget, attempts, wire)
    BY <2>2 DEF SoundFor, Receipts, Outcomes
  <2> QED  BY <2>0, <2>1, <2>2, <2>3, BecomesKeeps
<1>28. ASSUME NEW c \in Callers, ReadFails(c) PROVE CallersInv'
  <2>0. Quiet
    BY <1>28 DEF ReadFails, Quiet
  <2> DEFINE w == [Idle EXCEPT !.at = "release", !.seen = "unreachable"]
  <2>1. Becomes(c, w) \/ Leave(c)
    BY <1>28 DEF ReadFails
  <2>2. w \in Work /\ w.at = "release" /\ w.seen = "unreachable"
    BY DEF Idle, Work, Places, Reading
  <2>3. SoundFor(w, host, turn, budget, attempts, wire)
    BY <2>2 DEF SoundFor, Receipts, Outcomes
  <2> QED  BY <2>0, <2>1, <2>2, <2>3, BecomesKeeps, LeaveKeeps
<1>29. ASSUME NEW a \in Appliers, ClaimOwner(a) PROVE CallersInv'
  BY <1>29, <1>u DEF ClaimOwner
<1>30. ASSUME NEW a \in Appliers, PrepareOwner(a) PROVE CallersInv'
  BY <1>30, <1>u DEF PrepareOwner
<1>31. ASSUME NEW a \in Appliers, CommitOwner(a) PROVE CallersInv'
  BY <1>31, <1>u DEF CommitOwner
<1>32. ASSUME NEW a \in Appliers, LoseClaim(a) PROVE CallersInv'
  BY <1>32, <1>u DEF LoseClaim
<1>33. ASSUME NEW a \in Appliers, ApplyFails(a) PROVE CallersInv'
  BY <1>33, <1>u DEF ApplyFails
<1>34. ASSUME NEW a \in Appliers, Defer(a) PROVE CallersInv'
  BY <1>34, <1>u DEF Defer
<1>35. CASE HostEnds
  <2>1. /\ host = "accepted" /\ host' \in Outcomes
        /\ UNCHANGED <<turn, caller, wire, attempts, budget>>
    BY <1>35 DEF HostEnds, Outcomes
  <2>2. budget' = budget /\ (host \in Outcomes => host' = host)
    BY <2>1 DEF Outcomes
  <2> QED  BY <2>1, <2>2, <1>n, <1>k
<1>36. CASE IngestEvent
  BY <1>36, <1>u DEF IngestEvent
<1>37. CASE SkipEvent
  BY <1>37, <1>u DEF SkipEvent
<1>38. CASE ProjectAccepted
  BY <1>38, <1>u DEF ProjectAccepted
<1>39. CASE PrepareTerminal
  BY <1>39, <1>u DEF PrepareTerminal
<1>40. ASSUME NEW e \in Terminals, ProjectTerminal(e) PROVE CallersInv'
  BY <1>40, <1>u DEF ProjectTerminal
<1>41. CASE RearmAdmission
  <2>1. /\ budget' = budget + ExtraAttempts
        /\ UNCHANGED <<caller, host, turn, wire, attempts>>
    BY <1>41 DEF RearmAdmission
  <2>2. budget' \in Nat /\ budget <= budget'
    BY <2>1 DEF RowType
  <2> QED  BY <2>1, <2>2, <1>k
<1>42. CASE RearmApplication
  BY <1>42, <1>u DEF RearmApplication
<1>43. CASE HandOff
  BY <1>43, <1>u DEF HandOff
<1>44. CASE TimePasses
  BY <1>44, <1>u DEF TimePasses
<1>45. CASE PauseReader
  BY <1>45, <1>u DEF PauseReader
<1>46. CASE ExpireLease
  BY <1>46, <1>u DEF ExpireLease
<1>47. CASE Crash
  <2>1. caller' = [c \in Callers |-> Idle]
        /\ UNCHANGED <<host, turn, wire, attempts, budget>>
    BY <1>47 DEF Crash
  <2>2. Idle \in Work /\ Idle.at = "idle" /\ Idle.seen = "none"
    BY DEF Idle, Work, Places
  <2> QED  BY <2>1, <2>2 DEF CallersInv, CallerInv, Sound, Receipts, Outcomes
<1>48. CASE HostLoses
  <2>1. /\ host = "accepted" /\ host' = "failed"
        /\ UNCHANGED <<caller, wire, attempts, budget>>
    BY <1>48 DEF HostLoses
  <2>2. budget' = budget /\ (host \in Outcomes => host' = host)
        /\ turn \notin Outcomes
    BY <2>1 DEF EvidenceInv, Outcomes
  <2> QED  BY <2>1, <2>2, <1>n, <1>k
<1>49. CASE HostReplaces
  <2>1. /\ turn' \in Outcomes
        /\ UNCHANGED <<host, caller, wire, attempts, budget>>
    BY <1>49 DEF HostReplaces
  <2> QED  BY <2>1, <1>n, <1>k
<1> QED  BY <1>1, <1>2, <1>3, <1>4, <1>5, <1>6, <1>7, <1>8, <1>9, <1>10,
        <1>11, <1>12, <1>13, <1>14, <1>15, <1>16, <1>17, <1>18, <1>19, <1>20,
        <1>21, <1>22, <1>23, <1>24, <1>25, <1>26, <1>27, <1>28, <1>29, <1>30,
        <1>31, <1>32, <1>33, <1>34, <1>35, <1>36, <1>37, <1>38, <1>39, <1>40,
        <1>41, <1>42, <1>43, <1>44, <1>45, <1>46, <1>47, <1>48, <1>49 DEF Next,
        Start, Reconcile, Apply, Project

\* The action of VerdictStands.
VerdictKept ==
    /\ state \in Outcomes => state' = state /\ local' = local
    /\ settled # "no" => settled' = settled
    /\ app = "applied" => app' = app

\* No step changes a conclusion.
LEMMA VerdictStep ==
    ASSUME RowInv, CallerInv, [Next]_vars PROVE VerdictKept
<1> USE PromptAssumption DEF application, bounds, claim, clock, dispatch,
        evidence, feed, outside
<1>u. ASSUME UNCHANGED <<state, local, settled, app>> PROVE VerdictKept
  BY <1>u DEF VerdictKept, RowInv, RowType, EvidenceInv, SettledIsHosts,
    UnsentNeverRan, Outcomes, Open
<1>1. CASE UNCHANGED vars
  BY <1>1, <1>u DEF vars
<1>2. ASSUME NEW n \in wire, HostTakes(n) PROVE VerdictKept
  BY <1>2, <1>u DEF HostTakes
<1>3. ASSUME NEW n \in wire, NEW why \in {"pressured", "reconcile"},
            HostRefuses(n, why) PROVE VerdictKept
  BY <1>3, <1>u DEF HostRefuses
<1>4. ASSUME NEW c \in Callers, ReadRow(c) PROVE VerdictKept
  BY <1>4, <1>u DEF ReadRow
<1>5. ASSUME NEW c \in Callers, Dispatch(c) PROVE VerdictKept
  BY <1>5 DEF Dispatch, Claimable, NoDelay, Becomes, Leave, Idle, VerdictKept,
    RowInv, RowType, EvidenceInv, SettledIsHosts, UnsentNeverRan, Outcomes,
    Open
<1>6. ASSUME NEW c \in Callers, TimeOut(c) PROVE VerdictKept
  BY <1>6, <1>u DEF TimeOut
<1>7. ASSUME NEW c \in Callers, Admitted(c) PROVE VerdictKept
  BY <1>7 DEF Admitted, MarkAccepted, Acknowledge, NoDelay, Leave, Becomes,
    Idle, VerdictKept, RowInv, RowType, EvidenceInv, SettledIsHosts,
    UnsentNeverRan, Outcomes, Open
<1>8. ASSUME NEW c \in Callers, FailUnsent(c) PROVE VerdictKept
  BY <1>8 DEF FailUnsent, Unsent, MarkFailed, Leave, Becomes, Idle,
    VerdictKept, RowInv, RowType, EvidenceInv, SettledIsHosts, UnsentNeverRan,
    Outcomes, Open
<1>9. ASSUME NEW c \in Callers, LookUp(c) PROVE VerdictKept
  BY <1>9, <1>u DEF LookUp
<1>10. ASSUME NEW c \in Callers, DepositLooked(c) PROVE VerdictKept
  BY <1>10 DEF DepositLooked, SawReceipt, Deposit, NoteAccepted, Acknowledge,
    Quarantine, Leave, Becomes, Idle, VerdictKept, RowInv, RowType,
    EvidenceInv, SettledIsHosts, UnsentNeverRan, Outcomes, Open
<1>11. ASSUME NEW c \in Callers, AckLooked(c) PROVE VerdictKept
  BY <1>11 DEF AckLooked, MarkAccepted, Acknowledge, NoDelay, Go, Becomes,
    Idle, VerdictKept, RowInv, RowType, EvidenceInv, SettledIsHosts,
    UnsentNeverRan, Outcomes, Open
<1>12. ASSUME NEW c \in Callers, StoreLooked(c) PROVE VerdictKept
  BY <1>12 DEF StoreLooked, ReconcileStored, NoEvidence, Candidate, Stored,
    BindAndReduce, Reduce,
    Disagrees, Quarantine, Acknowledge, NoDelay, SkippedTerminal, Leave,
    Becomes, Idle, VerdictKept, RowInv, RowType, EvidenceInv, SettledIsHosts,
    UnsentNeverRan, Outcomes, Open
<1>13. ASSUME NEW c \in Callers, FailRefused(c) PROVE VerdictKept
  BY <1>13 DEF FailRefused, MarkFailed, Leave, Becomes, Idle, VerdictKept,
    RowInv, RowType, EvidenceInv, SettledIsHosts, UnsentNeverRan, Outcomes,
    Open
<1>14. ASSUME NEW c \in Callers, Unknown(c) PROVE VerdictKept
  BY <1>14 DEF Unknown, SawReceipt, RecordUnknown, Restart, Becomes, Idle,
    Leave, VerdictKept, RowInv, RowType, EvidenceInv, SettledIsHosts,
    UnsentNeverRan, Outcomes, Open
<1>15. ASSUME NEW c \in Callers, LookStored(c) PROVE VerdictKept
  BY <1>15 DEF LookStored, ReconcileStored, NoEvidence, Candidate, Stored,
    BindAndReduce, Reduce,
    Disagrees, Quarantine, Acknowledge, NoDelay, SkippedTerminal, Go, Becomes,
    Idle, VerdictKept, RowInv, RowType, EvidenceInv, SettledIsHosts,
    UnsentNeverRan, Outcomes, Open
<1>16. ASSUME NEW c \in Callers, ClaimRead(c) PROVE VerdictKept
  BY <1>16, <1>u DEF ClaimRead
<1>17. ASSUME NEW c \in Callers, ReadReceipt(c) PROVE VerdictKept
  BY <1>17, <1>u DEF ReadReceipt
<1>18. ASSUME NEW c \in Callers, DepositRead(c) PROVE VerdictKept
  BY <1>18 DEF DepositRead, Deposit, NoteAccepted, Acknowledge, Quarantine,
    Leave, Becomes, Idle, Go, VerdictKept, RowInv, RowType, EvidenceInv,
    SettledIsHosts, UnsentNeverRan, Outcomes, Open
<1>19. ASSUME NEW c \in Callers, OfferStored(c) PROVE VerdictKept
  BY <1>19 DEF OfferStored, ReconcileStored, NoEvidence, Candidate, Stored,
    BindAndReduce, Reduce,
    Disagrees, Quarantine, Acknowledge, NoDelay, SkippedTerminal, Go, Becomes,
    Idle, VerdictKept, RowInv, RowType, EvidenceInv, SettledIsHosts,
    UnsentNeverRan, Outcomes, Open
<1>20. ASSUME NEW c \in Callers, ReadSpan(c) PROVE VerdictKept
  BY <1>20, <1>u DEF ReadSpan
<1>21. ASSUME NEW c \in Callers, SettleSpan(c) PROVE VerdictKept
  BY <1>21 DEF SettleSpan, NoEvidence, Reduce, Disagrees, Quarantine,
    Acknowledge, NoDelay, Go, Becomes, Idle, VerdictKept, RowInv, RowType,
    EvidenceInv, SettledIsHosts, UnsentNeverRan, Outcomes, Open
<1>22. ASSUME NEW c \in Callers, ReleaseRead(c) PROVE VerdictKept
  BY <1>22, <1>u DEF ReleaseRead
<1>23. ASSUME NEW c \in Callers, LastLook(c) PROVE VerdictKept
  BY <1>23 DEF LastLook, ReconcileStored, NoEvidence, Candidate, Stored,
    BindAndReduce, Reduce,
    Disagrees, Quarantine, Acknowledge, NoDelay, SkippedTerminal, Becomes,
    Leave, Idle, VerdictKept, RowInv, RowType, EvidenceInv, SettledIsHosts,
    UnsentNeverRan, Outcomes, Open
<1>24. ASSUME NEW c \in Callers, PassLeavesUnknown(c) PROVE VerdictKept
  BY <1>24 DEF PassLeavesUnknown, Missing, RecordUnknown, Leave, Becomes,
    Idle, VerdictKept, RowInv, RowType, EvidenceInv, SettledIsHosts,
    UnsentNeverRan, Outcomes, Open
<1>25. ASSUME NEW c \in Callers, PassReplays(c) PROVE VerdictKept
  BY <1>25 DEF PassReplays, Missing, Restart, Becomes, Idle, Leave,
    VerdictKept, RowInv, RowType, EvidenceInv, SettledIsHosts, UnsentNeverRan,
    Outcomes, Open
<1>26. ASSUME NEW c \in Callers, NotSent(c) PROVE VerdictKept
  BY <1>26, <1>u DEF NotSent
<1>27. ASSUME NEW c \in Callers, LookUpFails(c) PROVE VerdictKept
  BY <1>27, <1>u DEF LookUpFails
<1>28. ASSUME NEW c \in Callers, ReadFails(c) PROVE VerdictKept
  BY <1>28, <1>u DEF ReadFails
<1>29. ASSUME NEW a \in Appliers, ClaimOwner(a) PROVE VerdictKept
  BY <1>29 DEF ClaimOwner, Applicable, VerdictKept, RowInv, RowType,
    EvidenceInv, SettledIsHosts, UnsentNeverRan, Outcomes, Open
<1>30. ASSUME NEW a \in Appliers, PrepareOwner(a) PROVE VerdictKept
  BY <1>30, <1>u DEF PrepareOwner
<1>31. ASSUME NEW a \in Appliers, CommitOwner(a) PROVE VerdictKept
  BY <1>31 DEF CommitOwner, Holds, Owned, Free, VerdictKept, RowInv, RowType,
    EvidenceInv, SettledIsHosts, UnsentNeverRan, Outcomes, Open
<1>32. ASSUME NEW a \in Appliers, LoseClaim(a) PROVE VerdictKept
  BY <1>32 DEF LoseClaim, Holds, Owned, GiveBack, Free, VerdictKept, RowInv,
    RowType, EvidenceInv, SettledIsHosts, UnsentNeverRan, Outcomes, Open
<1>33. ASSUME NEW a \in Appliers, ApplyFails(a) PROVE VerdictKept
  BY <1>33 DEF ApplyFails, Free, Holds, Owned, VerdictKept, RowInv, RowType,
    EvidenceInv, SettledIsHosts, UnsentNeverRan, Outcomes, Open
<1>34. ASSUME NEW a \in Appliers, Defer(a) PROVE VerdictKept
  BY <1>34 DEF Defer, Fault, GiveBack, Owned, Holds, Free, VerdictKept,
    RowInv, RowType, EvidenceInv, SettledIsHosts, UnsentNeverRan, Outcomes,
    Open
<1>35. CASE HostEnds
  BY <1>35, <1>u DEF HostEnds
<1>36. CASE IngestEvent
  BY <1>36, <1>u DEF IngestEvent
<1>37. CASE SkipEvent
  BY <1>37, <1>u DEF SkipEvent
<1>38. CASE ProjectAccepted
  BY <1>38 DEF ProjectAccepted, NoteAccepted, Acknowledge, VerdictKept,
    RowInv, RowType, EvidenceInv, SettledIsHosts, UnsentNeverRan, Outcomes,
    Open
<1>39. CASE PrepareTerminal
  BY <1>39 DEF PrepareTerminal, Deposit, NoteAccepted, Acknowledge,
    Quarantine, VerdictKept, RowInv, RowType, EvidenceInv, SettledIsHosts,
    UnsentNeverRan, Outcomes, Open
<1>40. ASSUME NEW e \in Terminals, ProjectTerminal(e) PROVE VerdictKept
  BY <1>40 DEF ProjectTerminal, BindAndReduce, Reduce, NoEvidence, Disagrees,
    Quarantine, Acknowledge, NoDelay, VerdictKept, RowInv, RowType,
    EvidenceInv, SettledIsHosts, UnsentNeverRan, Outcomes, Open
<1>41. CASE RearmAdmission
  BY <1>41, <1>u DEF RearmAdmission
<1>42. CASE RearmApplication
  BY <1>42 DEF RearmApplication, Repair, Applicable, VerdictKept, RowInv,
    RowType, EvidenceInv, SettledIsHosts, UnsentNeverRan, Outcomes, Open
<1>43. CASE HandOff
  BY <1>43 DEF HandOff, Repair, Applicable, VerdictKept, RowInv, RowType,
    EvidenceInv, SettledIsHosts, UnsentNeverRan, Outcomes, Open
<1>44. CASE TimePasses
  BY <1>44, <1>u DEF TimePasses
<1>45. CASE PauseReader
  BY <1>45, <1>u DEF PauseReader
<1>46. CASE ExpireLease
  BY <1>46, <1>u DEF ExpireLease
<1>47. CASE Crash
  BY <1>47, <1>u DEF Crash
<1>48. CASE HostLoses
  BY <1>48, <1>u DEF HostLoses
<1>49. CASE HostReplaces
  BY <1>49, <1>u DEF HostReplaces
<1> QED  BY <1>1, <1>2, <1>3, <1>4, <1>5, <1>6, <1>7, <1>8, <1>9, <1>10,
        <1>11, <1>12, <1>13, <1>14, <1>15, <1>16, <1>17, <1>18, <1>19, <1>20,
        <1>21, <1>22, <1>23, <1>24, <1>25, <1>26, <1>27, <1>28, <1>29, <1>30,
        <1>31, <1>32, <1>33, <1>34, <1>35, <1>36, <1>37, <1>38, <1>39, <1>40,
        <1>41, <1>42, <1>43, <1>44, <1>45, <1>46, <1>47, <1>48, <1>49 DEF Next,
        Start, Reconcile, Apply, Project

\* The prompt as it was issued.
LEMMA InitInv == Init => PromptInv
<1> SUFFICES ASSUME Init PROVE PromptInv
  OBVIOUS
<1> USE PromptAssumption
<1>1. /\ host = "none" /\ wire = {} /\ attempts = 0 /\ budget = MaxAttempts
      /\ sends = 0 /\ repairs = 0
  BY DEF Init
<1>2. OutsideType /\ WireInv
  <2>1. signals \in BOOLEAN /\ log = 0 /\ cursor = 0 /\ skipped = {}
        /\ faults = 0 /\ turn = "own"
    BY DEF Init
  <2>4. host \in {"none", "accepted"} \cup Outcomes /\ wire \subseteq Nat
    BY <1>1
  <2>5. log \in 0..3 /\ cursor \in 0..3 /\ faults \in Nat /\ repairs \in Nat
    BY <1>1, <2>1
  <2>6. skipped \subseteq Terminals /\ turn \in {"own", "lost"} \cup Outcomes
    BY <2>1
  <2>2. OutsideType
    BY <2>1, <2>4, <2>5, <2>6, Zenon DEF OutsideType
  <2>3. WireInv
    BY <1>1 DEF WireInv
  <2> QED  BY <2>2, <2>3
<1>3. RowType /\ EvidenceInv /\ SettledIsHosts /\ UnsentNeverRan
      /\ ConflictWarranted
  <2>1. /\ state = "queued" /\ transport = "not_sent" /\ timer = Nobody
        /\ due = TRUE /\ receipt = "none" /\ bound = 0 /\ settled = "no"
        /\ local = "no" /\ conflict = FALSE /\ log = 0
        /\ turn = "own"
    BY DEF Init
  <2>2. RowType
    BY <1>1, <2>1 DEF RowType, Open, Transports
  <2>3. EvidenceInv
    BY <1>1, <2>1 DEF EvidenceInv, Outcomes, Emitted
  <2> QED
    BY <2>1, <2>2, <2>3 DEF SettledIsHosts, UnsentNeverRan, ConflictWarranted
<1>4. ApplicationType /\ AppliedOnce
  <2>1. /\ app = "pending" /\ owner = Nobody /\ leased = FALSE
        /\ failures = 0 /\ applied = 0 /\ applier = [a \in Appliers |-> Free]
    BY DEF Init
  <2>2. ApplicationType
    BY <2>1 DEF ApplicationType, Free
  <2>3. AppliedOnce
    BY <2>1 DEF AppliedOnce
  <2> QED  BY <2>2, <2>3
<1>5. SentPerAttempt
  <2>1. repairs * ExtraAttempts = 0
    BY <1>1
  <2> QED  BY <1>1, <2>1 DEF SentPerAttempt
<1>6. CallersInv
  <2> DEFINE s == [Idle EXCEPT !.at = "start"]
  <2>1. Idle \in Work /\ Idle.at = "idle" /\ Idle.seen = "none"
    BY DEF Idle, Work, Places
  <2>2. s \in Work /\ s.at = "start" /\ s.seen = "none"
    BY DEF Idle, Work, Places, Dispatching
  <2>3. caller = [c \in Callers |-> IF c = Client THEN s ELSE Idle]
    BY DEF Init
  <2>4. \A c \in Callers : caller[c] \in {s, Idle}
    BY <2>3
  <2>5. \A c \in Callers : Sound(caller[c])
    BY <2>1, <2>2, <2>4 DEF Sound, Receipts, Outcomes
  <2> QED  BY <2>1, <2>2, <2>3, <2>5 DEF CallersInv, CallerInv
<1> QED
  BY <1>2, <1>3, <1>4, <1>5, <1>6 DEF PromptInv, TypeOK, CallersInv

\* The prompt is sent, settled and applied as PromptInv says, for every number
\* of callers, readers and appliers and every bound: drivers, passes and the
\* projector of web/lib/execution-host together.
THEOREM PromptInvariant == Spec => []PromptInv
<1>1. PromptInv /\ [Next]_vars => PromptInv'
  <2> SUFFICES ASSUME PromptInv, [Next]_vars PROVE PromptInv'
    OBVIOUS
  <2>1. /\ OutsideType /\ RowType /\ ApplicationType
        /\ caller \in [Callers -> Work]
        /\ WireInv /\ CallerInv /\ AppliedOnce /\ SentPerAttempt
        /\ RowInv /\ CallersInv /\ EvidenceInv
    BY DEF PromptInv, TypeOK, RowInv, CallersInv
  <2>2. DispatchInv'
    BY <2>1, OutsideStep
  <2>3. AppInv'
    BY <2>1, ApplicationStep
  <2>4. RowInv'
    BY <2>1, RowStep
  <2>5. CallersInv'
    BY <2>1, CallerStep
  <2> QED
    BY <2>2, <2>3, <2>4, <2>5 DEF PromptInv, TypeOK, DispatchInv, AppInv,
      RowInv, CallersInv
<1> QED  BY InitInv, <1>1, PTL DEF Spec

\* Whatever feed settles the prompt, its verdict is the one the host published
\* first, and a receipt that replaced it later does not undo it
\* (reducePromptEvidence, prompt-evidence.ts).
THEOREM SettlementIsTheHosts == Spec => []SettledIsHosts
<1>1. PromptInv => SettledIsHosts
  BY DEF PromptInv
<1> QED  BY PromptInvariant, <1>1, PTL

\* A prompt that was failed as never sent is unknown to the host for good
\* (startAsyncPrompt, deliverer.ts).
THEOREM UnsentIsUnknown == Spec => []UnsentNeverRan
<1>1. PromptInv => UnsentNeverRan
  BY DEF PromptInv
<1> QED  BY PromptInvariant, <1>1, PTL

\* One application of the outcome, whoever lost the lease
\* (commitPreparedOwner, prompt-owner-application.ts).
THEOREM AppliedAtMostOnce == Spec => []AppliedOnce
<1>1. PromptInv => AppliedOnce
  BY DEF PromptInv
<1> QED  BY PromptInvariant, <1>1, PTL

\* One dispatch per attempt, within the budget (casTransition, commands.ts).
THEOREM DispatchPerAttempt == Spec => []SentPerAttempt
<1>1. PromptInv => SentPerAttempt
  BY DEF PromptInv
<1> QED  BY PromptInvariant, <1>1, PTL

\* Nothing but a skipped event, a refusal the host overtook or a receipt the
\* host replaced makes the evidence of a prompt disagree (quarantine,
\* prompt-evidence.ts).
THEOREM ConflictHasCause == Spec => []ConflictWarranted
<1>1. PromptInv => ConflictWarranted
  BY DEF PromptInv
<1> QED  BY PromptInvariant, <1>1, PTL

\* A closed row, its settlement and an applied outcome are never changed
\* again: no feed, pass, driver or repair reopens them.
THEOREM VerdictIsFinal == Spec => VerdictStands
<1>1. PromptInv /\ [Next]_vars => [VerdictKept]_vars
  BY VerdictStep DEF PromptInv, TypeOK, RowInv
<1>2. [][VerdictKept]_vars => VerdictStands
  BY PTL DEF VerdictStands, VerdictKept
<1> QED  BY PromptInvariant, <1>1, <1>2, PTL DEF Spec

=============================================================================
