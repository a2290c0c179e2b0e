------------------------ MODULE CommandLedger_proofs ------------------------
(***************************************************************************)
(* What the command ledger guarantees for any number of commands, any      *)
(* budget and any number of crashes and restarts: a steer's message is     *)
(* settled with its row and once, a success is the host's, a closed row    *)
(* stays closed, and the delivery budget is exceeded only by crashes.      *)
(***************************************************************************)
EXTENDS CommandLedger, TLAPS

USE LedgerAssumption DEF Classes

\* Every step keeps every variable in its type.
LEMMA TypeStep ==
    ASSUME TypeOK, [Next]_vars
    PROVE  TypeOK'
<1> USE DEF TypeOK, Snapshot, Receipts, OpenStates, TerminalStates, vars, ledger, delivery, recovery, network, bounds
<1>1. ASSUME NEW c \in Cmd, Drive(c) PROVE TypeOK'
  <2>1. CASE Issue(c)  BY <2>1 DEF Issue
  <2>2. CASE Deliver(c)  BY <2>2 DEF Deliver, Claim, Claimable
  <2>3. CASE NotClaimable(c)  BY <2>3 DEF NotClaimable
  <2>4. CASE Acknowledge(c)  BY <2>4 DEF Acknowledge, CloseIf, Close, Bind
  <2>5. CASE Rejected(c)  BY <2>5 DEF Rejected, CloseIf, Close
  <2>6. CASE Refused(c)  BY <2>6 DEF Refused, CloseIf, Close
  <2>7. CASE Unknown(c)  BY <2>7 DEF Unknown, CloseIf, Close, Exhausted
  <2>8. CASE FenceLocally(c)  BY <2>8 DEF FenceLocally, CloseIf, Close
  <2>9. CASE Deferred(c)  BY <2>9 DEF Deferred
  <2> QED  BY <1>1, <2>1, <2>2, <2>3, <2>4, <2>5, <2>6, <2>7, <2>8, <2>9 DEF Drive
<1>2. ASSUME NEW c \in Cmd, Recover(c) PROVE TypeOK'
  <2>1. CASE TooFresh(c)  BY <2>1 DEF TooFresh, Free, Done
  <2>2. CASE Orphan(c)  BY <2>2 DEF Orphan, Free, Done, Aged, AttemptedSteer, CloseIf, Close
  <2>3. CASE Redeliver(c)
    <3>1. page[c].attempts \in Nat  BY <2>3 DEF Redeliver, Free
    <3>2. CASE Claimable(c, page[c].attempts)
      BY <2>3, <3>1, <3>2 DEF Redeliver, Claim
    <3>3. CASE ~Claimable(c, page[c].attempts)
      BY <2>3, <3>3 DEF Redeliver, Done
    <3> QED  BY <3>2, <3>3
  <2>4. CASE ReclaimSteer(c)  BY <2>4 DEF ReclaimSteer, Free, Done, Aged, AttemptedSteer, Claimable
  <2>5. CASE TakeDelivering(c)  BY <2>5 DEF TakeDelivering, Free, Aged
  <2>6. CASE LookupFails(c)  BY <2>6 DEF LookupFails, Leave, Done
  <2>7. CASE LookupMisses(c)  BY <2>7 DEF LookupMisses, Leave, Done
  <2>8. CASE LookupFinds(c)  BY <2>8 DEF LookupFinds
  <2>9. CASE RedeliverRequeued(c)  BY <2>9 DEF RedeliverRequeued, Leave, Done, Claim, Claimable
  <2>10. CASE OrphanRequeued(c)  BY <2>10 DEF OrphanRequeued, Leave, Done, CloseIf, Close
  <2>11. CASE FoldCompleted(c)  BY <2>11 DEF FoldCompleted, Leave, Done, CloseIf, Close, Bind
  <2>12. CASE FoldRejected(c)  BY <2>12 DEF FoldRejected, Leave, Done, CloseIf, Close
  <2>13. CASE FoldInFlight(c)  BY <2>13 DEF FoldInFlight, Leave, Done
  <2>14. CASE RedeliveryEnds(c)  BY <2>14 DEF RedeliveryEnds, Leave, Done
  <2> QED
    BY <1>2, <2>1, <2>2, <2>3, <2>4, <2>5, <2>6, <2>7, <2>8, <2>9, <2>10, <2>11, <2>12, <2>13, <2>14
    DEF Recover, TakeUp, Settle
<1>3. ASSUME NEW c \in Cmd, HostStep(c) PROVE TypeOK'
  <2>1. ASSUME NEW n \in wire[c], HostRefuses(c, n) PROVE TypeOK'
    BY <2>1 DEF HostRefuses
  <2>2. ASSUME NEW n \in wire[c], HostAdmits(c, n) PROVE TypeOK'
    BY <2>2 DEF HostAdmits
  <2>3. CASE HostEnds(c)  BY <2>3 DEF HostEnds
  <2>4. CASE HostSettlesCreate(c)  BY <2>4 DEF HostSettlesCreate
  <2> QED  BY <1>3, <2>1, <2>2, <2>3, <2>4 DEF HostStep
<1>4. CASE PassStarts
  <2>1. page' \in [Cmd -> Snapshot \cup {NoRow}]
    <3>1. ASSUME NEW c \in Cmd
          PROVE  (IF Open(c) THEN [state |-> row[c], attempts |-> attempts[c]]
                  ELSE NoRow) \in Snapshot \cup {NoRow}
      BY DEF Open
    <3>2. page' = [c \in Cmd |-> IF Open(c)
                                 THEN [state |-> row[c], attempts |-> attempts[c]]
                                 ELSE NoRow]
      BY <1>4 DEF PassStarts
    <3> HIDE DEF Snapshot
    <3> QED  BY <3>1, <3>2
  <2>2. pass' \in BOOLEAN  BY <1>4 DEF PassStarts
  <2> QED  BY <1>4, <2>1, <2>2 DEF PassStarts
<1>5. CASE PassEnds  BY <1>5 DEF PassEnds
<1>6. CASE HostRestarts  BY <1>6 DEF HostRestarts
<1>7. CASE ManagerCrash
  <2>1. crashes' \in 0 .. MaxCrashes  BY <1>7 DEF ManagerCrash
  <2>2. page' \in [Cmd -> Snapshot \cup {NoRow}]  BY <1>7 DEF ManagerCrash
  <2>3. pass' \in BOOLEAN  BY <1>7 DEF ManagerCrash
  <2> QED  BY <1>7, <2>1, <2>2, <2>3 DEF ManagerCrash
<1>8. CASE UNCHANGED vars  BY <1>8
<1> QED  BY <1>1, <1>2, <1>3, <1>4, <1>5, <1>6, <1>7, <1>8 DEF Next

\* Every write that closes a steer's row settles its message, and no other does.
LEMMA MessageStep ==
    ASSUME TypeOK, MessageFollowsLedger, [Next]_vars
    PROVE  MessageFollowsLedger'
<1> USE DEF TypeOK, MessageFollowsLedger, Open, OpenStates, TerminalStates, vars, ledger, delivery, recovery, network, bounds
<1>1. ASSUME NEW c \in Cmd, Drive(c) PROVE MessageFollowsLedger'
  <2>1. CASE Issue(c)  BY <2>1 DEF Issue
  <2>2. CASE Deliver(c)  BY <2>2 DEF Deliver, Claim, Claimable
  <2>3. CASE NotClaimable(c)  BY <2>3 DEF NotClaimable
  <2>4. CASE Acknowledge(c)  BY <2>4 DEF Acknowledge, CloseIf, Close
  <2>5. CASE Rejected(c)  BY <2>5 DEF Rejected, CloseIf, Close
  <2>6. CASE Refused(c)  BY <2>6 DEF Refused, CloseIf, Close
  <2>7. CASE Unknown(c)  BY <2>7 DEF Unknown, CloseIf, Close
  <2>8. CASE FenceLocally(c)  BY <2>8 DEF FenceLocally, CloseIf, Close
  <2>9. CASE Deferred(c)  BY <2>9 DEF Deferred
  <2> QED  BY <1>1, <2>1, <2>2, <2>3, <2>4, <2>5, <2>6, <2>7, <2>8, <2>9 DEF Drive
<1>2. ASSUME NEW c \in Cmd, Recover(c) PROVE MessageFollowsLedger'
  <2>1. CASE TooFresh(c)  BY <2>1 DEF TooFresh
  <2>2. CASE Orphan(c)  BY <2>2 DEF Orphan, CloseIf, Close
  <2>3. CASE Redeliver(c)  BY <2>3 DEF Redeliver, Claim, Claimable
  <2>4. CASE ReclaimSteer(c)  BY <2>4 DEF ReclaimSteer, Claimable
  <2>5. CASE TakeDelivering(c)  BY <2>5 DEF TakeDelivering
  <2>6. CASE LookupFails(c)  BY <2>6 DEF LookupFails
  <2>7. CASE LookupMisses(c)  BY <2>7 DEF LookupMisses
  <2>8. CASE LookupFinds(c)  BY <2>8 DEF LookupFinds
  <2>9. CASE RedeliverRequeued(c)  BY <2>9 DEF RedeliverRequeued, Claim, Claimable
  <2>10. CASE OrphanRequeued(c)  BY <2>10 DEF OrphanRequeued, CloseIf, Close
  <2>11. CASE FoldCompleted(c)  BY <2>11 DEF FoldCompleted, CloseIf, Close
  <2>12. CASE FoldRejected(c)  BY <2>12 DEF FoldRejected, CloseIf, Close
  <2>13. CASE FoldInFlight(c)  BY <2>13 DEF FoldInFlight
  <2>14. CASE RedeliveryEnds(c)  BY <2>14 DEF RedeliveryEnds
  <2> QED
    BY <1>2, <2>1, <2>2, <2>3, <2>4, <2>5, <2>6, <2>7, <2>8, <2>9, <2>10, <2>11, <2>12, <2>13, <2>14
    DEF Recover, TakeUp, Settle
<1>3. ASSUME NEW c \in Cmd, HostStep(c) PROVE MessageFollowsLedger'
  <2>1. ASSUME NEW n \in wire[c], HostRefuses(c, n) PROVE MessageFollowsLedger'
    BY <2>1 DEF HostRefuses
  <2>2. ASSUME NEW n \in wire[c], HostAdmits(c, n) PROVE MessageFollowsLedger'
    BY <2>2 DEF HostAdmits
  <2>3. CASE HostEnds(c)  BY <2>3 DEF HostEnds
  <2>4. CASE HostSettlesCreate(c)  BY <2>4 DEF HostSettlesCreate
  <2> QED  BY <1>3, <2>1, <2>2, <2>3, <2>4 DEF HostStep
<1>4. CASE PassStarts  BY <1>4 DEF PassStarts
<1>5. CASE PassEnds  BY <1>5 DEF PassEnds
<1>6. CASE HostRestarts  BY <1>6 DEF HostRestarts
<1>7. CASE ManagerCrash  BY <1>7 DEF ManagerCrash
<1>8. CASE UNCHANGED vars  BY <1>8
<1> QED  BY <1>1, <1>2, <1>3, <1>4, <1>5, <1>6, <1>7, <1>8 DEF Next

\* A completed receipt stays completed, so that neither a late answer nor a
\* stale lookup reports a success the host does not have.
LEMMA SuccessStep ==
    ASSUME TypeOK, FoldInv, SuccessIsHosts, [Next]_vars
    PROVE  FoldInv' /\ SuccessIsHosts'
<1> USE DEF TypeOK, FoldInv, SuccessIsHosts, Open, OpenStates, TerminalStates, vars, ledger, delivery, recovery, network, bounds
<1>1. ASSUME NEW c \in Cmd, Drive(c) PROVE FoldInv' /\ SuccessIsHosts'
  <2>1. CASE Issue(c)  BY <2>1 DEF Issue
  <2>2. CASE Deliver(c)  BY <2>2 DEF Deliver, Claim, Claimable
  <2>3. CASE NotClaimable(c)  BY <2>3 DEF NotClaimable
  <2>4. CASE Acknowledge(c)  BY <2>4 DEF Acknowledge, Bind, CloseIf, Close
  <2>5. CASE Rejected(c)  BY <2>5 DEF Rejected, CloseIf, Close
  <2>6. CASE Refused(c)  BY <2>6 DEF Refused, CloseIf, Close
  <2>7. CASE Unknown(c)  BY <2>7 DEF Unknown, CloseIf, Close
  <2>8. CASE FenceLocally(c)  BY <2>8 DEF FenceLocally, CloseIf, Close
  <2>9. CASE Deferred(c)  BY <2>9 DEF Deferred
  <2> QED  BY <1>1, <2>1, <2>2, <2>3, <2>4, <2>5, <2>6, <2>7, <2>8, <2>9 DEF Drive
<1>2. ASSUME NEW c \in Cmd, Recover(c) PROVE FoldInv' /\ SuccessIsHosts'
  <2>1. CASE TooFresh(c)  BY <2>1 DEF TooFresh
  <2>2. CASE Orphan(c)  BY <2>2 DEF Orphan, CloseIf, Close
  <2>3. CASE Redeliver(c)  BY <2>3 DEF Redeliver, Claim, Claimable
  <2>4. CASE ReclaimSteer(c)  BY <2>4 DEF ReclaimSteer, Claimable
  <2>5. CASE TakeDelivering(c)  BY <2>5 DEF TakeDelivering
  <2>6. CASE LookupFails(c)  BY <2>6 DEF LookupFails, Leave
  <2>7. CASE LookupMisses(c)  BY <2>7 DEF LookupMisses, Leave
  <2>8. CASE LookupFinds(c)  BY <2>8 DEF LookupFinds
  <2>9. CASE RedeliverRequeued(c)  BY <2>9 DEF RedeliverRequeued, Leave, Claim, Claimable
  <2>10. CASE OrphanRequeued(c)  BY <2>10 DEF OrphanRequeued, Leave, CloseIf, Close
  <2>11. CASE FoldCompleted(c)  BY <2>11 DEF FoldCompleted, Bind, Leave, CloseIf, Close
  <2>12. CASE FoldRejected(c)  BY <2>12 DEF FoldRejected, Leave, CloseIf, Close
  <2>13. CASE FoldInFlight(c)  BY <2>13 DEF FoldInFlight, Leave
  <2>14. CASE RedeliveryEnds(c)  BY <2>14 DEF RedeliveryEnds, Leave
  <2> QED
    BY <1>2, <2>1, <2>2, <2>3, <2>4, <2>5, <2>6, <2>7, <2>8, <2>9, <2>10, <2>11, <2>12, <2>13, <2>14
    DEF Recover, TakeUp, Settle
<1>3. ASSUME NEW c \in Cmd, HostStep(c) PROVE FoldInv' /\ SuccessIsHosts'
  <2>1. ASSUME NEW n \in wire[c], HostRefuses(c, n) PROVE FoldInv' /\ SuccessIsHosts'
    BY <2>1 DEF HostRefuses
  <2>2. ASSUME NEW n \in wire[c], HostAdmits(c, n) PROVE FoldInv' /\ SuccessIsHosts'
    BY <2>2 DEF HostAdmits
  <2>3. CASE HostEnds(c)  BY <2>3 DEF HostEnds
  <2>4. CASE HostSettlesCreate(c)  BY <2>4 DEF HostSettlesCreate
  <2> QED  BY <1>3, <2>1, <2>2, <2>3, <2>4 DEF HostStep
<1>4. CASE PassStarts  BY <1>4 DEF PassStarts
<1>5. CASE PassEnds  BY <1>5 DEF PassEnds
<1>6. CASE HostRestarts  BY <1>6 DEF HostRestarts
<1>7. CASE ManagerCrash  BY <1>7 DEF ManagerCrash
<1>8. CASE UNCHANGED vars  BY <1>8
<1> QED  BY <1>1, <1>2, <1>3, <1>4, <1>5, <1>6, <1>7, <1>8 DEF Next

\* An attempt is made by a driver below its budget, or by the pass on a row
\* whose deliverer died.
LEMMA BudgetStep ==
    ASSUME TypeOK, BudgetInv, [Next]_vars
    PROVE  BudgetInv'
<1> USE DEF TypeOK, Snapshot, BudgetInv, FreshInv, RetryInv, SoleDelivererInv, StartupInv, AttemptBudget, ShownAttempt, Open, OpenStates, TerminalStates, vars, ledger, delivery, recovery, network, bounds
<1>1. ASSUME NEW c \in Cmd, Drive(c) PROVE BudgetInv'
  <2>1. CASE Issue(c)  BY <2>1 DEF Issue
  <2>2. CASE Deliver(c)  BY <2>2 DEF Deliver, Claim, Claimable
  <2>3. CASE NotClaimable(c)  BY <2>3 DEF NotClaimable
  <2>4. CASE Acknowledge(c)  BY <2>4 DEF Acknowledge, CloseIf, Close
  <2>5. CASE Rejected(c)  BY <2>5 DEF Rejected, CloseIf, Close
  <2>6. CASE Refused(c)  BY <2>6 DEF Refused, CloseIf, Close
  <2>7. CASE Unknown(c)  BY <2>7 DEF Unknown, CloseIf, Close, Exhausted
  <2>8. CASE FenceLocally(c)  BY <2>8 DEF FenceLocally, CloseIf, Close
  <2>9. CASE Deferred(c)  BY <2>9 DEF Deferred
  <2> QED  BY <1>1, <2>1, <2>2, <2>3, <2>4, <2>5, <2>6, <2>7, <2>8, <2>9 DEF Drive
<1>2. ASSUME NEW c \in Cmd, Recover(c) PROVE BudgetInv'
  <2>1. CASE TooFresh(c)  BY <2>1 DEF TooFresh, Free, Done
  <2>2. CASE Orphan(c)  BY <2>2 DEF Orphan, Free, Done, Aged, AttemptedSteer, CloseIf, Close
  <2>3. CASE Redeliver(c)  BY <2>3 DEF Redeliver, Free, Done, Aged, Claim, Claimable
  <2>4. CASE ReclaimSteer(c)  BY <2>4 DEF ReclaimSteer, Free, Done, Aged, AttemptedSteer, Claimable
  <2>5. CASE TakeDelivering(c)  BY <2>5 DEF TakeDelivering, Free, Aged
  <2>6. CASE LookupFails(c)  BY <2>6 DEF LookupFails, Leave, Done
  <2>7. CASE LookupMisses(c)  BY <2>7 DEF LookupMisses, Leave, Done
  <2>8. CASE LookupFinds(c)  BY <2>8 DEF LookupFinds
  <2>9. CASE RedeliverRequeued(c)  BY <2>9 DEF RedeliverRequeued, Leave, Done, Claim, Claimable
  <2>10. CASE OrphanRequeued(c)  BY <2>10 DEF OrphanRequeued, Leave, Done, CloseIf, Close
  <2>11. CASE FoldCompleted(c)  BY <2>11 DEF FoldCompleted, Leave, Done, CloseIf, Close
  <2>12. CASE FoldRejected(c)  BY <2>12 DEF FoldRejected, Leave, Done, CloseIf, Close
  <2>13. CASE FoldInFlight(c)  BY <2>13 DEF FoldInFlight, Leave, Done
  <2>14. CASE RedeliveryEnds(c)  BY <2>14 DEF RedeliveryEnds, Leave, Done
  <2> QED
    BY <1>2, <2>1, <2>2, <2>3, <2>4, <2>5, <2>6, <2>7, <2>8, <2>9, <2>10, <2>11, <2>12, <2>13, <2>14
    DEF Recover, TakeUp, Settle
<1>3. ASSUME NEW c \in Cmd, HostStep(c) PROVE BudgetInv'
  <2>1. ASSUME NEW n \in wire[c], HostRefuses(c, n) PROVE BudgetInv'
    BY <2>1 DEF HostRefuses
  <2>2. ASSUME NEW n \in wire[c], HostAdmits(c, n) PROVE BudgetInv'
    BY <2>2 DEF HostAdmits
  <2>3. CASE HostEnds(c)  BY <2>3 DEF HostEnds
  <2>4. CASE HostSettlesCreate(c)  BY <2>4 DEF HostSettlesCreate
  <2> QED  BY <1>3, <2>1, <2>2, <2>3, <2>4 DEF HostStep
<1>4. CASE PassStarts  BY <1>4 DEF PassStarts
<1>5. CASE PassEnds  BY <1>5 DEF PassEnds
<1>6. CASE HostRestarts  BY <1>6 DEF HostRestarts
<1>7. CASE ManagerCrash  BY <1>7 DEF ManagerCrash
<1>8. CASE UNCHANGED vars  BY <1>8
<1> QED  BY <1>1, <1>2, <1>3, <1>4, <1>5, <1>6, <1>7, <1>8 DEF Next

\* Every compare-and-swap starts from an open row.
LEMMA ClosedStep ==
    ASSUME TypeOK, [Next]_vars
    PROVE  \A k \in Cmd : row[k] \in TerminalStates => row'[k] = row[k] /\ attempts'[k] = attempts[k]
<1> USE DEF TypeOK, Open, OpenStates, TerminalStates, vars, ledger, delivery, recovery, network, bounds
<1>1. ASSUME NEW c \in Cmd, Drive(c) PROVE \A k \in Cmd : row[k] \in TerminalStates => row'[k] = row[k] /\ attempts'[k] = attempts[k]
  <2>1. CASE Issue(c)  BY <2>1 DEF Issue
  <2>2. CASE Deliver(c)  BY <2>2 DEF Deliver, Claim, Claimable
  <2>3. CASE NotClaimable(c)  BY <2>3 DEF NotClaimable
  <2>4. CASE Acknowledge(c)  BY <2>4 DEF Acknowledge, CloseIf, Close
  <2>5. CASE Rejected(c)  BY <2>5 DEF Rejected, CloseIf, Close
  <2>6. CASE Refused(c)  BY <2>6 DEF Refused, CloseIf, Close
  <2>7. CASE Unknown(c)  BY <2>7 DEF Unknown, CloseIf, Close
  <2>8. CASE FenceLocally(c)  BY <2>8 DEF FenceLocally, CloseIf, Close
  <2>9. CASE Deferred(c)  BY <2>9 DEF Deferred
  <2> QED  BY <1>1, <2>1, <2>2, <2>3, <2>4, <2>5, <2>6, <2>7, <2>8, <2>9 DEF Drive
<1>2. ASSUME NEW c \in Cmd, Recover(c) PROVE \A k \in Cmd : row[k] \in TerminalStates => row'[k] = row[k] /\ attempts'[k] = attempts[k]
  <2>1. CASE TooFresh(c)  BY <2>1 DEF TooFresh
  <2>2. CASE Orphan(c)  BY <2>2 DEF Orphan, CloseIf, Close
  <2>3. CASE Redeliver(c)  BY <2>3 DEF Redeliver, Claim, Claimable
  <2>4. CASE ReclaimSteer(c)  BY <2>4 DEF ReclaimSteer, Claimable
  <2>5. CASE TakeDelivering(c)  BY <2>5 DEF TakeDelivering
  <2>6. CASE LookupFails(c)  BY <2>6 DEF LookupFails
  <2>7. CASE LookupMisses(c)  BY <2>7 DEF LookupMisses
  <2>8. CASE LookupFinds(c)  BY <2>8 DEF LookupFinds
  <2>9. CASE RedeliverRequeued(c)  BY <2>9 DEF RedeliverRequeued, Claim, Claimable
  <2>10. CASE OrphanRequeued(c)  BY <2>10 DEF OrphanRequeued, CloseIf, Close
  <2>11. CASE FoldCompleted(c)  BY <2>11 DEF FoldCompleted, CloseIf, Close
  <2>12. CASE FoldRejected(c)  BY <2>12 DEF FoldRejected, CloseIf, Close
  <2>13. CASE FoldInFlight(c)  BY <2>13 DEF FoldInFlight
  <2>14. CASE RedeliveryEnds(c)  BY <2>14 DEF RedeliveryEnds
  <2> QED
    BY <1>2, <2>1, <2>2, <2>3, <2>4, <2>5, <2>6, <2>7, <2>8, <2>9, <2>10, <2>11, <2>12, <2>13, <2>14
    DEF Recover, TakeUp, Settle
<1>3. ASSUME NEW c \in Cmd, HostStep(c) PROVE \A k \in Cmd : row[k] \in TerminalStates => row'[k] = row[k] /\ attempts'[k] = attempts[k]
  <2>1. ASSUME NEW n \in wire[c], HostRefuses(c, n) PROVE \A k \in Cmd : row[k] \in TerminalStates => row'[k] = row[k] /\ attempts'[k] = attempts[k]
    BY <2>1 DEF HostRefuses
  <2>2. ASSUME NEW n \in wire[c], HostAdmits(c, n) PROVE \A k \in Cmd : row[k] \in TerminalStates => row'[k] = row[k] /\ attempts'[k] = attempts[k]
    BY <2>2 DEF HostAdmits
  <2>3. CASE HostEnds(c)  BY <2>3 DEF HostEnds
  <2>4. CASE HostSettlesCreate(c)  BY <2>4 DEF HostSettlesCreate
  <2> QED  BY <1>3, <2>1, <2>2, <2>3, <2>4 DEF HostStep
<1>4. CASE PassStarts  BY <1>4 DEF PassStarts
<1>5. CASE PassEnds  BY <1>5 DEF PassEnds
<1>6. CASE HostRestarts  BY <1>6 DEF HostRestarts
<1>7. CASE ManagerCrash  BY <1>7 DEF ManagerCrash
<1>8. CASE UNCHANGED vars  BY <1>8
<1> QED  BY <1>1, <1>2, <1>3, <1>4, <1>5, <1>6, <1>7, <1>8 DEF Next

\* The inductive invariant of the ledger holds in every reachable state.
THEOREM LedgerInvariance == Spec => []LedgerInv
<1>1. Init => LedgerInv
  <2> SUFFICES ASSUME Init PROVE LedgerInv
    OBVIOUS
  <2>1. TypeOK
    <3>1. crashes \in 0 .. MaxCrashes /\ restarts \in 0 .. MaxRestarts  BY DEF Init
    <3>2. pass \in BOOLEAN  BY DEF Init
    <3>3. /\ page \in [Cmd -> Snapshot \cup {NoRow}]
          /\ wire \in [Cmd -> SUBSET Nat] /\ conn \in [Cmd -> SUBSET Nat]
      BY DEF Init
    <3> QED
      BY <3>1, <3>2, <3>3 DEF Init, TypeOK, Receipts, OpenStates, TerminalStates
  <2>2. MessageFollowsLedger /\ SuccessIsHosts /\ FoldInv
    BY DEF Init, MessageFollowsLedger, SuccessIsHosts, FoldInv, TerminalStates
  <2>3. FreshInv /\ RetryInv /\ StartupInv
    BY DEF Init, FreshInv, RetryInv, StartupInv
  <2>4. SoleDelivererInv
    BY DEF Init, SoleDelivererInv, Open, OpenStates
  <2>5. AttemptBudget
    BY DEF Init, AttemptBudget
  <2> QED  BY <2>1, <2>2, <2>3, <2>4, <2>5 DEF LedgerInv, BudgetInv
<1>2. LedgerInv /\ [Next]_vars => LedgerInv'
  BY TypeStep, MessageStep, SuccessStep, BudgetStep DEF LedgerInv
<1> QED  BY <1>1, <1>2, PTL DEF Spec

\* Type correctness of the ledger, the deliverer and the pass.
THEOREM LedgerTypes == Spec => []TypeOK
<1>1. LedgerInv => TypeOK  BY DEF LedgerInv
<1> QED  BY <1>1, LedgerInvariance, PTL

\* settleSteerCommand runs once, in the transaction that closes the row.
THEOREM MessagesFollow == Spec => []MessageFollowsLedger
<1>1. LedgerInv => MessageFollowsLedger  BY DEF LedgerInv
<1> QED  BY <1>1, LedgerInvariance, PTL

\* markSucceeded is only ever reached with a completed receipt.
THEOREM SuccessesAreReal == Spec => []SuccessIsHosts
<1>1. LedgerInv => SuccessIsHosts  BY DEF LedgerInv
<1> QED  BY <1>1, LedgerInvariance, PTL

\* failRetryable bounds the attempts; a redelivery of the pass after a manager
\* crash is the only way past the budget.
THEOREM BudgetHolds == Spec => []AttemptBudget
<1>1. LedgerInv => AttemptBudget  BY DEF LedgerInv, BudgetInv
<1> QED  BY <1>1, LedgerInvariance, PTL

\* casTransition: a late signal never reopens or rewrites a closed row.
THEOREM LateSignals == Spec => ClosedStays
<1>1. ASSUME TypeOK, [Next]_vars
      PROVE  [\A c \in Cmd : row[c] \in TerminalStates => row'[c] = row[c]
                                                     /\ attempts'[c] = attempts[c]]_vars
  <2>1. \A c \in Cmd : row[c] \in TerminalStates => row'[c] = row[c]
                                                     /\ attempts'[c] = attempts[c]
    BY <1>1, ClosedStep
  <2> QED  BY <2>1
<1> QED  BY <1>1, LedgerTypes, PTL DEF Spec, ClosedStays
=============================================================================
