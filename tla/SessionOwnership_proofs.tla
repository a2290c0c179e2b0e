----------------------- MODULE SessionOwnership_proofs -----------------------
(***************************************************************************)
(* What the execution host guarantees for any number of commands, requests *)
(* and epochs and any number of crashes.  IInv is inductive: TypeStep,     *)
(* ReceiptStep, OwnershipStep and TakeoverStep show one part of it each;   *)
(* the safety properties follow from it, and with it every step of the     *)
(* host is a step of the abstract specification RunOwner.                  *)
(***************************************************************************)
EXTENDS SessionOwnership, TLAPS

USE OwnershipAssumption DEF Kinds, Creates, OnSession

\* The types of what the shared sub-steps write.
LEMMA ReleaseTypes ==
    ASSUME TypeOK, NEW S, ReleaseAndSettle(S)
    PROVE  /\ phase' \in [Cmd -> Phases] /\ body' \in [Cmd -> Bodies]
           /\ obligation' \in [Cmd -> {"none", "registered", "unproven", "released"}]
BY DEF TypeOK, ReleaseAndSettle, Phases, Bodies, GoneBodies

\* The first pass of reconcileRunSessionProcesses, before its first await.
LEMMA ReconcileTypes ==
    ASSUME TypeOK, NEW r \in Req, StartReconcile(r)
    PROVE  /\ phase' \in [Cmd -> Phases] /\ body' \in [Cmd -> Bodies]
           /\ obligation' \in [Cmd -> {"none", "registered", "unproven", "released"}]
           /\ pc' \in [Req -> {"new", "evict", "reconcile", "execute", "done"}]
           /\ todo' \in [Req -> SUBSET Cmd]
<1>1. CASE \E s \in Cmd : NeedsInspection(s)
  BY <1>1 DEF TypeOK, StartReconcile, Obliged
<1>2. CASE ~\E s \in Cmd : NeedsInspection(s)
  <2>1. ReleaseAndSettle({s \in Obliged : obligation[s] = "released"})
    BY <1>2 DEF StartReconcile
  <2>2. /\ pc' \in [Req -> {"new", "evict", "reconcile", "execute", "done"}]
        /\ todo' \in [Req -> SUBSET Cmd]
    BY <1>2 DEF TypeOK, StartReconcile
  <2> QED  BY <2>1, <2>2, ReleaseTypes
<1> QED  BY <1>1, <1>2

\* writeReceipt stores a phase and a body of the known kinds.
LEMMA WriteTypes ==
    ASSUME TypeOK, NEW c \in Cmd, NEW p \in Phases, NEW b \in Bodies,
           WriteReceipt(c, p, b)
    PROVE  phase' \in [Cmd -> Phases] /\ body' \in [Cmd -> Bodies]
BY DEF TypeOK, WriteReceipt

\* Every step keeps every variable in its type.
LEMMA TypeStep == TypeOK /\ [Next]_vars => TypeOK'
<1> SUFFICES ASSUME TypeOK, [Next]_vars PROVE TypeOK'
  OBVIOUS
<1> USE DEF TypeOK, Phases, Bodies, GoneBodies, Procs, Stages, durable, memory, handlers, vars
<1>1. ASSUME NEW r \in Req, Handle(r) PROVE TypeOK'
  <2>1. CASE Refuse(r)  BY <2>1 DEF Refuse, Finish
  <2>2. CASE Arrive(r)
    <3>1. fence'.epoch \in Nat  BY <2>2 DEF Arrive
    <3>2. /\ phase' \in [Cmd -> Phases] /\ body' \in [Cmd -> Bodies]
          /\ obligation' \in [Cmd -> {"none", "registered", "unproven", "released"}]
          /\ pc' \in [Req -> {"new", "evict", "reconcile", "execute", "done"}]
          /\ todo' \in [Req -> SUBSET Cmd]
      BY <2>2, ReconcileTypes DEF Arrive, LowerEpochSessions
    <3> QED  BY <2>2, <3>1, <3>2 DEF Arrive
  <2>3. ASSUME NEW s \in Cmd, EvictSignal(r, s) PROVE TypeOK'  BY <2>3 DEF EvictSignal
  <2>4. CASE EvictConfirmed(r)
    <3>1. /\ phase' \in [Cmd -> Phases] /\ body' \in [Cmd -> Bodies]
          /\ obligation' \in [Cmd -> {"none", "registered", "unproven", "released"}]
          /\ pc' \in [Req -> {"new", "evict", "reconcile", "execute", "done"}]
          /\ todo' \in [Req -> SUBSET Cmd]
      BY <2>4, ReconcileTypes DEF EvictConfirmed
    <3> QED  BY <2>4, <3>1 DEF EvictConfirmed
  <2>5. CASE EvictTimeout(r)  BY <2>5 DEF EvictTimeout, Finish
  <2>6. ASSUME NEW s \in Cmd, ReconcilePass(r, s) PROVE TypeOK'  BY <2>6 DEF ReconcilePass
  <2>7. ASSUME NEW s \in Cmd, ReconcileOne(r, s) PROVE TypeOK'
    BY <2>7, ReleaseTypes DEF ReconcileOne
  <2>8. CASE ReconcileDone(r)  BY <2>8, ReleaseTypes DEF ReconcileDone
  <2>9. CASE ReconcileRefused(r)  BY <2>9 DEF ReconcileRefused, Finish
  <2>10. CASE Replay(r)  BY <2>10 DEF Replay, Finish
  <2>11. CASE TurnLost(r)  BY <2>11, WriteTypes DEF TurnLost, Finish
  <2>12. CASE RunFresh(r)  BY <2>12, WriteTypes DEF RunFresh, FirstStage, Finish
  <2>13. CASE AdmissionRefused(r)  BY <2>13 DEF AdmissionRefused, Finish
  <2> QED  BY <1>1, <2>1, <2>2, <2>3, <2>4, <2>5, <2>6, <2>7, <2>8, <2>9, <2>10,
              <2>11, <2>12, <2>13 DEF Handle
<1>2. ASSUME NEW c \in Cmd, Create(c) PROVE TypeOK'
  <2> USE WriteTypes DEF Settle, Released
  <2>1. CASE CreateUnstarted(c)  BY <2>1 DEF CreateUnstarted
  <2>2. CASE Spawn(c)  BY <2>2 DEF Spawn
  <2>3. CASE SpawnUnregistered(c)  BY <2>3 DEF SpawnUnregistered
  <2>4. CASE Authorize(c)  BY <2>4 DEF Authorize
  <2>5. CASE GateFails(c)  BY <2>5 DEF GateFails
  <2>6. CASE ExecutionStarted(c)  BY <2>6 DEF ExecutionStarted
  <2>7. CASE HandshakeOk(c)  BY <2>7 DEF HandshakeOk
  <2>8. CASE HandshakeFails(c)  BY <2>8 DEF HandshakeFails
  <2>9. CASE CreateAborts(c)  BY <2>9 DEF CreateAborts
  <2>10. CASE TeardownConfirmed(c)  BY <2>10 DEF TeardownConfirmed
  <2>11. CASE TeardownTimeout(c)  BY <2>11 DEF TeardownTimeout
  <2>12. CASE ObserveExit(c)  BY <2>12 DEF ObserveExit
  <2>13. CASE SettleRetiredCreate(c)  BY <2>13 DEF SettleRetiredCreate
  <2>14. CASE SpawnAborts(c)
    <3>1. phase' \in [Cmd -> Phases] /\ body' \in [Cmd -> Bodies]
      BY <2>14 DEF SpawnAborts
    <3>2. /\ stage' \in [Cmd -> Stages] /\ proc' \in [Cmd -> Procs]
          /\ registry' \in SUBSET Cmd
      BY <2>14 DEF SpawnAborts
    <3> QED  BY <2>14, <3>1, <3>2 DEF SpawnAborts
  <2> QED  BY <1>2, <2>1, <2>2, <2>3, <2>4, <2>5, <2>6, <2>7, <2>8, <2>9, <2>10,
              <2>11, <2>12, <2>13, <2>14 DEF Create
<1>3. ASSUME NEW c \in Cmd, Run(c) PROVE TypeOK'
  <2> USE WriteTypes DEF Settle, Released
  <2>1. CASE PromptEnds(c)
    <3>1. phase' \in [Cmd -> Phases] /\ body' \in [Cmd -> Bodies]
      BY <2>1 DEF PromptEnds
    <3>2. stage' \in [Cmd -> Stages]  BY <2>1 DEF PromptEnds
    <3> QED  BY <2>1, <3>1, <3>2 DEF PromptEnds
  <2>2. CASE DeleteConfirmed(c)  BY <2>2 DEF DeleteConfirmed
  <2>3. CASE DeleteSettles(c)  BY <2>3 DEF DeleteSettles
  <2>4. CASE DeleteTimeout(c)  BY <2>4 DEF DeleteTimeout
  <2>5. CASE WorkEnds(c)  BY <2>5 DEF WorkEnds
  <2>6. CASE Lookup(c)  BY <2>6, ReleaseTypes DEF Lookup
  <2> QED  BY <1>3, <2>1, <2>2, <2>3, <2>4, <2>5, <2>6 DEF Run
<1>4. ASSUME NEW s \in Cmd, Os(s) PROVE TypeOK'
  BY <1>4 DEF Os, AdapterStarts, LeaderExits, GroupEnds, RegistryExpire
<1>5. ASSUME LoseMemory, proc' \in [Cmd -> Procs], UNCHANGED <<fence, phase, body>>,
             obligation' \in [Cmd -> {"none", "registered", "unproven", "released"}]
      PROVE  TypeOK'
  <2>1. up' \in BOOLEAN  BY <1>5 DEF LoseMemory
  <2>2. crashes' \in 0 .. MaxCrashes  BY <1>5 DEF LoseMemory
  <2>3. /\ pc' \in [Req -> {"new", "evict", "reconcile", "execute", "done"}]
        /\ todo' \in [Req -> SUBSET Cmd]
        /\ cur' \in [Req -> Cmd \cup {None}]
    BY <1>5 DEF LoseMemory
  <2>4. /\ stage' \in [Cmd -> Stages]
        /\ registry' \in SUBSET Cmd /\ stopping' \in SUBSET Cmd
        /\ evicted' \in SUBSET Cmd
        /\ observer' \in [Cmd -> {"off", "armed", "reading"}]
    BY <1>5 DEF LoseMemory
  <2>5. execs' = execs  BY <1>5 DEF LoseMemory
  <2> QED  BY <1>5, <2>1, <2>2, <2>3, <2>4, <2>5
<1>6. CASE Crash \/ OsReboot
  <2>1. proc' \in [Cmd -> Procs]  BY <1>6 DEF Crash, OsReboot
  <2>2. obligation' \in [Cmd -> {"none", "registered", "unproven", "released"}]
    BY <1>6 DEF Crash, OsReboot, Obliged
  <2>3. LoseMemory /\ UNCHANGED <<fence, phase, body>>
    BY <1>6 DEF Crash, OsReboot
  <2> QED  BY <1>5, <2>1, <2>2, <2>3
<1>7. CASE Boot  BY <1>7 DEF Boot, BootBody, OwnerUnknown
<1>8. CASE UNCHANGED vars  BY <1>8
<1> QED  BY <1>1, <1>2, <1>3, <1>4, <1>5, <1>6, <1>7, <1>8 DEF Next

\* Type correctness: receipts, obligations, processes and handlers stay in
\* their types.
THEOREM TypeCorrect == Spec => []TypeOK
<1>1. Init => TypeOK
  BY DEF Init, TypeOK, Phases, Bodies, GoneBodies, Procs, Stages
<1> QED  BY <1>1, TypeStep, PTL DEF Spec

\* A step keeps what the receipts say of the commands at work: an accepted
\* receipt is written exactly when a command begins to execute.
LEMMA ReceiptStep == IInv /\ TypeOK' /\ [Next]_vars => ReceiptInv'
<1> SUFFICES ASSUME IInv, TypeOK', [Next]_vars PROVE ReceiptInv'
  OBVIOUS
<1> USE DEF IInv, TypeOK, Phases, Bodies, GoneBodies, Procs, Stages, durable,
    memory, handlers, vars, ReceiptInv, ExecutedIffReceipt, StageInv, DownInv,
    SettlingInv, CreateStages, Retired, OwnershipInv, ProcessInv
<1>1. ASSUME NEW r \in Req, Handle(r) PROVE ReceiptInv'
  <2>1. CASE Refuse(r)
    BY <2>1 DEF Refuse, Finish, LoopFree, UnknownSession, FenceRejects
  <2>2. CASE Arrive(r)
    BY <2>2 DEF Arrive, StartReconcile, LowerEpochSessions, Terminal, LoopFree,
      UnknownSession, FenceRejects, LeaderRuns, ReleaseAndSettle, Obliged,
      NeedsInspection, Inspectable, LostWith
  <2>3. ASSUME NEW s \in Cmd, EvictSignal(r, s) PROVE ReceiptInv'
    BY <2>3 DEF EvictSignal, LoopFree
  <2>4. CASE EvictConfirmed(r)
    BY <2>4 DEF EvictConfirmed, StartReconcile, LoopFree, ReleaseAndSettle,
      Obliged, NeedsInspection, Inspectable, LeaderRuns, LostWith
  <2>5. CASE EvictTimeout(r)
    BY <2>5 DEF EvictTimeout, Finish, LoopFree
  <2>6. ASSUME NEW s \in Cmd, ReconcilePass(r, s) PROVE ReceiptInv'
    BY <2>6 DEF ReconcilePass, Inspectable, LoopFree, LeaderRuns
  <2>7. ASSUME NEW s \in Cmd, ReconcileOne(r, s) PROVE ReceiptInv'
    <3> obligation[s] # "none"  BY <2>7 DEF ReconcileOne, Settleable, Obliged
    <3>1. ExecutedIffReceipt'
      BY <2>7 DEF ReconcileOne, ReleaseAndSettle, LoopFree, LostWith
    <3>2. StageInv'
      BY <2>7 DEF ReconcileOne, ReleaseAndSettle, LoopFree, LostWith
    <3>3. DownInv'
      BY <2>7 DEF ReconcileOne, ReleaseAndSettle, LoopFree, LostWith
    <3>4. SettlingInv'
      BY <2>7 DEF ReconcileOne, ReleaseAndSettle, LoopFree, LostWith
    <3> QED  BY <3>1, <3>2, <3>3, <3>4
  <2>8. CASE ReconcileDone(r)
    BY <2>8 DEF ReconcileDone, ReleaseAndSettle, NeedsInspection, LoopFree,
      Inspectable, LeaderRuns, LostWith
  <2>9. CASE ReconcileRefused(r)
    BY <2>9 DEF ReconcileRefused, Finish, NeedsInspection, LoopFree,
      Inspectable, LeaderRuns
  <2>10. CASE Replay(r)
    BY <2>10 DEF Replay, Finish, InFlight, Terminal, PromptBusy, Unsettled
  <2>11. CASE TurnLost(r)
    BY <2>11 DEF TurnLost, Finish, WriteReceipt, InFlight, Unsettled
  <2>12. CASE RunFresh(r)
    BY <2>12 DEF RunFresh, Finish, WriteReceipt, FirstStage, InFlight,
      PromptBusy
  <2>13. CASE AdmissionRefused(r)
    BY <2>13 DEF AdmissionRefused, Finish
  <2> QED  BY <1>1, <2>1, <2>2, <2>3, <2>4, <2>5, <2>6, <2>7, <2>8, <2>9,
           <2>10, <2>11, <2>12, <2>13 DEF Handle
<1>2. ASSUME NEW c \in Cmd, Create(c) PROVE ReceiptInv'
  <2>1. CASE CreateUnstarted(c)
    BY <2>1 DEF CreateUnstarted, Settle, LoopFree, WriteReceipt
  <2>2. CASE Spawn(c)
    BY <2>2 DEF Spawn, HoldsFence, LoopFree
  <2>3. CASE SpawnUnregistered(c)
    BY <2>3 DEF SpawnUnregistered, HoldsFence, LoopFree
  <2>4. CASE Authorize(c)
    BY <2>4 DEF Authorize, HoldsFence, LoopFree
  <2>5. CASE GateFails(c)
    BY <2>5 DEF GateFails, LoopFree
  <2>6. CASE ExecutionStarted(c)
    BY <2>6 DEF ExecutionStarted, LoopFree
  <2>7. CASE HandshakeOk(c)
    BY <2>7 DEF HandshakeOk, Settle, LoopFree, WriteReceipt
  <2>8. CASE HandshakeFails(c)
    BY <2>8 DEF HandshakeFails, LoopFree
  <2>9. CASE CreateAborts(c)
    BY <2>9 DEF CreateAborts, Settle, LoopFree, WriteReceipt
  <2>10. CASE TeardownConfirmed(c)
    BY <2>10 DEF TeardownConfirmed, Settle, Released, LoopFree, WriteReceipt
  <2>11. CASE TeardownTimeout(c)
    BY <2>11 DEF TeardownTimeout, Settle, LoopFree, WriteReceipt
  <2>12. CASE ObserveExit(c)
    BY <2>12 DEF ObserveExit, LeaderRuns, LoopFree, Unsettled
  <2>13. CASE SettleRetiredCreate(c)
    BY <2>13 DEF SettleRetiredCreate, WriteReceipt, Released, LoopFree
  <2>14. CASE SpawnAborts(c)
    BY <2>14 DEF SpawnAborts, Settle, HoldsFence, LoopFree, WriteReceipt
  <2> QED  BY <1>2, <2>1, <2>2, <2>3, <2>4, <2>5, <2>6, <2>7, <2>8, <2>9,
           <2>10, <2>11, <2>12, <2>13, <2>14 DEF Create
<1>3. ASSUME NEW c \in Cmd, Run(c) PROVE ReceiptInv'
  <2>1. CASE PromptEnds(c)
    BY <2>1 DEF PromptEnds, WriteReceipt, LoopFree
  <2>2. CASE DeleteConfirmed(c)
    BY <2>2 DEF DeleteConfirmed, Settle, Released, LoopFree, Unsettled,
      WriteReceipt
  <2>3. CASE DeleteSettles(c)
    BY <2>3 DEF DeleteSettles, Released, LoopFree
  <2>4. CASE DeleteTimeout(c)
    BY <2>4 DEF DeleteTimeout, Settle, LoopFree, WriteReceipt
  <2>5. CASE WorkEnds(c)
    BY <2>5 DEF WorkEnds, Settle, LoopFree, WriteReceipt
  <2>6. CASE Lookup(c)
    BY <2>6 DEF Lookup, ReleaseAndSettle, Unconfirmed, Settleable, Provable, LoopFree,
      Obliged, NeedsInspection, Inspectable, LeaderRuns, LostWith
  <2> QED  BY <1>3, <2>1, <2>2, <2>3, <2>4, <2>5, <2>6 DEF Run
<1>4. ASSUME NEW s \in Cmd, Os(s) PROVE ReceiptInv'
  <2>1. CASE AdapterStarts(s)
    BY <2>1 DEF AdapterStarts
  <2>2. CASE LeaderExits(s)
    BY <2>2 DEF LeaderExits, LeaderRuns
  <2>3. CASE GroupEnds(s)
    BY <2>3 DEF GroupEnds
  <2>4. CASE RegistryExpire(s)
    BY <2>4 DEF RegistryExpire, LeaderRuns, LoopFree
  <2> QED  BY <1>4, <2>1, <2>2, <2>3, <2>4 DEF Os
<1>5. CASE Crash
  BY <1>5 DEF Crash, LoseMemory
<1>6. CASE OsReboot
  BY <1>6 DEF OsReboot, LoseMemory, Obliged
<1>7. CASE Boot
    <3>1. ExecutedIffReceipt'
      BY <1>7 DEF Boot, Unconfirmed, Settleable, Provable, BootBody, OwnerUnknown, Obliged, NeedsInspection, Inspectable, LeaderRuns
    <3>2. StageInv'
      BY <1>7 DEF Boot, Unconfirmed, Settleable, Provable, BootBody, OwnerUnknown, Obliged, NeedsInspection, Inspectable, LeaderRuns
    <3>3. DownInv'
      BY <1>7 DEF Boot, Unconfirmed, Settleable, Provable, BootBody, OwnerUnknown, Obliged, NeedsInspection, Inspectable, LeaderRuns
    <3>4. SettlingInv'
      BY <1>7 DEF Boot, Unconfirmed, Settleable, Provable, BootBody, OwnerUnknown, Obliged, NeedsInspection, Inspectable, LeaderRuns
    <3> QED  BY <3>1, <3>2, <3>3, <3>4
<1>8. CASE UNCHANGED vars
  BY <1>8
<1> QED  BY <1>1, <1>2, <1>3, <1>4, <1>5, <1>6, <1>7, <1>8 DEF Next

\* A step keeps the link between processes, obligations and quiescence proofs.
LEMMA OwnershipStep == IInv /\ TypeOK' /\ [Next]_vars => OwnershipInv'
<1> SUFFICES ASSUME IInv, TypeOK', [Next]_vars PROVE OwnershipInv'
  OBVIOUS
<1> USE DEF IInv, TypeOK, Phases, Bodies, GoneBodies, Procs, Stages, durable,
    memory, handlers, vars, OwnershipInv, ProcessInv, ReleasedIsGone,
    AgentIsObliged, ProofMeansGone, Agent, Retired, ReceiptInv, StageInv, SettlingInv,
    CreateStages
<1>1. ASSUME NEW r \in Req, Handle(r) PROVE OwnershipInv'
  <2>1. CASE Refuse(r)
    BY <2>1 DEF Refuse, Finish, LoopFree, UnknownSession, FenceRejects
  <2>2. CASE Arrive(r)
    BY <2>2 DEF Arrive, StartReconcile, LowerEpochSessions, Terminal, LoopFree,
      UnknownSession, FenceRejects, LeaderRuns, ReleaseAndSettle, Obliged,
      NeedsInspection, Inspectable, LostWith
  <2>3. ASSUME NEW s \in Cmd, EvictSignal(r, s) PROVE OwnershipInv'
    BY <2>3 DEF EvictSignal, LoopFree
  <2>4. CASE EvictConfirmed(r)
    BY <2>4 DEF EvictConfirmed, StartReconcile, LoopFree, ReleaseAndSettle,
      Obliged, NeedsInspection, Inspectable, LeaderRuns, LostWith
  <2>5. CASE EvictTimeout(r)
    BY <2>5 DEF EvictTimeout, Finish, LoopFree
  <2>6. ASSUME NEW s \in Cmd, ReconcilePass(r, s) PROVE OwnershipInv'
    BY <2>6 DEF ReconcilePass, Inspectable, LoopFree, LeaderRuns
  <2>7. ASSUME NEW s \in Cmd, ReconcileOne(r, s) PROVE OwnershipInv'
    <3> obligation[s] # "none"  BY <2>7 DEF ReconcileOne, Settleable, Obliged
    <3>0. obligation[s] = "released" \/ Retired(s)
      BY <2>7 DEF ReconcileOne, Settleable, Provable
    <3>1. ProcessInv'
      BY <2>7, <3>0 DEF ReconcileOne, ReleaseAndSettle, LoopFree, LostWith
    <3>2. AgentIsObliged'
      BY <2>7, <3>0 DEF ReconcileOne, ReleaseAndSettle, LoopFree, LostWith
    <3>3. ProofMeansGone'
      BY <2>7, <3>0 DEF ReconcileOne, ReleaseAndSettle, LoopFree, LostWith
    <3>4. ReleasedIsGone'
      BY <2>7, <3>0 DEF ReconcileOne, ReleaseAndSettle, LoopFree, LostWith
    <3> QED  BY <3>1, <3>2, <3>3, <3>4
  <2>8. CASE ReconcileDone(r)
    BY <2>8 DEF ReconcileDone, ReleaseAndSettle, NeedsInspection, LoopFree,
      Inspectable, LeaderRuns, LostWith
  <2>9. CASE ReconcileRefused(r)
    BY <2>9 DEF ReconcileRefused, Finish, NeedsInspection, LoopFree,
      Inspectable, LeaderRuns
  <2>10. CASE Replay(r)
    BY <2>10 DEF Replay, Finish, InFlight, Terminal, PromptBusy, Unsettled
  <2>11. CASE TurnLost(r)
    BY <2>11 DEF TurnLost, Finish, WriteReceipt, InFlight, Unsettled
  <2>12. CASE RunFresh(r)
    BY <2>12 DEF RunFresh, Finish, WriteReceipt, FirstStage, InFlight,
      PromptBusy
  <2>13. CASE AdmissionRefused(r)
    BY <2>13 DEF AdmissionRefused, Finish
  <2> QED  BY <1>1, <2>1, <2>2, <2>3, <2>4, <2>5, <2>6, <2>7, <2>8, <2>9,
           <2>10, <2>11, <2>12, <2>13 DEF Handle
<1>2. ASSUME NEW c \in Cmd, Create(c) PROVE OwnershipInv'
  <2>1. CASE CreateUnstarted(c)
    BY <2>1 DEF CreateUnstarted, Settle, LoopFree, WriteReceipt
  <2>2. CASE Spawn(c)
    BY <2>2 DEF Spawn, HoldsFence, LoopFree
  <2>3. CASE SpawnUnregistered(c)
    BY <2>3 DEF SpawnUnregistered, HoldsFence, LoopFree
  <2>4. CASE Authorize(c)
    BY <2>4 DEF Authorize, HoldsFence, LoopFree
  <2>5. CASE GateFails(c)
    BY <2>5 DEF GateFails, LoopFree
  <2>6. CASE ExecutionStarted(c)
    BY <2>6 DEF ExecutionStarted, LoopFree
  <2>7. CASE HandshakeOk(c)
    BY <2>7 DEF HandshakeOk, Settle, LoopFree, WriteReceipt
  <2>8. CASE HandshakeFails(c)
    BY <2>8 DEF HandshakeFails, LoopFree
  <2>9. CASE CreateAborts(c)
    BY <2>9 DEF CreateAborts, Settle, LoopFree, WriteReceipt
  <2>10. CASE TeardownConfirmed(c)
    BY <2>10 DEF TeardownConfirmed, Settle, Released, LoopFree, WriteReceipt
  <2>11. CASE TeardownTimeout(c)
    BY <2>11 DEF TeardownTimeout, Settle, LoopFree, WriteReceipt
  <2>12. CASE ObserveExit(c)
    BY <2>12 DEF ObserveExit, LeaderRuns, LoopFree, Unsettled
  <2>13. CASE SettleRetiredCreate(c)
    BY <2>13 DEF SettleRetiredCreate, WriteReceipt, Released, LoopFree
  <2>14. CASE SpawnAborts(c)
    BY <2>14 DEF SpawnAborts, Settle, HoldsFence, LoopFree, WriteReceipt
  <2> QED  BY <1>2, <2>1, <2>2, <2>3, <2>4, <2>5, <2>6, <2>7, <2>8, <2>9,
           <2>10, <2>11, <2>12, <2>13, <2>14 DEF Create
<1>3. ASSUME NEW c \in Cmd, Run(c) PROVE OwnershipInv'
  <2>1. CASE PromptEnds(c)
    BY <2>1 DEF PromptEnds, WriteReceipt, LoopFree
  <2>2. CASE DeleteConfirmed(c)
    BY <2>2 DEF DeleteConfirmed, Settle, Released, LoopFree, Unsettled,
      WriteReceipt
  <2>3. CASE DeleteSettles(c)
    BY <2>3 DEF DeleteSettles, Released, LoopFree
  <2>4. CASE DeleteTimeout(c)
    BY <2>4 DEF DeleteTimeout, Settle, LoopFree, WriteReceipt
  <2>5. CASE WorkEnds(c)
    BY <2>5 DEF WorkEnds, Settle, LoopFree, WriteReceipt
  <2>6. CASE Lookup(c)
    BY <2>6 DEF Lookup, ReleaseAndSettle, Unconfirmed, Settleable, Provable, LoopFree,
      Obliged, NeedsInspection, Inspectable, LeaderRuns, LostWith
  <2> QED  BY <1>3, <2>1, <2>2, <2>3, <2>4, <2>5, <2>6 DEF Run
<1>4. ASSUME NEW s \in Cmd, Os(s) PROVE OwnershipInv'
  <2>1. CASE AdapterStarts(s)
    BY <2>1 DEF AdapterStarts
  <2>2. CASE LeaderExits(s)
    BY <2>2 DEF LeaderExits, LeaderRuns
  <2>3. CASE GroupEnds(s)
    BY <2>3 DEF GroupEnds
  <2>4. CASE RegistryExpire(s)
    BY <2>4 DEF RegistryExpire, LeaderRuns, LoopFree
  <2> QED  BY <1>4, <2>1, <2>2, <2>3, <2>4 DEF Os
<1>5. CASE Crash
  BY <1>5 DEF Crash, LoseMemory
<1>6. CASE OsReboot
  BY <1>6 DEF OsReboot, LoseMemory, Obliged
<1>7. CASE Boot
  BY <1>7 DEF Boot, Unconfirmed, Settleable, Provable, BootBody, OwnerUnknown, Obliged,
    NeedsInspection, Inspectable, LeaderRuns
<1>8. CASE UNCHANGED vars
  BY <1>8
<1> QED  BY <1>1, <1>2, <1>3, <1>4, <1>5, <1>6, <1>7, <1>8 DEF Next

\* Settling receipts and releasing owners disturbs no handler: the receipts that
\* exist stay, terminal ones stay terminal, and obliged sessions stay obliged.
LEMMA SettlingKeepsTakeover ==
    ASSUME TypeOK, TakeoverInv, UNCHANGED <<fence, proc, registry, pc, todo>>,
           \A c \in Cmd : /\ phase[c] = "none" <=> phase'[c] = "none"
                          /\ Terminal(c) => Terminal(c)'
                          /\ obligation[c] # "none" => obligation'[c] # "none"
    PROVE  TakeoverInv'
<1> USE DEF TypeOK, TakeoverInv
<1>1. FenceInv'  BY DEF FenceInv
<1>2. OneRunsInLoop'  BY DEF OneRunsInLoop
<1>3. /\ Obliged \subseteq Obliged'
      /\ \A c \in Cmd : LowerLive(c)' = LowerLive(c) /\ LowerAgents(c)' = LowerAgents(c)
  BY DEF Obliged, LowerLive, LowerAgents, LeaderRuns, Agent
<1>4. HandlerInv'  BY <1>3 DEF HandlerInv
<1>5. OwnerInv'  BY <1>3 DEF OwnerInv
<1> QED  BY <1>1, <1>2, <1>4, <1>5

\* A step keeps what a handler has established of the older owners between its
\* awaits, whatever the other requests and the processes do meanwhile.
LEMMA TakeoverStep == IInv /\ TypeOK' /\ [Next]_vars => TakeoverInv'
<1> SUFFICES ASSUME IInv, TypeOK', [Next]_vars PROVE TakeoverInv'
  OBVIOUS
<1> USE DEF IInv, TypeOK, Phases, Bodies, GoneBodies, Procs, Stages, durable,
    memory, handlers, vars, TakeoverInv, FenceInv, OneRunsInLoop, HandlerInv,
    OwnerInv, Agent, LeaderRuns, Terminal, LowerLive, LowerAgents, Obliged,
    ReceiptInv, StageInv, SettlingInv, OwnershipInv, ProcessInv,
    ReleasedIsGone, AgentIsObliged, CreateStages
<1>1. ASSUME NEW r \in Req, Handle(r) PROVE TakeoverInv'
  <2>1. CASE Refuse(r)
    BY <2>1 DEF Refuse, Finish, LoopFree, UnknownSession, FenceRejects
  <2>2. CASE Arrive(r)
    <3>1. FenceInv'
      BY <2>2 DEF Arrive, StartReconcile, LowerEpochSessions, LoopFree, UnknownSession, FenceRejects, ReleaseAndSettle, NeedsInspection, Inspectable, LostWith
    <3>2. OneRunsInLoop'
      BY <2>2 DEF Arrive, StartReconcile, LowerEpochSessions, LoopFree, UnknownSession, FenceRejects, ReleaseAndSettle, NeedsInspection, Inspectable, LostWith
    <3>3. HandlerInv'
      BY <2>2 DEF Arrive, StartReconcile, LowerEpochSessions, LoopFree, UnknownSession, FenceRejects, ReleaseAndSettle, NeedsInspection, Inspectable, LostWith
    <3>4. OwnerInv'
      BY <2>2 DEF Arrive, StartReconcile, LowerEpochSessions, LoopFree, UnknownSession, FenceRejects, ReleaseAndSettle, NeedsInspection, Inspectable, LostWith
    <3> QED  BY <3>1, <3>2, <3>3, <3>4
  <2>3. ASSUME NEW s \in Cmd, EvictSignal(r, s) PROVE TakeoverInv'
    BY <2>3 DEF EvictSignal, LoopFree
  <2>4. CASE EvictConfirmed(r)
    <3>1. FenceInv'
      BY <2>4 DEF EvictConfirmed, StartReconcile, Retired, LoopFree, ReleaseAndSettle, NeedsInspection, Inspectable, LostWith
    <3>2. OneRunsInLoop'
      BY <2>4 DEF EvictConfirmed, StartReconcile, Retired, LoopFree, ReleaseAndSettle, NeedsInspection, Inspectable, LostWith
    <3>3. HandlerInv'
      BY <2>4 DEF EvictConfirmed, StartReconcile, Retired, LoopFree, ReleaseAndSettle, NeedsInspection, Inspectable, LostWith
    <3>4. OwnerInv'
      BY <2>4 DEF EvictConfirmed, StartReconcile, Retired, LoopFree, ReleaseAndSettle, NeedsInspection, Inspectable, LostWith
    <3> QED  BY <3>1, <3>2, <3>3, <3>4
  <2>5. CASE EvictTimeout(r)
    BY <2>5 DEF EvictTimeout, Finish, LoopFree
  <2>6. ASSUME NEW s \in Cmd, ReconcilePass(r, s) PROVE TakeoverInv'
    BY <2>6 DEF ReconcilePass, Inspectable, LoopFree
  <2>7. ASSUME NEW s \in Cmd, ReconcileOne(r, s) PROVE TakeoverInv'
    <3>1. FenceInv'
      BY <2>7 DEF ReconcileOne, ReleaseAndSettle, Settleable, Provable, Retired, LoopFree, LostWith
    <3>2. OneRunsInLoop'
      BY <2>7 DEF ReconcileOne, ReleaseAndSettle, Settleable, Provable, Retired, LoopFree, LostWith
    <3>3. HandlerInv'
      BY <2>7 DEF ReconcileOne, ReleaseAndSettle, Settleable, Provable, Retired, LoopFree, LostWith
    <3>4. OwnerInv'
      BY <2>7 DEF ReconcileOne, ReleaseAndSettle, Settleable, Provable, Retired, LoopFree, LostWith
    <3> QED  BY <3>1, <3>2, <3>3, <3>4
  <2>8. CASE ReconcileDone(r)
    BY <2>8 DEF ReconcileDone, ReleaseAndSettle, NeedsInspection, LoopFree,
      Inspectable, LostWith
  <2>9. CASE ReconcileRefused(r)
    BY <2>9 DEF ReconcileRefused, Finish, NeedsInspection, LoopFree,
      Inspectable
  <2>10. CASE Replay(r)
    BY <2>10 DEF Replay, Finish, InFlight, PromptBusy, Unsettled
  <2>11. CASE TurnLost(r)
    BY <2>11 DEF TurnLost, Finish, WriteReceipt, InFlight, Unsettled
  <2>12. CASE RunFresh(r)
    <3>1. FenceInv'
      <4>1. Epoch[CmdOf[r]] <= fence.epoch /\ fence' = fence
        BY <2>12 DEF RunFresh
      <4>2. phase' = [phase EXCEPT ![CmdOf[r]] = "accepted"]
        BY <2>12 DEF RunFresh, WriteReceipt
      <4>3. pc' = [pc EXCEPT ![r] = "done"]
        BY <2>12 DEF RunFresh, Finish
      <4> QED  BY <4>1, <4>2, <4>3
    <3>2. OneRunsInLoop'
      BY <2>12 DEF RunFresh, Finish, WriteReceipt, FirstStage, InFlight,
        PromptBusy
    <3>3. HandlerInv'
      BY <2>12 DEF RunFresh, Finish, WriteReceipt, FirstStage, InFlight,
        PromptBusy
    <3>4. OwnerInv'
      BY <2>12 DEF RunFresh, Finish, WriteReceipt, FirstStage, InFlight,
        PromptBusy
    <3> QED  BY <3>1, <3>2, <3>3, <3>4
  <2>13. CASE AdmissionRefused(r)
    BY <2>13 DEF AdmissionRefused, Finish
  <2> QED  BY <1>1, <2>1, <2>2, <2>3, <2>4, <2>5, <2>6, <2>7, <2>8, <2>9,
           <2>10, <2>11, <2>12, <2>13 DEF Handle
<1>2. ASSUME NEW c \in Cmd, Create(c) PROVE TakeoverInv'
  <2>1. CASE CreateUnstarted(c)
    BY <2>1 DEF CreateUnstarted, Settle, LoopFree, WriteReceipt
  <2>2. CASE Spawn(c)
    <3>1. FenceInv'
      BY <2>2 DEF Spawn, HoldsFence, LoopFree
    <3>2. OneRunsInLoop'
      BY <2>2 DEF Spawn, HoldsFence, LoopFree
    <3>3. HandlerInv'
      BY <2>2 DEF Spawn, HoldsFence, LoopFree
    <3>4. OwnerInv'
      BY <2>2 DEF Spawn, HoldsFence, LoopFree
    <3> QED  BY <3>1, <3>2, <3>3, <3>4
  <2>3. CASE SpawnUnregistered(c)
    <3>1. FenceInv'
      BY <2>3 DEF SpawnUnregistered, HoldsFence, LoopFree
    <3>2. OneRunsInLoop'
      BY <2>3 DEF SpawnUnregistered, HoldsFence, LoopFree
    <3>3. HandlerInv'
      BY <2>3 DEF SpawnUnregistered, HoldsFence, LoopFree
    <3>4. OwnerInv'
      BY <2>3 DEF SpawnUnregistered, HoldsFence, LoopFree
    <3> QED  BY <3>1, <3>2, <3>3, <3>4
  <2>4. CASE Authorize(c)
    BY <2>4 DEF Authorize, HoldsFence, LoopFree
  <2>5. CASE GateFails(c)
    BY <2>5 DEF GateFails, LoopFree
  <2>6. CASE ExecutionStarted(c)
    BY <2>6 DEF ExecutionStarted, LoopFree
  <2>7. CASE HandshakeOk(c)
    BY <2>7 DEF HandshakeOk, Settle, LoopFree, WriteReceipt
  <2>8. CASE HandshakeFails(c)
    BY <2>8 DEF HandshakeFails, LoopFree
  <2>9. CASE CreateAborts(c)
    BY <2>9 DEF CreateAborts, Settle, LoopFree, WriteReceipt
  <2>10. CASE TeardownConfirmed(c)
    BY <2>10 DEF TeardownConfirmed, Settle, Released, Retired, LoopFree,
      WriteReceipt
  <2>11. CASE TeardownTimeout(c)
    BY <2>11 DEF TeardownTimeout, Settle, LoopFree, WriteReceipt
  <2>12. CASE ObserveExit(c)
    BY <2>12 DEF ObserveExit, LoopFree, Unsettled
  <2>13. CASE SettleRetiredCreate(c)
    <3>1. FenceInv'
      BY <2>13 DEF SettleRetiredCreate, WriteReceipt, Released, Retired, LoopFree
    <3>2. OneRunsInLoop'
      BY <2>13 DEF SettleRetiredCreate, WriteReceipt, Released, Retired, LoopFree
    <3>3. HandlerInv'
      BY <2>13 DEF SettleRetiredCreate, WriteReceipt, Released, Retired, LoopFree
    <3>4. OwnerInv'
      BY <2>13 DEF SettleRetiredCreate, WriteReceipt, Released, Retired, LoopFree
    <3> QED  BY <3>1, <3>2, <3>3, <3>4
  <2>14. CASE SpawnAborts(c)
    <3>1. FenceInv'
      BY <2>14 DEF SpawnAborts, Settle, HoldsFence, LoopFree, WriteReceipt
    <3>2. OneRunsInLoop'
      BY <2>14 DEF SpawnAborts, Settle, HoldsFence, LoopFree, WriteReceipt
    <3>3. HandlerInv'
      BY <2>14 DEF SpawnAborts, Settle, HoldsFence, LoopFree, WriteReceipt
    <3>4. OwnerInv'
      BY <2>14 DEF SpawnAborts, Settle, HoldsFence, LoopFree, WriteReceipt
    <3> QED  BY <3>1, <3>2, <3>3, <3>4
  <2> QED  BY <1>2, <2>1, <2>2, <2>3, <2>4, <2>5, <2>6, <2>7, <2>8, <2>9,
           <2>10, <2>11, <2>12, <2>13, <2>14 DEF Create
<1>3. ASSUME NEW c \in Cmd, Run(c) PROVE TakeoverInv'
  <2> DEFINE Settling ==
        /\ UNCHANGED <<fence, proc, registry, pc, todo>>
        /\ \A d \in Cmd : /\ phase[d] = "none" <=> phase'[d] = "none"
                          /\ Terminal(d) => Terminal(d)'
                          /\ obligation[d] # "none" => obligation'[d] # "none"
  <2>1. CASE PromptEnds(c)
    <3> Settling  BY <2>1 DEF PromptEnds, WriteReceipt
    <3> QED  BY SettlingKeepsTakeover
  <2>2. CASE DeleteConfirmed(c)
    <3>1. CASE Unsettled(Target[c])
      <4> Settling  BY <2>2, <3>1 DEF DeleteConfirmed
      <4> QED  BY SettlingKeepsTakeover
    <3>2. CASE ~Unsettled(Target[c])
      <4> Settling  BY <2>2, <3>2 DEF DeleteConfirmed, Settle, Released, WriteReceipt
      <4> QED  BY SettlingKeepsTakeover
    <3> QED  BY <3>1, <3>2
  <2>3. CASE DeleteSettles(c)
    <3> Settling  BY <2>3 DEF DeleteSettles, Released
    <3> QED  BY SettlingKeepsTakeover
  <2>4. CASE DeleteTimeout(c)
    <3> Settling  BY <2>4 DEF DeleteTimeout, Settle, WriteReceipt
    <3> QED  BY SettlingKeepsTakeover
  <2>5. CASE WorkEnds(c)
    <3> Settling  BY <2>5 DEF WorkEnds, Settle, WriteReceipt
    <3> QED  BY SettlingKeepsTakeover
  <2>6. CASE Lookup(c)
    <3> Settling  BY <2>6 DEF Lookup, ReleaseAndSettle, Settleable, LostWith
    <3> QED  BY SettlingKeepsTakeover
  <2> QED  BY <1>3, <2>1, <2>2, <2>3, <2>4, <2>5, <2>6 DEF Run
<1>4. ASSUME NEW s \in Cmd, Os(s) PROVE TakeoverInv'
  <2>1. CASE AdapterStarts(s)
    BY <2>1 DEF AdapterStarts
  <2>2. CASE LeaderExits(s)
    BY <2>2 DEF LeaderExits
  <2>3. CASE GroupEnds(s)
    BY <2>3 DEF GroupEnds
  <2>4. CASE RegistryExpire(s)
    BY <2>4 DEF RegistryExpire, LoopFree
  <2> QED  BY <1>4, <2>1, <2>2, <2>3, <2>4 DEF Os
<1>5. CASE Crash
  BY <1>5 DEF Crash, LoseMemory
<1>6. CASE OsReboot
  BY <1>6 DEF OsReboot, LoseMemory
<1>7. CASE Boot
  <2>1. UNCHANGED <<fence, proc, registry, pc, todo>>  BY <1>7 DEF Boot
  <2>2. \A c \in Cmd : /\ phase[c] = "none" <=> phase'[c] = "none"
                       /\ Terminal(c) => Terminal(c)'
                       /\ obligation[c] # "none" => obligation'[c] # "none"
    BY <1>7 DEF Boot
  <2> QED  BY <2>1, <2>2, SettlingKeepsTakeover
<1>8. CASE UNCHANGED vars
  BY <1>8
<1> QED  BY <1>1, <1>2, <1>3, <1>4, <1>5, <1>6, <1>7, <1>8 DEF Next

-----------------------------------------------------------------------------
\* A released owner stays released, and a turn that is settled in flight keeps
\* its receipt until its own end, if both hold of what one step writes.
LEMMA LostTurnKept ==
    ASSUME IInv,
           \A c \in Cmd : stage'[c] = "turn" =>
               stage[c] = "turn" \/ phase'[c] = "accepted",
           \A c \in Cmd : stage'[c] = "turn" =>
               \/ phase'[c] = phase[c] /\ body'[c] = body[c]
               \/ phase'[c] = "accepted"
               \/ body'[c] = "turn_lost" /\ obligation'[Target[c]] = "released",
           \A s \in Cmd : obligation[s] = "released" => obligation'[s] = "released"
    PROVE  LostTurnInv'
<1> SUFFICES ASSUME NEW c \in Cmd, LostInFlight(c)'
             PROVE  body'[c] = "turn_lost" /\ obligation'[Target[c]] = "released"
  BY DEF LostTurnInv
<1>1. stage'[c] = "turn" /\ phase'[c] = "rejected"  BY DEF LostInFlight
<1>2. stage[c] = "turn" /\ Target[c] \in Cmd
  BY <1>1 DEF IInv, ReceiptInv, StageInv
<1> QED  BY <1>1, <1>2 DEF IInv, LostTurnInv, LostInFlight

\* recoverReleasedSessionProcess settles a prompt in flight only as lost, with
\* the process it releases.
LEMMA ReleaseKeepsLostTurns ==
    ASSUME IInv, NEW S, S \subseteq Obliged, ReleaseAndSettle(S), UNCHANGED stage
    PROVE  LostTurnInv'
<1>1. ASSUME NEW c \in Cmd, stage[c] = "turn"
      PROVE  \/ phase'[c] = phase[c] /\ body'[c] = body[c]
             \/ body'[c] = "turn_lost" /\ obligation'[Target[c]] = "released"
  <2>1. Kind[c] = "prompt" /\ Target[c] \in Cmd
    BY <1>1 DEF IInv, ReceiptInv, StageInv
  <2>2. c \notin S
    BY <2>1 DEF Obliged, IInv, OwnershipInv, ProcessInv
  <2>3. CASE ~LostWith(S, c)
    BY <2>3 DEF ReleaseAndSettle, IInv, TypeOK
  <2>4. CASE LostWith(S, c)
    BY <2>1, <2>2, <2>4 DEF ReleaseAndSettle, LostWith, IInv, TypeOK
  <2> QED  BY <2>3, <2>4
<1>2. \A s \in Cmd : obligation[s] = "released" => obligation'[s] = "released"
  BY DEF ReleaseAndSettle, IInv, TypeOK
<1> QED  BY <1>1, <1>2, LostTurnKept

\* Every step keeps the reason of a turn settled in flight.
LEMMA LostTurnStep == IInv /\ TypeOK' /\ [Next]_vars => LostTurnInv'
<1> SUFFICES ASSUME IInv, TypeOK', [Next]_vars PROVE LostTurnInv'
  OBVIOUS
<1>0. ASSUME UNCHANGED <<stage, phase, body, obligation>> PROVE LostTurnInv'
  BY <1>0 DEF IInv, LostTurnInv, LostInFlight
<1> USE LostTurnKept DEF durable, memory, handlers, vars
<1>1. ASSUME NEW r \in Req, Handle(r) PROVE LostTurnInv'
  <2> DEFINE done == {s \in Obliged : obligation[s] = "released"}
  <2>0. ASSUME StartReconcile(r), UNCHANGED stage PROVE LostTurnInv'
    <3>1. done \subseteq Obliged  OBVIOUS
    <3>2. \/ UNCHANGED <<phase, body, obligation>>
          \/ ReleaseAndSettle(done)
      BY <2>0 DEF StartReconcile
    <3> QED  BY <1>0, <2>0, <3>1, <3>2, ReleaseKeepsLostTurns
  <2>1. CASE Arrive(r)
    <3>1. UNCHANGED stage  BY <2>1 DEF Arrive
    <3>2. UNCHANGED <<phase, body, obligation>> \/ StartReconcile(r)
      BY <2>1 DEF Arrive
    <3> QED  BY <1>0, <2>0, <3>1, <3>2
  <2>2. CASE EvictConfirmed(r)
    <3>1. UNCHANGED stage  BY <2>2 DEF EvictConfirmed
    <3>2. UNCHANGED <<phase, body, obligation>> \/ StartReconcile(r)
      BY <2>2 DEF EvictConfirmed
    <3> QED  BY <1>0, <2>0, <3>1, <3>2
  <2>3. ASSUME NEW s \in Cmd, ReconcileOne(r, s) PROVE LostTurnInv'
    <3>1. {s} \subseteq Obliged  BY <2>3 DEF ReconcileOne, Settleable
    <3> QED  BY <2>3, <3>1, ReleaseKeepsLostTurns DEF ReconcileOne
  <2>4. CASE ReconcileDone(r)
    <3>1. {s \in todo[r] : obligation[s] = "released"} \subseteq Obliged
      BY DEF Obliged, IInv, TypeOK
    <3> QED  BY <2>4, <3>1, ReleaseKeepsLostTurns DEF ReconcileDone
  <2>5. CASE TurnLost(r)
    <3>1. stage[CmdOf[r]] = "idle"  BY <2>5 DEF TurnLost, InFlight
    <3> QED  BY <2>5, <3>1 DEF TurnLost, WriteReceipt, IInv, TypeOK
  <2>6. CASE RunFresh(r)
    BY <2>6 DEF RunFresh, WriteReceipt, IInv, TypeOK, InFlight
  <2>7. CASE \/ Refuse(r) \/ EvictTimeout(r) \/ ReconcileRefused(r)
             \/ Replay(r) \/ AdmissionRefused(r)
    BY <1>0, <2>7 DEF Refuse, EvictTimeout, ReconcileRefused, Replay, AdmissionRefused
  <2>8. ASSUME NEW s \in Cmd, EvictSignal(r, s) \/ ReconcilePass(r, s)
        PROVE  LostTurnInv'
    BY <1>0, <2>8 DEF EvictSignal, ReconcilePass
  <2> QED  BY <1>1, <2>1, <2>2, <2>3, <2>4, <2>5, <2>6, <2>7, <2>8 DEF Handle
<1>2. ASSUME NEW c \in Cmd, Create(c) PROVE LostTurnInv'
  <2> USE DEF IInv, TypeOK
  <2>1. CASE CreateUnstarted(c) \/ HandshakeOk(c)
    BY <2>1 DEF CreateUnstarted, HandshakeOk, Settle, WriteReceipt
  <2>2. CASE Spawn(c)
    <3>1. obligation[c] = "none"  BY <2>2 DEF Spawn, ReceiptInv, StageInv
    <3> QED  BY <2>2, <3>1 DEF Spawn
  <2>3. CASE SpawnUnregistered(c) \/ GateFails(c) \/ ExecutionStarted(c)
             \/ HandshakeFails(c)
    BY <2>3 DEF SpawnUnregistered, GateFails, ExecutionStarted, HandshakeFails
  <2>4. CASE Authorize(c) \/ ObserveExit(c)
    BY <1>0, <2>4 DEF Authorize, ObserveExit
  <2>5. CASE SpawnAborts(c)
    BY <2>5 DEF SpawnAborts, Settle, WriteReceipt
  <2>6. CASE CreateAborts(c)
    BY <2>6 DEF CreateAborts, Settle, WriteReceipt
  <2>7. CASE TeardownConfirmed(c)
    BY <2>7 DEF TeardownConfirmed, Released, Settle, WriteReceipt
  <2>8. CASE TeardownTimeout(c)
    BY <2>8 DEF TeardownTimeout, Settle, WriteReceipt
  <2>9. CASE SettleRetiredCreate(c)
    <3>1. stage[c] = "idle"  BY <2>9 DEF SettleRetiredCreate, ReceiptInv, SettlingInv
    <3> QED  BY <2>9, <3>1 DEF SettleRetiredCreate, Released, WriteReceipt
  <2> QED  BY <1>2, <2>1, <2>2, <2>3, <2>4, <2>5, <2>6, <2>7, <2>8, <2>9 DEF Create
<1>3. ASSUME NEW c \in Cmd, Run(c) PROVE LostTurnInv'
  <2> USE DEF IInv, TypeOK
  <2>1. CASE PromptEnds(c)
    <3>1. \A d \in Cmd \ {c} : /\ stage'[d] = stage[d] /\ phase'[d] = phase[d]
                               /\ body'[d] = body[d]
      BY <2>1 DEF PromptEnds, WriteReceipt
    <3>2. stage'[c] = "idle" /\ UNCHANGED obligation  BY <2>1 DEF PromptEnds
    <3> QED  BY <3>1, <3>2
  <2>2. CASE DeleteConfirmed(c)
    BY <2>2 DEF DeleteConfirmed, Released, Settle, WriteReceipt
  <2>3. CASE DeleteSettles(c)
    <3>1. stage[Target[c]] = "idle"  BY <2>3 DEF DeleteSettles, ReceiptInv, SettlingInv
    <3> QED  BY <2>3, <3>1 DEF DeleteSettles, Released
  <2>4. CASE DeleteTimeout(c)
    BY <2>4 DEF DeleteTimeout, Settle, WriteReceipt
  <2>5. CASE WorkEnds(c)
    BY <2>5 DEF WorkEnds, Settle, WriteReceipt
  <2>6. CASE Lookup(c)
    <3>1. PICK S \in SUBSET Obliged : ReleaseAndSettle(S)
      BY <2>6 DEF Lookup, Settleable
    <3> QED  BY <2>6, <3>1, ReleaseKeepsLostTurns DEF Lookup
  <2> QED  BY <1>3, <2>1, <2>2, <2>3, <2>4, <2>5, <2>6 DEF Run
<1>4. ASSUME NEW s \in Cmd, Os(s) PROVE LostTurnInv'
  BY <1>0, <1>4 DEF Os, AdapterStarts, LeaderExits, GroupEnds, RegistryExpire
<1>5. CASE Crash \/ OsReboot
  <2>1. \A c \in Cmd : stage'[c] = "idle"  BY <1>5 DEF Crash, OsReboot, LoseMemory
  <2> QED  BY <2>1 DEF LostTurnInv, LostInFlight
<1>6. CASE Boot
  <2>1. \A c \in Cmd : stage'[c] = "idle"
    BY <1>6 DEF Boot, IInv, ReceiptInv, DownInv
  <2> QED  BY <2>1 DEF LostTurnInv, LostInFlight
<1>7. CASE UNCHANGED vars
  BY <1>0, <1>7
<1> QED  BY <1>1, <1>2, <1>3, <1>4, <1>5, <1>6, <1>7 DEF Next

-----------------------------------------------------------------------------
\* The invariant holds of a host that has seen no command.
LEMMA InvInit == Init => IInv
<1> SUFFICES ASSUME Init PROVE IInv
  OBVIOUS
<1> USE DEF Init
<1>1. TypeOK
  BY DEF TypeOK, Phases, Bodies, GoneBodies, Procs, Stages
<1>2. ReceiptInv
  BY DEF ReceiptInv, ExecutedIffReceipt, StageInv, DownInv, SettlingInv, CreateStages
<1>3. OwnershipInv
  BY DEF OwnershipInv, ProcessInv, ReleasedIsGone, AgentIsObliged,
    ProofMeansGone, Agent, GoneBodies
<1>4. TakeoverInv
  BY DEF TakeoverInv, FenceInv, OneRunsInLoop, HandlerInv, OwnerInv
<1>5. LostTurnInv
  BY DEF LostTurnInv, LostInFlight
<1> QED  BY <1>1, <1>2, <1>3, <1>4, <1>5 DEF IInv

\* Every step, crashes included, preserves the invariant.
LEMMA InvStep == IInv /\ [Next]_vars => IInv'
<1> SUFFICES ASSUME IInv, [Next]_vars PROVE IInv'
  OBVIOUS
<1>1. TypeOK'  BY TypeStep DEF IInv
<1> QED  BY <1>1, ReceiptStep, OwnershipStep, TakeoverStep, LostTurnStep DEF IInv

\* The inductive invariant holds of every reachable state.
THEOREM Invariance == Spec => []IInv
BY InvInit, InvStep, PTL DEF Spec

\* E-EH-05: a command id begins to execute at most once, whatever is
\* redelivered, joined or lost in a crash (command-receipts.ts execute).
THEOREM ExecutesAtMostOnce == Spec => []AtMostOnce
<1>1. IInv => AtMostOnce
  BY DEF IInv, ReceiptInv, ExecutedIffReceipt, AtMostOnce
<1> QED  BY <1>1, Invariance, PTL

\* Two agents of a run never work under different assignment epochs: the fence
\* read by the gate and the retirement of older owners exclude it.
THEOREM ExclusiveEpoch == Spec => []OneOwningEpoch
<1>1. IInv => OneOwningEpoch
  <2> SUFFICES ASSUME IInv, NEW s \in Cmd, NEW t \in Cmd, Agent(s), Agent(t)
               PROVE Epoch[s] = Epoch[t]
    BY DEF OneOwningEpoch
  <2>1. phase[s] # "none" /\ phase[t] # "none"
    BY DEF IInv, OwnershipInv, ProcessInv, Agent
  <2>2. ~(Epoch[s] < Epoch[t]) /\ ~(Epoch[t] < Epoch[s])
    BY <2>1 DEF IInv, TakeoverInv, OwnerInv, LowerAgents
  <2> QED  BY <2>2
<1> QED  BY <1>1, Invariance, PTL

\* A quiescence proof in a receipt (settleRetiredSessionCreate, the teardown of
\* a failed start) is true of the processes.
THEOREM OwnershipEvidence == Spec => []ProofMeansGone
<1>1. IInv => ProofMeansGone
  BY DEF IInv, OwnershipInv
<1> QED  BY <1>1, Invariance, PTL

\* Every agent is covered by a durable obligation (registerSessionProcess), so
\* that a later epoch waits for it after a restart too.
THEOREM AgentsAreObliged == Spec => []AgentIsObliged
<1>1. IInv => AgentIsObliged
  BY DEF IInv, OwnershipInv
<1> QED  BY <1>1, Invariance, PTL

\* An owner is released only when no process of its group is left, whichever
\* teardown, delete, reconciliation, lookup, boot or reboot releases it
\* (host-state.ts releaseSessionProcess and its callers).
THEOREM ReleasesAreFinal == Spec => []ReleasedIsGone
<1>1. IInv => ReleasedIsGone
  BY DEF IInv, OwnershipInv
<1> QED  BY <1>1, Invariance, PTL

-----------------------------------------------------------------------------
\* What any step but a begin or a start of an agent does: agents may end, a
\* running or lost command may settle, a running prompt may be taken for lost.
Quiet ==
    /\ {s \in Cmd : Agent(s)}' \subseteq {s \in Cmd : Agent(s)}
    /\ \A c \in Cmd : \/ Outcome(c)' = Outcome(c)
                      \/ /\ Outcome(c) \in {"running", "lost"}
                         /\ Outcome(c)' \in {"succeeded", "failed"}
                      \/ /\ Kind[c] = "prompt" /\ Outcome(c) = "running"
                         /\ Outcome(c)' = "lost"

\* A step that only ends commands or agents is a settling step of RunOwner.
LEMMA QuietSettles ==
    ASSUME Quiet
    PROVE  Owner!EndsAndSettlements
<1>1. [c \in Cmd |-> Outcome(c)]' \in [Cmd -> Owner!Outcomes]
  BY DEF Outcome, Owner!Outcomes
<1>2. \A c \in Cmd : /\ [d \in Cmd |-> Outcome(d)]'[c] = Outcome(c)'
                     /\ [d \in Cmd |-> Outcome(d)][c] = Outcome(c)
  OBVIOUS
<1> QED  BY <1>1, <1>2 DEF Quiet, Owner!EndsAndSettlements, Prompts

\* A command begins when its handler finds no receipt, after the older agents
\* are gone.
LEMMA FreshBegins ==
    ASSUME IInv, NEW r \in Req, RunFresh(r)
    PROVE  Owner!Begin(CmdOf[r])
<1> DEFINE c == CmdOf[r]
<1>1. c \in Cmd /\ Outcome(c) = "none"
  BY DEF RunFresh, Outcome
<1>2. \A s \in {s \in Cmd : Agent(s)} : Epoch[c] <= Epoch[s]
  BY <1>1 DEF IInv, TakeoverInv, HandlerInv, LowerAgents, Terminal, RunFresh
<1>3. {s \in Cmd : Agent(s)}' = {s \in Cmd : Agent(s)}
  BY DEF RunFresh, Agent
<1>4. [d \in Cmd |-> Outcome(d)]' = [[d \in Cmd |-> Outcome(d)] EXCEPT ![c] = "running"]
  BY <1>1 DEF RunFresh, WriteReceipt, Outcome, LostInFlight, IInv, TypeOK
<1> QED  BY <1>1, <1>2, <1>3, <1>4 DEF Owner!Begin

\* The gate is told to execute only while its create owns the fence.
LEMMA AuthorizeStarts ==
    ASSUME IInv, NEW c \in Cmd, Authorize(c)
    PROVE  Owner!StartAgent(c)
<1>1. Outcome(c) = "running"
  BY DEF Authorize, Outcome, LostInFlight, IInv, ReceiptInv, StageInv, OwnershipInv, ProcessInv
<1>2. \A d \in Cmd : Outcome(d) # "none" => Epoch[d] <= Epoch[c]
  BY DEF Authorize, HoldsFence, Outcome, IInv, TakeoverInv, FenceInv
<1>3. {s \in Cmd : Agent(s)}' = {s \in Cmd : Agent(s)} \cup {c}
  BY DEF Authorize, Agent, IInv, TypeOK
<1>4. [d \in Cmd |-> Outcome(d)]' = [d \in Cmd |-> Outcome(d)]
  BY DEF Authorize, Outcome, LostInFlight, durable
<1> QED  BY <1>1, <1>2, <1>3, <1>4 DEF Owner!StartAgent

\* Every step of the host is a step of RunOwner or changes nothing it can see.
LEMMA RefineStep == IInv /\ [Next]_vars => [Owner!Next]_(Owner!vars)
<1> SUFFICES ASSUME IInv, [Next]_vars PROVE [Owner!Next]_(Owner!vars)
  OBVIOUS
<1> USE DEF IInv, TypeOK, Phases, Bodies, GoneBodies, Procs, Stages, durable,
    memory, handlers, vars, ReceiptInv, StageInv, SettlingInv, DownInv,
    OwnershipInv, ProcessInv, ReleasedIsGone, CreateStages, Quiet, Outcome, LostInFlight, Agent, Retired
<1>0. ASSUME Quiet PROVE Owner!Next
  BY <1>0, QuietSettles DEF Owner!Next
<1>1. ASSUME NEW r \in Req, Handle(r) PROVE Owner!Next
  <2>1. CASE Refuse(r)
    <3> Quiet
      BY <2>1 DEF Refuse, Finish, LoopFree, UnknownSession, FenceRejects
    <3> QED  BY <1>0
  <2>2. CASE Arrive(r)
    <3> Quiet
      BY <2>2 DEF Arrive, StartReconcile, LowerEpochSessions, Terminal,
        LoopFree, UnknownSession, FenceRejects, LeaderRuns, ReleaseAndSettle,
        Obliged, NeedsInspection, Inspectable, LostWith
    <3> QED  BY <1>0
  <2>3. ASSUME NEW s \in Cmd, EvictSignal(r, s) PROVE Owner!Next
    <3> Quiet
      BY <2>3 DEF EvictSignal, LoopFree
    <3> QED  BY <1>0
  <2>4. CASE EvictConfirmed(r)
    <3> Quiet
      BY <2>4 DEF EvictConfirmed, StartReconcile, LoopFree, ReleaseAndSettle,
        Obliged, NeedsInspection, Inspectable, LeaderRuns, LostWith
    <3> QED  BY <1>0
  <2>5. CASE EvictTimeout(r)
    <3> Quiet
      BY <2>5 DEF EvictTimeout, Finish, LoopFree
    <3> QED  BY <1>0
  <2>6. ASSUME NEW s \in Cmd, ReconcilePass(r, s) PROVE Owner!Next
    <3> Quiet
      BY <2>6 DEF ReconcilePass, Inspectable, LoopFree, LeaderRuns
    <3> QED  BY <1>0
  <2>7. ASSUME NEW s \in Cmd, ReconcileOne(r, s) PROVE Owner!Next
    <3> obligation[s] # "none"  BY <2>7 DEF ReconcileOne, Settleable, Obliged
    <3> Quiet
      BY <2>7 DEF ReconcileOne, ReleaseAndSettle, LoopFree, LostWith
    <3> QED  BY <1>0
  <2>8. CASE ReconcileDone(r)
    <3> Quiet
      BY <2>8 DEF ReconcileDone, ReleaseAndSettle, NeedsInspection, LoopFree,
        Inspectable, LeaderRuns, LostWith
    <3> QED  BY <1>0
  <2>9. CASE ReconcileRefused(r)
    <3> Quiet
      BY <2>9 DEF ReconcileRefused, Finish, NeedsInspection, LoopFree,
        Inspectable, LeaderRuns
    <3> QED  BY <1>0
  <2>10. CASE Replay(r)
    <3> Quiet
      BY <2>10 DEF Replay, Finish, InFlight, Terminal, PromptBusy, Unsettled
    <3> QED  BY <1>0
  <2>11. CASE TurnLost(r)
    <3> Quiet
      BY <2>11 DEF TurnLost, Finish, WriteReceipt, InFlight, Unsettled
    <3> QED  BY <1>0
  <2>12. CASE RunFresh(r)
    BY <2>12, FreshBegins DEF Owner!Next
  <2>13. CASE AdmissionRefused(r)
    <3> Quiet
      BY <2>13 DEF AdmissionRefused, Finish
    <3> QED  BY <1>0
  <2> QED  BY <1>1, <2>1, <2>2, <2>3, <2>4, <2>5, <2>6, <2>7, <2>8, <2>9,
           <2>10, <2>11, <2>12, <2>13 DEF Handle
<1>2. ASSUME NEW c \in Cmd, Create(c) PROVE Owner!Next
  <2>1. CASE CreateUnstarted(c)
    <3> Quiet
      BY <2>1 DEF CreateUnstarted, Settle, LoopFree, WriteReceipt
    <3> QED  BY <1>0
  <2>2. CASE Spawn(c)
    <3> Quiet
      BY <2>2 DEF Spawn, HoldsFence, LoopFree
    <3> QED  BY <1>0
  <2>3. CASE SpawnUnregistered(c)
    <3> Quiet
      BY <2>3 DEF SpawnUnregistered, HoldsFence, LoopFree
    <3> QED  BY <1>0
  <2>4. CASE Authorize(c)
    BY <2>4, AuthorizeStarts DEF Owner!Next
  <2>5. CASE GateFails(c)
    <3> Quiet
      BY <2>5 DEF GateFails, LoopFree
    <3> QED  BY <1>0
  <2>6. CASE ExecutionStarted(c)
    <3> Quiet
      BY <2>6 DEF ExecutionStarted, LoopFree
    <3> QED  BY <1>0
  <2>7. CASE HandshakeOk(c)
    <3> Quiet
      BY <2>7 DEF HandshakeOk, Settle, LoopFree, WriteReceipt
    <3> QED  BY <1>0
  <2>8. CASE HandshakeFails(c)
    <3> Quiet
      BY <2>8 DEF HandshakeFails, LoopFree
    <3> QED  BY <1>0
  <2>9. CASE CreateAborts(c)
    <3> Quiet
      BY <2>9 DEF CreateAborts, Settle, LoopFree, WriteReceipt
    <3> QED  BY <1>0
  <2>10. CASE TeardownConfirmed(c)
    <3> Quiet
      BY <2>10 DEF TeardownConfirmed, Settle, Released, LoopFree, WriteReceipt
    <3> QED  BY <1>0
  <2>11. CASE TeardownTimeout(c)
    <3> Quiet
      BY <2>11 DEF TeardownTimeout, Settle, LoopFree, WriteReceipt
    <3> QED  BY <1>0
  <2>12. CASE ObserveExit(c)
    <3> Quiet
      BY <2>12 DEF ObserveExit, LeaderRuns, LoopFree, Unsettled
    <3> QED  BY <1>0
  <2>13. CASE SettleRetiredCreate(c)
    <3> Quiet
      BY <2>13 DEF SettleRetiredCreate, WriteReceipt, Released, LoopFree
    <3> QED  BY <1>0
  <2>14. CASE SpawnAborts(c)
    <3> Quiet
      BY <2>14 DEF SpawnAborts, Settle, HoldsFence, LoopFree, WriteReceipt
    <3> QED  BY <1>0
  <2> QED  BY <1>2, <2>1, <2>2, <2>3, <2>4, <2>5, <2>6, <2>7, <2>8, <2>9,
           <2>10, <2>11, <2>12, <2>13, <2>14 DEF Create
<1>3. ASSUME NEW c \in Cmd, Run(c) PROVE Owner!Next
  <2>1. CASE PromptEnds(c)
    <3> Quiet
      BY <2>1 DEF PromptEnds, WriteReceipt, LoopFree
    <3> QED  BY <1>0
  <2>2. CASE DeleteConfirmed(c)
    <3> Quiet
      BY <2>2 DEF DeleteConfirmed, Settle, Released, LoopFree, Unsettled,
        WriteReceipt
    <3> QED  BY <1>0
  <2>3. CASE DeleteSettles(c)
    <3> Quiet
      BY <2>3 DEF DeleteSettles, Released, LoopFree
    <3> QED  BY <1>0
  <2>4. CASE DeleteTimeout(c)
    <3> Quiet
      BY <2>4 DEF DeleteTimeout, Settle, LoopFree, WriteReceipt
    <3> QED  BY <1>0
  <2>5. CASE WorkEnds(c)
    <3> Quiet
      BY <2>5 DEF WorkEnds, Settle, LoopFree, WriteReceipt
    <3> QED  BY <1>0
  <2>6. CASE Lookup(c)
    <3> Quiet
      BY <2>6 DEF Lookup, ReleaseAndSettle, Unconfirmed, Settleable, Provable, LoopFree,
        Obliged, NeedsInspection, Inspectable, LeaderRuns, LostWith
    <3> QED  BY <1>0
  <2> QED  BY <1>3, <2>1, <2>2, <2>3, <2>4, <2>5, <2>6 DEF Run
<1>5. ASSUME NEW s \in Cmd, Os(s) PROVE Owner!Next
  <2> Quiet
    BY <1>5 DEF Os, AdapterStarts, LeaderExits, GroupEnds, RegistryExpire, LeaderRuns
  <2> QED  BY <1>0
<1>6. CASE Crash
  <2> Quiet  BY <1>6 DEF Crash, LoseMemory
  <2> QED  BY <1>0
<1>7. CASE OsReboot
  <2> Quiet  BY <1>7 DEF OsReboot, LoseMemory, Obliged
  <2> QED  BY <1>0
<1>8. CASE Boot
  <2>1. {s \in Cmd : Agent(s)}' = {s \in Cmd : Agent(s)}  BY <1>8 DEF Boot
  <2>2. ASSUME NEW c \in Cmd, phase[c] # "accepted" PROVE Outcome(c)' = Outcome(c)
    BY <1>8, <2>2 DEF Boot
  <2>3. ASSUME NEW c \in Cmd, phase[c] = "accepted"
        PROVE  Outcome(c)' = Outcome(c) \/ Outcome(c)' = "failed"
    BY <1>8, <2>3 DEF Boot, BootBody
  <2>4. \A c \in Cmd : phase[c] = "accepted" => Outcome(c) \in {"running", "failed"}
    OBVIOUS
  <2> Quiet  BY <2>1, <2>2, <2>3, <2>4
  <2> QED  BY <1>0
<1>9. CASE UNCHANGED vars
  BY <1>9 DEF Owner!vars
<1> QED  BY <1>1, <1>2, <1>3, <1>5, <1>6, <1>7, <1>8, <1>9 DEF Next

\* The host side of the command plane implements RunOwner: refinement mapping
\* Outcome and Agent.
THEOREM ImplementsRunOwner == Spec => RefinesRunOwner
<1>1. Init => Owner!Init
  BY DEF Init, Owner!Init, Outcome, Agent
<1> QED  BY <1>1, RefineStep, Invariance, PTL DEF Spec, RefinesRunOwner, Owner!Spec

\* What a step of RunOwner can do to one command.
LEMMA OutcomeStep ==
    ASSUME [Owner!Next]_(Owner!vars), NEW c \in Cmd
    PROVE  \/ Outcome(c)' = Outcome(c)
           \/ /\ Outcome(c) = "none" /\ Outcome(c)' = "running"
              /\ \A s \in Cmd : Agent(s) => Epoch[c] <= Epoch[s]
           \/ /\ Outcome(c) \in {"running", "lost"}
              /\ Outcome(c)' \in {"lost", "succeeded", "failed"}
<1> DEFINE out == [d \in Cmd |-> Outcome(d)]
<1>0. out[c] = Outcome(c) /\ (out')[c] = Outcome(c)'
  OBVIOUS
<1>1. ASSUME NEW d \in Cmd, Owner!Begin(d)
      PROVE  \/ Outcome(c)' = Outcome(c)
             \/ /\ Outcome(c) = "none" /\ Outcome(c)' = "running"
                /\ \A s \in Cmd : Agent(s) => Epoch[c] <= Epoch[s]
  BY <1>0, <1>1 DEF Owner!Begin
<1>2. ASSUME NEW d \in Cmd, Owner!StartAgent(d) PROVE Outcome(c)' = Outcome(c)
  BY <1>0, <1>2 DEF Owner!StartAgent
<1>3. CASE Owner!EndsAndSettlements
  BY <1>0, <1>3 DEF Owner!EndsAndSettlements
<1>4. CASE UNCHANGED Owner!vars
  BY <1>0, <1>4 DEF Owner!vars
<1> QED  BY <1>1, <1>2, <1>3, <1>4 DEF Owner!Next

\* E-EH-04: no agent of a lower epoch is left when a command begins to execute
\* (http-api.ts requirePriorEpochRetirement before receipts.execute).
THEOREM BeginsAfterRetirement == Spec => ExecutesAfterRetirement
<1>1. IInv /\ IInv' /\ [Next]_vars =>
        [\A c \in Cmd : execs'[c] # execs[c] =>
           \A s \in Cmd : Epoch[s] < Epoch[c] => ~Agent(s)]_vars
  <2> SUFFICES ASSUME IInv, IInv', [Next]_vars, NEW c \in Cmd, execs'[c] # execs[c],
                      NEW s \in Cmd, Epoch[s] < Epoch[c]
               PROVE  ~Agent(s)
    OBVIOUS
  <2>1. Outcome(c) # Outcome(c)' /\ (Outcome(c) = "none" \/ Outcome(c)' = "none")
    BY DEF IInv, ReceiptInv, ExecutedIffReceipt, Outcome
  <2>2. [Owner!Next]_(Owner!vars)  BY RefineStep
  <2> QED  BY <2>1, <2>2, OutcomeStep
<1> QED  BY <1>1, Invariance, PTL DEF Spec, ExecutesAfterRetirement

\* Only the end of a turn in flight completes a rejected command: every other
\* write of a terminal receipt starts from an accepted one or rejects.
LEMMA FlipIsPromptEnd ==
    ASSUME IInv, [Next]_vars, NEW c \in Cmd, LostInFlight(c), phase'[c] = "completed"
    PROVE  PromptEnds(c)
<1> SUFFICES ASSUME ~PromptEnds(c) PROVE phase'[c] # "completed"
  OBVIOUS
<1>0. phase[c] = "rejected" /\ stage[c] = "turn" /\ Kind[c] = "prompt"
  BY DEF LostInFlight, IInv, ReceiptInv, StageInv
<1>1. ASSUME NEW S, ReleaseAndSettle(S) PROVE phase'[c] # "completed"
  BY <1>0, <1>1 DEF ReleaseAndSettle
<1> USE <1>0 DEF IInv, TypeOK, durable, memory, handlers, vars
<1>2. ASSUME NEW r \in Req, Handle(r) PROVE phase'[c] # "completed"
  <2>1. \/ UNCHANGED phase
        \/ \E S \in SUBSET Cmd : ReleaseAndSettle(S)
        \/ WriteReceipt(CmdOf[r], "rejected", "turn_lost")
        \/ WriteReceipt(CmdOf[r], "accepted", "pending")
    <3>1. {s \in Obliged : obligation[s] = "released"} \in SUBSET Cmd
          /\ {s \in todo[r] : obligation[s] = "released"} \in SUBSET Cmd
      BY DEF Obliged
    <3>2. CASE Arrive(r) \/ EvictConfirmed(r) \/ ReconcileDone(r)
      BY <3>1, <3>2 DEF Arrive, EvictConfirmed, ReconcileDone, StartReconcile
    <3>3. ASSUME NEW s \in Cmd, ReconcileOne(r, s)
          PROVE  \E S \in SUBSET Cmd : ReleaseAndSettle(S)
      BY <3>3 DEF ReconcileOne
    <3>4. CASE TurnLost(r) \/ RunFresh(r)
      BY <3>4 DEF TurnLost, RunFresh
    <3>5. CASE \/ Refuse(r) \/ EvictTimeout(r) \/ ReconcileRefused(r)
               \/ Replay(r) \/ AdmissionRefused(r)
      BY <3>5 DEF Refuse, EvictTimeout, ReconcileRefused, Replay, AdmissionRefused
    <3>6. ASSUME NEW s \in Cmd, EvictSignal(r, s) \/ ReconcilePass(r, s)
          PROVE  UNCHANGED phase
      BY <3>6 DEF EvictSignal, ReconcilePass
    <3> QED  BY <1>2, <3>2, <3>3, <3>4, <3>5, <3>6 DEF Handle
  <2> QED  BY <1>1, <2>1 DEF WriteReceipt
<1>3. ASSUME NEW d \in Cmd, Create(d) PROVE phase'[c] # "completed"
  <2>1. CASE HandshakeOk(d)
    BY <2>1 DEF HandshakeOk, Settle, WriteReceipt
  <2>2. CASE \/ CreateUnstarted(d) \/ Spawn(d) \/ SpawnUnregistered(d)
             \/ SpawnAborts(d) \/ Authorize(d) \/ GateFails(d)
             \/ ExecutionStarted(d) \/ HandshakeFails(d)
    BY <2>2 DEF CreateUnstarted, Spawn, SpawnUnregistered, SpawnAborts, Authorize,
      GateFails, ExecutionStarted, HandshakeFails, Settle, WriteReceipt
  <2>3. CASE \/ CreateAborts(d) \/ TeardownConfirmed(d) \/ TeardownTimeout(d)
             \/ ObserveExit(d) \/ SettleRetiredCreate(d)
    BY <2>3 DEF CreateAborts, TeardownConfirmed, TeardownTimeout, ObserveExit,
      SettleRetiredCreate, Settle, WriteReceipt
  <2> QED  BY <1>3, <2>1, <2>2, <2>3 DEF Create
<1>4. ASSUME NEW d \in Cmd, Run(d) PROVE phase'[c] # "completed"
  <2>1. CASE PromptEnds(d)
    <3>1. d # c  BY <2>1
    <3> QED  BY <2>1, <3>1 DEF PromptEnds, WriteReceipt
  <2>2. CASE DeleteConfirmed(d) \/ DeleteSettles(d) \/ DeleteTimeout(d) \/ WorkEnds(d)
    BY <2>2 DEF DeleteConfirmed, DeleteSettles, DeleteTimeout, WorkEnds, Settle,
      WriteReceipt
  <2>3. CASE Lookup(d)
    BY <1>1, <2>3 DEF Lookup
  <2> QED  BY <1>4, <2>1, <2>2, <2>3 DEF Run
<1>5. ASSUME NEW s \in Cmd, Os(s) PROVE phase'[c] # "completed"
  BY <1>5 DEF Os, AdapterStarts, LeaderExits, GroupEnds, RegistryExpire
<1>6. CASE Crash \/ OsReboot
  BY <1>6 DEF Crash, OsReboot
<1>7. CASE Boot
  BY <1>7 DEF Boot
<1>8. CASE UNCHANGED vars
  BY <1>8
<1> QED  BY <1>2, <1>3, <1>4, <1>5, <1>6, <1>7, <1>8 DEF Next

\* A settled outcome stands: a completed receipt stays completed, and a rejected
\* one completes only when the turn it took for lost, on the proof that its
\* process is gone, ends while a delete of the session keeps the producer wallet
\* open (command-receipts.ts completeAsync, outbox-budget.ts releaseEndedWallets).
THEOREM OutcomesStand == Spec => OutcomeStands
<1> DEFINE Flip(c) ==
        /\ LostInFlight(c) /\ body[c] = "turn_lost"
        /\ obligation[Target[c]] = "released" /\ ~Agent(Target[c])
        /\ \E d \in Cmd : /\ Kind[d] = "delete" /\ phase[d] = "accepted"
                          /\ Target[d] = Target[c]
<1>1. IInv /\ [Next]_vars =>
        [\A c \in Cmd :
            /\ phase[c] = "completed" => phase'[c] = "completed"
            /\ phase[c] = "rejected" /\ phase'[c] = "completed" => Flip(c)]_vars
  <2> SUFFICES ASSUME IInv, [Next]_vars, NEW c \in Cmd
               PROVE  /\ phase[c] = "completed" => phase'[c] = "completed"
                      /\ phase[c] = "rejected" /\ phase'[c] = "completed" => Flip(c)
    OBVIOUS
  <2>1. [Owner!Next]_(Owner!vars)  BY RefineStep
  <2>2. phase[c] = "completed" => phase'[c] = "completed"
    BY <2>1, OutcomeStep DEF Outcome
  <2>3. ASSUME phase[c] = "rejected", phase'[c] = "completed" PROVE Flip(c)
    <3>1. LostInFlight(c)
      BY <2>1, <2>3, OutcomeStep DEF Outcome
    <3>2. body[c] = "turn_lost" /\ obligation[Target[c]] = "released"
      BY <3>1 DEF IInv, LostTurnInv
    <3>3. Target[c] \in Cmd
      BY <3>1 DEF LostInFlight, IInv, ReceiptInv, StageInv
    <3>4. ~Agent(Target[c])
      BY <3>2, <3>3 DEF IInv, OwnershipInv, ReleasedIsGone, Agent
    <3>5. PromptEnds(c)
      BY <2>3, <3>1, FlipIsPromptEnd
    <3>6. WalletOpen(c)
      BY <2>3, <3>5 DEF PromptEnds, WriteReceipt, IInv, TypeOK
    <3> QED  BY <2>3, <3>1, <3>2, <3>4, <3>6 DEF WalletOpen
  <2> QED  BY <2>2, <2>3
<1> QED  BY <1>1, Invariance, PTL DEF Spec, OutcomeStands
=============================================================================
