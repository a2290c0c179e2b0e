------------------------ MODULE OwnedCreate_proofs ------------------------
(***************************************************************************)
(* Proofs about the owned session creates, for any number of drivers,      *)
(* assignments, generations, creates and faults.                           *)
(*                                                                         *)
(* The heart is ChainProven: a generation is admitted only behind proven   *)
(* refusals, so of two creates of one assignment the older has a stamped   *)
(* receipt, and its process is gone for good.  A process of an older       *)
(* assignment is below the host's fence.                                   *)
(***************************************************************************)
EXTENDS OwnedCreate, TLAPS

LEMMA CommandFacts ==
    ASSUME NEW c \in Commands
    PROVE  /\ c[1] \in Nat /\ c[2] \in Nat
           /\ c[1] \in Epochs /\ c[2] \in Generations
           /\ c = <<c[1], c[2]>>
BY OwnedAssumption DEF Commands, Epochs, Generations

LEMMA SameCommand ==
    ASSUME NEW c \in Commands, NEW k \in Commands, c[1] = k[1], c[2] = k[2]
    PROVE  c = k
BY CommandFacts

LEMMA DriverCommand ==
    ASSUME TypeOK, NEW d \in Drivers
    PROVE  /\ work[d] \in Work
           /\ Cmd(d) \in Commands
           /\ Cmd(d)[1] = work[d].epoch /\ Cmd(d)[2] = work[d].gen
BY DEF TypeOK, Work, Cmd, Commands

\* What a driver may hold after its step, and that it is what it may hold.
Held(x) ==
    /\ x \in Work
    /\ x.at = "admit" /\ x.gen > 0 => row[<<x.epoch, x.gen - 1>>] = "proven"
    /\ x.at = "again" => row[<<x.epoch, x.gen>>] = "succeeded"

DriverStep(d) ==
    /\ \E x \in Work : Held(x) /\ work' = [work EXCEPT ![d] = x]
    /\ token' \in Drivers \cup {Nobody}

LEMMA AtHeld ==
    ASSUME NEW c \in Commands, NEW t \in Nat, NEW h \in BOOLEAN,
           NEW p \in {"idle", "read", "admit", "probe", "requeue", "send",
                      "sent", "record", "again"},
           p = "admit" => \/ c[2] = 0
                          \/ row[<<c[1], c[2] - 1>>] = "proven",
           p = "again" => row[c] = "succeeded"
    PROVE  Held(At(p, c, t, h))
<1>1. c[1] \in Epochs /\ c[2] \in Generations /\ c = <<c[1], c[2]>>
  BY CommandFacts
<1>2. At(p, c, t, h) \in Work
  BY <1>1 DEF At, Work
<1>3. /\ At(p, c, t, h).at = p
      /\ At(p, c, t, h).epoch = c[1]
      /\ At(p, c, t, h).gen = c[2]
  BY DEF At
<1> QED
  BY <1>1, <1>2, <1>3 DEF Held

LEMMA FirstCommand ==
    ASSUME NEW e \in Epochs
    PROVE  <<e, 0>> \in Commands /\ <<e, 0>>[2] = 0
BY OwnedAssumption DEF Commands, Generations

LEMMA LeaveStep ==
    ASSUME TypeOK, NEW d \in Drivers, Leave(d)
    PROVE  DriverStep(d)
<1>1. Held(Idle)
  <2>1. 1 \in Epochs
    BY OwnedAssumption DEF Epochs
  <2> QED
    BY <2>1, FirstCommand, AtHeld DEF Idle
<1> QED
  BY <1>1 DEF Leave, DriverStep, TypeOK, Held

LEMMA GoStep ==
    ASSUME TypeOK, NEW d \in Drivers, NEW w, Held(w), Go(d, w)
    PROVE  DriverStep(d)
BY DEF Go, DriverStep, Held, TypeOK

\* A driver that goes on with its command, or reads the chain again.
LEMMA MoveStep ==
    ASSUME TypeOK, NEW d \in Drivers, NEW t \in Nat, NEW h \in BOOLEAN,
           NEW p \in {"probe", "requeue", "send", "sent", "record"},
           Go(d, At(p, Cmd(d), t, h))
    PROVE  DriverStep(d)
<1>1. Held(At(p, Cmd(d), t, h))
  BY AtHeld, DriverCommand
<1> QED
  BY <1>1, GoStep

LEMMA StartStep ==
    ASSUME TypeOK, NEW d \in Drivers, NEW e \in Epochs,
           NEW p \in {"read", "admit"}, Go(d, At(p, <<e, 0>>, 0, FALSE))
    PROVE  DriverStep(d)
<1>1. Held(At(p, <<e, 0>>, 0, FALSE))
  BY AtHeld, FirstCommand
<1> QED
  BY <1>1, GoStep

LEMMA OnwardStep ==
    ASSUME TypeOK, NEW d \in Drivers, NEW c \in Commands, Onward(d, c)
    PROVE  DriverStep(d)
<1>0. c[1] \in Epochs /\ c[2] \in Generations /\ attempts[c] \in Nat
  BY CommandFacts DEF TypeOK
<1>1. CASE Replaceable(c) /\ Go(d, At("admit", <<c[1], c[2] + 1>>, 0, FALSE))
  <2>1. c[2] \in Nat /\ c[2] + 1 \in Generations /\ (c[2] + 1) - 1 = c[2]
    BY <1>0, <1>1, OwnedAssumption DEF Replaceable, Generations
  <2>2. row[<<c[1], c[2]>>] = "proven"
    BY <1>1, CommandFacts DEF Replaceable
  <2> DEFINE n == <<c[1], c[2] + 1>>
  <2>3. n \in Commands /\ n[1] = c[1] /\ n[2] = c[2] + 1
    BY <1>0, <2>1 DEF Commands
  <2>4. row[<<n[1], n[2] - 1>>] = "proven"
    BY <2>1, <2>2, <2>3
  <2> HIDE DEF n
  <2>5. Held(At("admit", n, 0, FALSE))
    BY <2>3, <2>4, AtHeld
  <2> QED
    BY <2>5, <1>1, GoStep DEF n
<1>2. CASE row[c] = "succeeded" /\ Go(d, At("again", c, 0, FALSE))
  <2>1. Held(At("again", c, 0, FALSE))
    BY <1>2, AtHeld
  <2> QED
    BY <2>1, <1>2, GoStep
<1>3. ASSUME NEW p \in {"probe", "send"}, NEW h \in BOOLEAN,
             Go(d, At(p, c, attempts[c], h))
      PROVE  DriverStep(d)
  <2>1. Held(At(p, c, attempts[c], h))
    BY <1>0, AtHeld
  <2> QED
    BY <2>1, <1>3, GoStep
<1>4. CASE Leave(d)
  BY <1>4, LeaveStep
<1> QED
  BY <1>1, <1>2, <1>3, <1>4 DEF Onward

-----------------------------------------------------------------------------
\* What a step does to the rows, apart from an admission and a proof.
Moved(k) ==
    \/ row'[k] = row[k]
    \/ Open(k) /\ row'[k] \in {"queued", "delivering", "failed", "fenced"}
    \/ /\ Open(k)
       /\ row'[k] = "refused"
       /\ request[k] \in {"retired", "unstamped"}

RowType == row \in [Commands -> {"none", "queued", "delivering", "succeeded",
                                 "fenced"} \cup Failed]

ProofsStay ==
    \A c \in Commands :
        row[c] \in {"proven", "succeeded"} => row'[c] = row[c]

LEMMA DriverKeeps ==
    ASSUME OwnedInv, NEW d \in Drivers, DriverStep(d), ProofsStay
    PROVE  /\ work' \in [Drivers -> Work]
           /\ token' \in Drivers \cup {Nobody}
           /\ DriversFollow'
<1>1. PICK x \in Work : Held(x) /\ work' = [work EXCEPT ![d] = x]
  BY DEF DriverStep
<1>2. work' \in [Drivers -> Work]
  BY <1>1 DEF OwnedInv, TypeOK
<1>3. ASSUME NEW b \in Drivers
      PROVE  /\ Held(work'[b]) /\ work'[b] \in Work
  <2>1. CASE b = d
    BY <1>1, <2>1 DEF OwnedInv, TypeOK
  <2>2. CASE b # d
    <3>1. work'[b] = work[b] /\ work[b] \in Work
      BY <1>1, <2>2 DEF OwnedInv, TypeOK
    <3> QED
      BY <3>1 DEF OwnedInv, DriversFollow, Held, Cmd
  <2> QED
    BY <2>1, <2>2
<1>4. ASSUME NEW b \in Drivers, work'[b].at = "admit", work'[b].gen > 0
      PROVE  row'[<<work'[b].epoch, work'[b].gen - 1>>] = "proven"
  <2> DEFINE y == work'[b]
             k == <<y.epoch, y.gen - 1>>
  <2>1. y.epoch \in Epochs /\ y.gen \in Generations
    BY <1>3 DEF Work
  <2>2. y.gen - 1 \in Generations
    BY <2>1, <1>4, OwnedAssumption DEF Generations
  <2>3. k \in Commands
    BY <2>1, <2>2 DEF Commands
  <2>4. row[k] = "proven"
    BY <1>3, <1>4 DEF Held
  <2> QED
    BY <2>3, <2>4 DEF ProofsStay
<1>5. ASSUME NEW b \in Drivers, work'[b].at = "again"
      PROVE  row'[<<work'[b].epoch, work'[b].gen>>] = "succeeded"
  <2> DEFINE k == <<work'[b].epoch, work'[b].gen>>
  <2>1. k \in Commands
    BY <1>3 DEF Work, Commands
  <2>2. row[k] = "succeeded"
    BY <1>3, <1>5 DEF Held
  <2> QED
    BY <2>1, <2>2 DEF ProofsStay
<1>6. DriversFollow'
  BY <1>4, <1>5 DEF DriversFollow, Cmd
<1> QED
  BY <1>2, <1>6 DEF DriverStep

\* Rows that move keep the chain and what the host knows.
LEMMA RowKeeps ==
    ASSUME OwnedInv, RowType', \A k \in Commands : Moved(k),
           UNCHANGED <<placement, binding, host>>
    PROVE  /\ ChainProven' /\ HostFollows' /\ ProofsStay
           /\ LiveSessionKept' /\ SettledIsBound'
<1> USE DEF OwnedInv, placement, binding, host
<1>1. \A k \in Commands :
        /\ row[k] = "none" <=> row'[k] = "none"
        /\ row[k] = "proven" <=> row'[k] = "proven"
        /\ row'[k] = "succeeded" <=> row[k] = "succeeded"
        /\ row'[k] = "refused" => \/ row[k] = "refused"
                                 \/ request[k] \in {"retired", "unstamped"}
  BY DEF Moved, Open
<1>2. ChainProven'
  BY <1>1 DEF ChainProven
<1>3. HostFollows'
  BY <1>1 DEF HostFollows, Alive
<1>4. ProofsStay
  BY <1>1 DEF ProofsStay
<1>5. LiveSessionKept'
  BY DEF LiveSessionKept, Alive
<1>6. SettledIsBound'
  BY <1>1 DEF SettledIsBound, OwnsAck, Alive
<1> QED
  BY <1>2, <1>3, <1>4, <1>5, <1>6

\* A newer generation of the same assignment: this one is proven, and dead.
LEMMA OlderIsDead ==
    ASSUME ChainProven, HostFollows, NEW c \in Commands, NEW k \in Commands,
           c[1] = k[1], c[2] < k[2], row[k] # "none"
    PROVE  row[c] = "proven" /\ request[c] = "retired" /\ ~Alive(c)
<1>1. row[c] = "proven"
  BY DEF ChainProven
<1> QED
  BY <1>1 DEF HostFollows

\* An acknowledgement binds the newest create, and whoever settles a row
\* binds it.
LEMMA BindKeeps ==
    ASSUME OwnedInv, RowType', NEW c \in Commands, Apply(c),
           process[c] # "none",
           \A k \in Commands :
               \/ Moved(k)
               \/ /\ k = c /\ Open(c)
                  /\ row'[c] = "succeeded" /\ request[c] = "completed",
           announced' \subseteq announced,
           UNCHANGED <<placement, request, process, fence>>
    PROVE  /\ ChainProven' /\ HostFollows' /\ ProofsStay
           /\ LiveSessionKept' /\ SettledIsBound'
           /\ bound' \in Commands \cup {NoSession} /\ ended' \subseteq Commands
<1> USE DEF OwnedInv, placement, binding
<1>1. \A k \in Commands :
        /\ row[k] = "none" <=> row'[k] = "none"
        /\ row[k] = "proven" <=> row'[k] = "proven"
        /\ row[k] = "succeeded" => row'[k] = "succeeded"
        /\ row'[k] = "succeeded" => \/ row[k] = "succeeded"
                                   \/ /\ k = c /\ Open(c)
                                      /\ request[k] = "completed"
        /\ row'[k] = "refused" => \/ row[k] = "refused"
                                 \/ request[k] \in {"retired", "unstamped"}
  BY DEF Moved, Open
<1>2. \/ Current(c) /\ bound' = c /\ ended' = ended \cup ({bound} \cap (Commands \ {c}))
      \/ ~Current(c) /\ bound' = bound /\ ended' = ended
  BY DEF Apply
<1>3. bound' \in Commands \cup {NoSession} /\ ended' \subseteq Commands
  BY <1>2 DEF TypeOK
<1>4. ChainProven'
  BY <1>1 DEF ChainProven
<1>5. \A k \in Commands : k \in ended' \/ bound' = k => process[k] # "none"
  BY <1>2 DEF HostFollows
<1>6. HostFollows'
  BY <1>1, <1>5 DEF HostFollows, Alive
<1>7. ProofsStay
  BY <1>1 DEF ProofsStay
<1>8. ASSUME Current(c), NEW k \in Commands, k # c, k[1] = epoch, row[k] # "none"
      PROVE  row[k] = "proven" /\ ~Alive(k)
  <2>1. c[1] = k[1] /\ row[c] # "none" /\ ~(k[2] > c[2])
    BY <1>8 DEF Current, OwnsAck, Newest
  <2>2. k[2] # c[2]
    BY <2>1, <1>8, SameCommand
  <2>3. k[2] < c[2]
    BY <2>1, <2>2, CommandFacts
  <2> QED
    BY <2>1, <2>3, OlderIsDead
<1>9. LiveSessionKept'
  <2>1. ASSUME NEW k \in ended', k[1] = epoch, owner # "released"
        PROVE  ~Alive(k)
    <3>1. CASE k \in ended
      BY <3>1, <2>1 DEF LiveSessionKept
    <3>2. CASE k \notin ended
      <4>1. Current(c) /\ k = bound /\ k \in Commands /\ k # c
        BY <1>2, <3>2, <2>1
      <4>2. row[k] # "none"
        BY <4>1 DEF HostFollows
      <4> QED
        BY <4>1, <4>2, <2>1, <1>8
    <3> QED
      BY <3>1, <3>2
  <2> QED
    BY <2>1 DEF LiveSessionKept, Alive
<1>10. SettledIsBound'
  <2>1. ASSUME NEW k \in Commands, row'[k] = "succeeded", k[1] = epoch,
               owner # "released", Alive(k)
        PROVE  bound' = k
    <3>1. row[k] # "none" /\ row[k] # "proven"
      BY <1>1, <2>1 DEF Open
    <3>2. CASE k = c
      <4>1. \A j \in Commands : j[1] = c[1] /\ j[2] > c[2] => row[j] = "none"
        BY <3>1, <3>2, OlderIsDead, CommandFacts
      <4>2. Newest(c)
        BY <3>1, <3>2, <4>1 DEF Newest
      <4>3. c \notin ended
        BY <2>1, <3>2 DEF LiveSessionKept
      <4>4. Current(c)
        BY <4>2, <4>3, <2>1, <3>2 DEF Current, OwnsAck
      <4> QED
        BY <4>4, <1>2, <3>2
    <3>3. CASE k # c
      <4>1. row[k] = "succeeded"
        BY <1>1, <2>1, <3>3
      <4>2. bound = k
        BY <4>1, <2>1 DEF SettledIsBound, OwnsAck
      <4>3. ~Current(c)
        BY <3>1, <3>3, <2>1, <1>8
      <4> QED
        BY <4>2, <4>3, <1>2
    <3> QED
      BY <3>2, <3>3
  <2> QED
    BY <2>1 DEF SettledIsBound, OwnsAck, Alive
<1> QED
  BY <1>3, <1>4, <1>6, <1>7, <1>9, <1>10

-----------------------------------------------------------------------------
\* The compare-and-swap of a driver.
LEMMA SettleMoves ==
    ASSUME TypeOK, NEW d \in Drivers,
           NEW from \in SUBSET {"queued", "delivering"},
           NEW s \in {"queued", "failed", "fenced", "refused"},
           s = "refused" => request[Cmd(d)] \in {"retired", "unstamped"},
           Settle(d, from, s)
    PROVE  RowType' /\ (\A k \in Commands : Moved(k)) /\ UNCHANGED attempts
<1> DEFINE c == Cmd(d)
<1>1. c \in Commands
  BY DriverCommand
<1>2. /\ row' = [row EXCEPT ![c] = IF row[c] \in from /\ attempts[c] = work[d].tries
                                   THEN s ELSE row[c]]
      /\ UNCHANGED attempts
  BY DEF Settle
<1> HIDE DEF c
<1>3. RowType'
  BY <1>1, <1>2 DEF RowType, TypeOK, Failed
<1>4. \A k \in Commands : Moved(k)
  BY <1>1, <1>2 DEF Moved, Open, TypeOK, c
<1> QED
  BY <1>2, <1>3, <1>4

LEMMA SettleSucceeds ==
    ASSUME TypeOK, NEW d \in Drivers,
           NEW from \in SUBSET {"queued", "delivering"},
           Settle(d, from, "succeeded")
    PROVE  /\ RowType' /\ UNCHANGED attempts
           /\ \A k \in Commands :
                \/ Moved(k)
                \/ k = Cmd(d) /\ Open(k) /\ row'[k] = "succeeded"
<1> DEFINE c == Cmd(d)
<1>1. c \in Commands
  BY DriverCommand
<1>2. /\ row' = [row EXCEPT ![c] = IF row[c] \in from /\ attempts[c] = work[d].tries
                                   THEN "succeeded" ELSE row[c]]
      /\ UNCHANGED attempts
  BY DEF Settle
<1> HIDE DEF c
<1>3. RowType'
  BY <1>1, <1>2 DEF RowType, TypeOK, Failed
<1>4. \A k \in Commands :
        Moved(k) \/ (k = c /\ Open(k) /\ row'[k] = "succeeded")
  BY <1>1, <1>2 DEF Moved, Open, TypeOK
<1> QED
  BY <1>2, <1>3, <1>4 DEF c

LEMMA RefusalMoves ==
    ASSUME NEW c, Rejected(c)
    PROVE  /\ Refusal(c) \in {"failed", "refused"}
           /\ Refusal(c) = "refused" => request[c] \in {"retired", "unstamped"}
BY DEF Refusal, Rejected

\* The steps of a driver that change no row, no binding and nothing at the
\* host.
LEMMA QuietKeeps ==
    ASSUME OwnedInv, NEW d \in Drivers, DriverStep(d), faults' \in 0..MaxFaults,
           UNCHANGED <<placement, ledger, binding, host>>
    PROVE  OwnedInv'
<1> USE DEF OwnedInv, placement, ledger, binding, host
<1>1. RowType' /\ \A k \in Commands : Moved(k)
  BY DEF RowType, Moved, TypeOK
<1>2. /\ ChainProven' /\ HostFollows' /\ ProofsStay
      /\ LiveSessionKept' /\ SettledIsBound'
  BY <1>1, RowKeeps
<1>3. /\ work' \in [Drivers -> Work]
      /\ token' \in Drivers \cup {Nobody}
      /\ DriversFollow'
  BY <1>2, DriverKeeps
<1>4. TypeOK'
  BY <1>3 DEF TypeOK
<1> QED
  BY <1>2, <1>3, <1>4

\* The steps of a driver that move a row.
LEMMA RowStepKeeps ==
    ASSUME OwnedInv, NEW d \in Drivers, DriverStep(d), faults' \in 0..MaxFaults,
           RowType', \A k \in Commands : Moved(k),
           UNCHANGED <<attempts, placement, binding, host>>
    PROVE  OwnedInv'
<1> USE DEF OwnedInv, placement, binding, host
<1>2. /\ ChainProven' /\ HostFollows' /\ ProofsStay
      /\ LiveSessionKept' /\ SettledIsBound'
  BY RowKeeps
<1>3. /\ work' \in [Drivers -> Work]
      /\ token' \in Drivers \cup {Nobody}
      /\ DriversFollow'
  BY <1>2, DriverKeeps
<1>4. TypeOK'
  BY <1>3 DEF TypeOK, RowType
<1> QED
  BY <1>2, <1>3, <1>4

\* The steps of a driver that settle a row and bind its session.
LEMMA BindStepKeeps ==
    ASSUME OwnedInv, NEW d \in Drivers, DriverStep(d), faults' \in 0..MaxFaults,
           RowType', Apply(Cmd(d)), process[Cmd(d)] # "none",
           \A k \in Commands :
               \/ Moved(k)
               \/ /\ k = Cmd(d) /\ Open(k)
                  /\ row'[k] = "succeeded" /\ request[k] = "completed",
           UNCHANGED <<attempts, placement, host>>
    PROVE  OwnedInv'
<1> USE DEF OwnedInv, placement, host
<1>1. Cmd(d) \in Commands
  BY DriverCommand
<1>2. /\ ChainProven' /\ HostFollows' /\ ProofsStay
      /\ LiveSessionKept' /\ SettledIsBound'
      /\ bound' \in Commands \cup {NoSession} /\ ended' \subseteq Commands
  BY <1>1, BindKeeps
<1>3. /\ work' \in [Drivers -> Work]
      /\ token' \in Drivers \cup {Nobody}
      /\ DriversFollow'
  BY <1>2, DriverKeeps
<1>4. TypeOK'
  BY <1>2, <1>3 DEF TypeOK, RowType
<1> QED
  BY <1>2, <1>3, <1>4

-----------------------------------------------------------------------------
\* Admission: the new generation stands behind proven refusals.
LEMMA InsertKeeps ==
    ASSUME OwnedInv, NEW d \in Drivers, DriverStep(d), faults' \in 0..MaxFaults,
           work[d].at = "admit", Holds(d),
           \A g \in Generations :
               g >= work[d].gen => row[<<work[d].epoch, g>>] = "none",
           row' = [row EXCEPT ![Cmd(d)] = "queued"],
           UNCHANGED <<attempts, placement, binding, host>>
    PROVE  OwnedInv'
<1> USE DEF OwnedInv, placement, binding, host
<1> DEFINE n == Cmd(d)
<1>1. n \in Commands /\ n[1] = work[d].epoch /\ n[2] = work[d].gen
  BY DriverCommand
<1>2. n[1] \in Nat /\ n[2] \in Nat /\ n[2] \in Generations
  BY <1>1, CommandFacts
<1>3. row[n] = "none"
  BY <1>1, <1>2 DEF Cmd
<1>4. n[1] = epoch
  BY <1>1 DEF Holds
<1>5. \A k \in Commands : k[1] = n[1] /\ k[2] > n[2] => row[k] = "none"
  <2>1. TAKE k \in Commands
  <2>2. k[2] \in Nat /\ k[2] \in Generations /\ k = <<k[1], k[2]>>
    BY CommandFacts
  <2> QED
    BY <1>1, <1>2, <2>2
<1>6. \A k \in Commands : k[1] = n[1] /\ k[2] < n[2] => row[k] = "proven"
  <2>1. TAKE k \in Commands
  <2>2. HAVE k[1] = n[1] /\ k[2] < n[2]
  <2>3. k[2] \in Nat /\ k[1] \in Epochs
    BY CommandFacts
  <2> DEFINE q == <<n[1], n[2] - 1>>
  <2>4. n[2] - 1 \in Generations /\ n[2] > 0
    BY <1>2, <2>2, <2>3, OwnedAssumption DEF Generations
  <2>5. q \in Commands /\ q[1] = n[1] /\ q[2] = n[2] - 1
    BY <2>2, <2>3, <2>4 DEF Commands
  <2>6. row[q] = "proven"
    BY <1>1, <2>4 DEF DriversFollow
  <2> HIDE DEF q
  <2>7. CASE k[2] = n[2] - 1
    <3>1. k = q
      BY <2>2, <2>5, <2>7, SameCommand
    <3> QED
      BY <3>1, <2>6
  <2>8. CASE k[2] # n[2] - 1
    <3>1. k[2] < q[2]
      BY <2>2, <2>3, <2>5, <2>8, <1>2
    <3> QED
      BY <3>1, <2>2, <2>5, <2>6 DEF ChainProven
  <2> QED
    BY <2>7, <2>8
<1> HIDE DEF n
<1>7. row' = [row EXCEPT ![n] = "queued"]
  BY DEF n
<1>8. RowType' /\ \A k \in Commands : row'[k] = IF k = n THEN "queued" ELSE row[k]
  BY <1>1, <1>7 DEF RowType, TypeOK, Failed
<1>9. ProofsStay
  BY <1>3, <1>8 DEF ProofsStay
<1>10. /\ work' \in [Drivers -> Work]
       /\ token' \in Drivers \cup {Nobody}
       /\ DriversFollow'
  BY <1>9, DriverKeeps
<1>11. TypeOK'
  BY <1>8, <1>10 DEF TypeOK, RowType
<1>12. ChainProven'
  <2>1. ASSUME NEW c \in Commands, NEW k \in Commands, c[1] = k[1],
               c[2] < k[2], row'[k] # "none"
        PROVE  row'[c] = "proven"
    <3>1. c[2] \in Nat /\ k[2] \in Nat
      BY CommandFacts
    <3>2. CASE k = n
      <4>1. c # n /\ row[c] = "proven"
        BY <3>1, <3>2, <2>1, <1>6
      <4> QED
        BY <4>1, <1>8
    <3>3. CASE k # n
      <4>1. row[k] # "none"
        BY <3>3, <2>1, <1>8
      <4>2. row[c] = "proven"
        BY <4>1, <2>1 DEF ChainProven
      <4> QED
        BY <4>2, <1>3, <1>8
    <3> QED
      BY <3>2, <3>3
  <2> QED
    BY <2>1 DEF ChainProven
<1>13. HostFollows'
  BY <1>2, <1>3, <1>4, <1>8 DEF HostFollows, Alive
<1>14. LiveSessionKept'
  BY DEF LiveSessionKept, Alive
<1>15. SettledIsBound'
  BY <1>8 DEF SettledIsBound, OwnsAck, Alive
<1> QED
  BY <1>10, <1>11, <1>12, <1>13, <1>14, <1>15

\* The record of a stamped refusal.
LEMMA ProofKeeps ==
    ASSUME OwnedInv, NEW d \in Drivers, DriverStep(d), faults' \in 0..MaxFaults,
           NEW c \in Commands, row[c] = "refused", request[c] = "retired",
           row' = [row EXCEPT ![c] = "proven"],
           UNCHANGED <<attempts, placement, binding, host>>
    PROVE  OwnedInv'
<1> USE DEF OwnedInv, placement, binding, host
<1>1. RowType' /\ \A k \in Commands : row'[k] = IF k = c THEN "proven" ELSE row[k]
  BY DEF RowType, TypeOK, Failed
<1>2. ProofsStay
  BY <1>1 DEF ProofsStay
<1>3. /\ work' \in [Drivers -> Work]
      /\ token' \in Drivers \cup {Nobody}
      /\ DriversFollow'
  BY <1>2, DriverKeeps
<1>4. TypeOK'
  BY <1>1, <1>3 DEF TypeOK, RowType
<1>5. ChainProven'
  BY <1>1 DEF ChainProven
<1>6. HostFollows'
  BY <1>1 DEF HostFollows, Alive
<1>7. LiveSessionKept'
  BY DEF LiveSessionKept, Alive
<1>8. SettledIsBound'
  BY <1>1 DEF SettledIsBound, OwnsAck, Alive
<1> QED
  BY <1>3, <1>4, <1>5, <1>6, <1>7, <1>8

\* Steps that leave every row, driver and binding alone.
LEMMA HostKeeps ==
    ASSUME OwnedInv, TypeOK', HostFollows',
           \A c \in Commands :
               Alive(c)' => \/ Alive(c)
                            \/ c \notin ended /\ row[c] # "succeeded",
           UNCHANGED <<placement, ledger, binding, work>>
    PROVE  OwnedInv'
<1> USE DEF OwnedInv, placement, ledger, binding
<1>1. ChainProven' /\ DriversFollow'
  BY DEF ChainProven, DriversFollow, Cmd
<1>2. LiveSessionKept'
  BY DEF LiveSessionKept, TypeOK
<1>3. SettledIsBound'
  BY DEF SettledIsBound, OwnsAck
<1> QED
  BY <1>1, <1>2, <1>3

-----------------------------------------------------------------------------
\* The steps of the drivers.

LEMMA FaultCount ==
    ASSUME TypeOK, Fault \/ UNCHANGED faults
    PROVE  faults' \in 0..MaxFaults
BY OwnedAssumption DEF Fault, TypeOK

LEMMA ReadKeeps ==
    ASSUME OwnedInv, NEW d \in Drivers, Read(d) PROVE OwnedInv'
<1>0. TypeOK /\ faults' \in 0..MaxFaults /\ work[d].epoch \in Epochs
  BY FaultCount, DriverCommand DEF OwnedInv, Read, Work
<1>1. DriverStep(d)
  <2>1. CASE Leave(d)
    BY <2>1, <1>0, LeaveStep
  <2>2. CASE Go(d, At("admit", <<work[d].epoch, 0>>, 0, FALSE))
    BY <2>2, <1>0, StartStep
  <2>3. ASSUME NEW g \in Generations, Onward(d, <<work[d].epoch, g>>)
        PROVE  DriverStep(d)
    <3>1. <<work[d].epoch, g>> \in Commands
      BY <1>0 DEF Commands
    <3> QED
      BY <3>1, <2>3, <1>0, OnwardStep
  <2> QED
    BY <2>1, <2>2, <2>3 DEF Read
<1> QED
  BY <1>0, <1>1, QuietKeeps DEF Read

LEMMA AdmitKeeps ==
    ASSUME OwnedInv, NEW d \in Drivers, Admit(d) PROVE OwnedInv'
<1> DEFINE e == work[d].epoch
           later == {g \in Generations : g >= work[d].gen}
<1>0. TypeOK /\ work[d].epoch \in Epochs /\ work[d].at = "admit"
  BY DriverCommand DEF OwnedInv, Admit, Work
<1>1. CASE Leave(d) /\ UNCHANGED <<row, faults>>
  <2>1. DriverStep(d) /\ faults' \in 0..MaxFaults
    BY <1>0, <1>1, LeaveStep, FaultCount
  <2> QED
    BY <2>1, <1>1, QuietKeeps DEF Admit, ledger
<1>2. CASE /\ Holds(d)
           /\ \A g \in later : row[<<e, g>>] = "none"
           /\ row' = [row EXCEPT ![Cmd(d)] = "queued"]
           /\ \/ Go(d, At("send", Cmd(d), 0, FALSE)) /\ UNCHANGED faults
              \/ Leave(d) /\ Fault
  <2>1. DriverStep(d)
    BY <1>0, <1>2, LeaveStep, MoveStep
  <2>2. faults' \in 0..MaxFaults
    BY <1>0, <1>2, FaultCount
  <2> QED
    BY <2>1, <2>2, <1>0, <1>2, InsertKeeps DEF Admit
<1>3. ASSUME NEW g \in Generations, Onward(d, <<e, g>>), UNCHANGED <<row, faults>>
      PROVE  OwnedInv'
  <2>1. <<e, g>> \in Commands
    BY <1>0 DEF Commands
  <2>2. DriverStep(d) /\ faults' \in 0..MaxFaults
    BY <2>1, <1>0, <1>3, OnwardStep, FaultCount
  <2> QED
    BY <2>2, <1>3, QuietKeeps DEF Admit, ledger
<1> QED
  BY <1>1, <1>2, <1>3 DEF Admit

LEMMA ApplyAgainKeeps ==
    ASSUME OwnedInv, NEW d \in Drivers, ApplyAgain(d) PROVE OwnedInv'
<1>0. TypeOK /\ Cmd(d) \in Commands /\ faults' \in 0..MaxFaults
  BY DriverCommand, FaultCount DEF OwnedInv, ApplyAgain
<1>1. row[Cmd(d)] = "succeeded"
  BY DEF OwnedInv, DriversFollow, ApplyAgain
<1>2. process[Cmd(d)] # "none"
  BY <1>0, <1>1 DEF OwnedInv, HostFollows
<1>3. DriverStep(d)
  BY <1>0, LeaveStep DEF ApplyAgain
<1>4. RowType' /\ \A k \in Commands : Moved(k)
  BY <1>0 DEF RowType, Moved, TypeOK, ApplyAgain, ledger
<1> QED
  BY <1>0, <1>2, <1>3, <1>4, BindStepKeeps DEF ApplyAgain, ledger

LEMMA FoldCompletedKeeps ==
    ASSUME OwnedInv, NEW d \in Drivers, FoldCompleted(d) PROVE OwnedInv'
<1>0. TypeOK /\ Cmd(d) \in Commands /\ faults' \in 0..MaxFaults
  BY DriverCommand, FaultCount DEF OwnedInv, FoldCompleted
<1>1. request[Cmd(d)] = "completed" /\ process[Cmd(d)] # "none"
  BY <1>0 DEF OwnedInv, HostFollows, FoldCompleted, Foldable
<1>2. DriverStep(d)
  BY <1>0, LeaveStep DEF FoldCompleted
<1>3. /\ RowType' /\ UNCHANGED attempts
      /\ \A k \in Commands :
            \/ Moved(k)
            \/ k = Cmd(d) /\ Open(k) /\ row'[k] = "succeeded"
  BY <1>0, SettleSucceeds DEF FoldCompleted
<1> QED
  BY <1>0, <1>1, <1>2, <1>3, BindStepKeeps DEF FoldCompleted

LEMMA AcknowledgeKeeps ==
    ASSUME OwnedInv, NEW d \in Drivers, Acknowledge(d) PROVE OwnedInv'
<1>0. TypeOK /\ Cmd(d) \in Commands /\ faults' \in 0..MaxFaults
  BY DriverCommand, FaultCount DEF OwnedInv, Acknowledge
<1>1. request[Cmd(d)] = "completed" /\ process[Cmd(d)] # "none"
  BY <1>0 DEF OwnedInv, HostFollows, Acknowledge
<1>2. DriverStep(d)
  BY <1>0, LeaveStep DEF Acknowledge
<1>3. /\ RowType' /\ UNCHANGED attempts
      /\ \A k \in Commands :
            \/ Moved(k)
            \/ k = Cmd(d) /\ Open(k) /\ row'[k] = "succeeded"
  BY <1>0, SettleSucceeds DEF Acknowledge
<1> QED
  BY <1>0, <1>1, <1>2, <1>3, BindStepKeeps DEF Acknowledge

LEMMA FoldRejectedKeeps ==
    ASSUME OwnedInv, NEW d \in Drivers, FoldRejected(d) PROVE OwnedInv'
<1>0. TypeOK /\ faults' \in 0..MaxFaults
  BY FaultCount DEF OwnedInv, FoldRejected
<1>1. DriverStep(d)
  BY <1>0, MoveStep DEF FoldRejected
<1>2. RowType' /\ (\A k \in Commands : Moved(k)) /\ UNCHANGED attempts
  BY <1>0, RefusalMoves, SettleMoves DEF FoldRejected
<1> QED
  BY <1>0, <1>1, <1>2, RowStepKeeps DEF FoldRejected

LEMMA RecordKeeps ==
    ASSUME OwnedInv, NEW d \in Drivers, Record(d) PROVE OwnedInv'
<1>0. /\ TypeOK /\ Cmd(d) \in Commands /\ faults' \in 0..MaxFaults
      /\ work[d].epoch \in Epochs
  BY DriverCommand, FaultCount DEF OwnedInv, Record, Work
<1>1. DriverStep(d)
  BY <1>0, LeaveStep, StartStep, OnwardStep DEF Record
<1>2. CASE UNCHANGED row
  BY <1>0, <1>1, <1>2, QuietKeeps DEF Record, ledger
<1>3. CASE /\ row[Cmd(d)] = "refused"
           /\ row' = [row EXCEPT ![Cmd(d)] =
                        IF request[Cmd(d)] = "unstamped" THEN @ ELSE "proven"]
  <2>1. CASE request[Cmd(d)] = "unstamped"
    <3>1. UNCHANGED row
      BY <1>0, <1>3, <2>1 DEF TypeOK
    <3> QED
      BY <3>1, <1>2
  <2>2. CASE request[Cmd(d)] # "unstamped"
    <3>1. request[Cmd(d)] = "retired"
      BY <1>0, <1>3, <2>2 DEF OwnedInv, HostFollows
    <3> QED
      BY <3>1, <2>2, <1>0, <1>1, <1>3, ProofKeeps DEF Record
  <2> QED
    BY <2>1, <2>2
<1> QED
  BY <1>2, <1>3 DEF Record

LEMMA RequeueKeeps ==
    ASSUME OwnedInv, NEW d \in Drivers, Requeue(d) PROVE OwnedInv'
<1>0. /\ TypeOK /\ Cmd(d) \in Commands /\ faults' \in 0..MaxFaults
      /\ work[d].tries \in Nat
  BY DriverCommand, FaultCount DEF OwnedInv, Requeue, Work
<1>1. DriverStep(d)
  BY <1>0, LeaveStep, MoveStep DEF Requeue
<1>2. RowType' /\ \A k \in Commands : Moved(k)
  BY <1>0 DEF RowType, Moved, Open, TypeOK, Requeue, Failed
<1> QED
  BY <1>0, <1>1, <1>2, RowStepKeeps DEF Requeue

LEMMA FencedKeeps ==
    ASSUME OwnedInv, NEW d \in Drivers, Fenced(d) PROVE OwnedInv'
<1>0. TypeOK /\ faults' \in 0..MaxFaults
  BY FaultCount DEF OwnedInv, Fenced
<1>1. DriverStep(d)
  BY <1>0, LeaveStep DEF Fenced
<1>2. RowType' /\ (\A k \in Commands : Moved(k)) /\ UNCHANGED attempts
  BY <1>0, SettleMoves DEF Fenced
<1> QED
  BY <1>0, <1>1, <1>2, RowStepKeeps DEF Fenced

LEMMA UnknownKeeps ==
    ASSUME OwnedInv, NEW d \in Drivers, Unknown(d) PROVE OwnedInv'
<1>0. TypeOK /\ faults' \in 0..MaxFaults
  BY FaultCount DEF OwnedInv, Unknown
<1>1. DriverStep(d)
  BY <1>0, LeaveStep DEF Unknown
<1>2. RowType' /\ (\A k \in Commands : Moved(k)) /\ UNCHANGED attempts
  BY <1>0, SettleMoves DEF Unknown
<1> QED
  BY <1>0, <1>1, <1>2, RowStepKeeps DEF Unknown

LEMMA RefusedKeeps ==
    ASSUME OwnedInv, NEW d \in Drivers, Refused(d) PROVE OwnedInv'
<1>0. TypeOK /\ faults' \in 0..MaxFaults
  BY FaultCount DEF OwnedInv, Refused
<1>1. DriverStep(d)
  BY <1>0, LeaveStep, MoveStep DEF Refused, Reload
<1>2. RowType' /\ (\A k \in Commands : Moved(k)) /\ UNCHANGED attempts
  BY <1>0, RefusalMoves, SettleMoves DEF Refused
<1> QED
  BY <1>0, <1>1, <1>2, RowStepKeeps DEF Refused


\* A claim of the row is the one step that changes rows and requests.
LEMMA SendKeeps ==
    ASSUME OwnedInv, NEW d \in Drivers, Send(d) PROVE OwnedInv'
<1> USE DEF OwnedInv, placement, binding
<1> DEFINE c == Cmd(d)
<1>0. /\ TypeOK /\ c \in Commands /\ faults' \in 0..MaxFaults
      /\ work[d].tries + 1 \in Nat
  BY DriverCommand, FaultCount DEF Send, Work
<1>1. DriverStep(d)
  BY <1>0, MoveStep DEF Send
<1>2. /\ row[c] = "queued"
      /\ row' = [row EXCEPT ![c] = "delivering"]
      /\ attempts' = [attempts EXCEPT ![c] = @ + 1]
      /\ request' = [request EXCEPT ![c] = IF @ = "none" THEN "sent" ELSE @]
      /\ UNCHANGED <<epoch, owner, bound, ended, process, announced, fence>>
  BY DEF Send, Claimable
<1> HIDE DEF c
<1>3. /\ RowType'
      /\ \A k \in Commands :
            /\ row'[k] = IF k = c THEN "delivering" ELSE row[k]
            /\ request'[k] = IF k = c /\ request[k] = "none" THEN "sent"
                             ELSE request[k]
  BY <1>0, <1>2 DEF RowType, TypeOK, Failed
<1>4. ProofsStay
  BY <1>2, <1>3 DEF ProofsStay
<1>5. /\ work' \in [Drivers -> Work]
      /\ token' \in Drivers \cup {Nobody}
      /\ DriversFollow'
  BY <1>1, <1>4, DriverKeeps
<1>6. TypeOK'
  <2>1. attempts' \in [Commands -> Nat]
    BY <1>0, <1>2 DEF TypeOK
  <2>2. request' \in [Commands -> {"none", "sent", "accepted", "completed",
                                   "retired", "unstamped", "final"}]
    BY <1>0, <1>2 DEF TypeOK
  <2> QED
    BY <2>1, <2>2, <1>0, <1>2, <1>3, <1>5 DEF TypeOK, RowType
<1>7. ChainProven'
  BY <1>2, <1>3 DEF ChainProven
<1>8. HostFollows'
  BY <1>2, <1>3 DEF HostFollows, Alive
<1>9. LiveSessionKept'
  BY <1>2 DEF LiveSessionKept, Alive
<1>10. SettledIsBound'
  BY <1>2, <1>3 DEF SettledIsBound, OwnsAck, Alive
<1> QED
  BY <1>5, <1>6, <1>7, <1>8, <1>9, <1>10

\* The other steps of a driver move it alone.
LEMMA QuietDriverKeeps ==
    ASSUME OwnedInv, NEW d \in Drivers,
           \/ ClaimDriver(d) \/ Crash(d) \/ Probe(d) \/ ProbeWaits(d)
           \/ NotClaimable(d)
    PROVE  OwnedInv'
<1>0. TypeOK /\ work[d].tries \in Nat /\ epoch \in Epochs
  BY DriverCommand DEF OwnedInv, TypeOK, Work
<1>1. CASE ClaimDriver(d)
  <2>1. Held(At("read", <<epoch, 0>>, 0, FALSE))
    BY <1>0, AtHeld, FirstCommand
  <2>2. DriverStep(d)
    BY <2>1, <1>1 DEF ClaimDriver, DriverStep, Held
  <2>3. faults' \in 0..MaxFaults
    BY <1>0, <1>1, FaultCount DEF ClaimDriver
  <2> QED
    BY <2>2, <2>3, <1>1, QuietKeeps DEF ClaimDriver
<1>2. CASE Crash(d)
  <2>1. 1 \in Epochs
    BY OwnedAssumption DEF Epochs
  <2>2. Held(Idle)
    BY <2>1, FirstCommand, AtHeld DEF Idle
  <2>3. DriverStep(d)
    BY <2>2, <1>0, <1>2, GoStep DEF Crash
  <2>4. faults' \in 0..MaxFaults
    BY <1>0, <1>2, FaultCount DEF Crash
  <2> QED
    BY <2>3, <2>4, <1>2, QuietKeeps DEF Crash
<1>3. CASE Probe(d)
  <2>1. DriverStep(d)
    BY <1>0, <1>3, MoveStep DEF Probe
  <2>2. faults' \in 0..MaxFaults
    BY <1>0, <1>3, FaultCount DEF Probe
  <2> QED
    BY <2>1, <2>2, <1>3, QuietKeeps DEF Probe
<1>4. CASE ProbeWaits(d)
  <2>1. DriverStep(d)
    BY <1>0, <1>4, LeaveStep DEF ProbeWaits
  <2>2. faults' \in 0..MaxFaults
    BY <1>0, <1>4, FaultCount DEF ProbeWaits
  <2> QED
    BY <2>1, <2>2, <1>4, QuietKeeps DEF ProbeWaits
<1>5. CASE NotClaimable(d)
  <2>1. DriverStep(d)
    BY <1>0, <1>5, LeaveStep, MoveStep DEF NotClaimable, Reload
  <2>2. faults' \in 0..MaxFaults
    BY <1>0, <1>5, FaultCount DEF NotClaimable
  <2> QED
    BY <2>1, <2>2, <1>5, QuietKeeps DEF NotClaimable
<1> QED
  BY <1>1, <1>2, <1>3, <1>4, <1>5

-----------------------------------------------------------------------------
\* The steps of the run, the recovery pass, the projector and the host.

\* No create of the next assignment exists yet.
LEMMA MintKeeps ==
    ASSUME OwnedInv, Mint PROVE OwnedInv'
<1> USE DEF OwnedInv, ledger, binding, host
<1>1. epoch \in Nat /\ epoch' = epoch + 1 /\ epoch' \in Epochs
  BY OwnedAssumption DEF Mint, TypeOK, Epochs
<1>2. TypeOK'
  BY <1>1 DEF TypeOK, Mint
<1>3. \A c \in Commands : row[c] # "none" => c[1] # epoch'
  BY <1>1, CommandFacts DEF HostFollows
<1>4. \A c \in ended : c \in Commands /\ c[1] # epoch'
  BY <1>3 DEF HostFollows, TypeOK
<1>5. ChainProven' /\ DriversFollow'
  BY DEF Mint, ChainProven, DriversFollow, Cmd
<1>6. HostFollows'
  BY <1>1, CommandFacts DEF Mint, HostFollows, Alive
<1>7. LiveSessionKept'
  BY <1>4 DEF Mint, LiveSessionKept
<1>8. SettledIsBound'
  BY <1>3 DEF Mint, SettledIsBound, OwnsAck
<1> QED
  BY <1>2, <1>5, <1>6, <1>7, <1>8

\* A released assignment stays released.
LEMMA OwnerMovesKeeps ==
    ASSUME OwnedInv, OwnerMoves PROVE OwnedInv'
<1> USE DEF OwnedInv, ledger, binding, host
<1>1. TypeOK'
  BY DEF TypeOK, OwnerMoves
<1>2. ChainProven' /\ HostFollows' /\ DriversFollow'
  BY DEF OwnerMoves, ChainProven, HostFollows, DriversFollow, Cmd, Alive
<1>3. LiveSessionKept'
  BY DEF OwnerMoves, LiveSessionKept, Alive
<1>4. SettledIsBound'
  BY DEF OwnerMoves, SettledIsBound, OwnsAck, Alive
<1> QED
  BY <1>1, <1>2, <1>3, <1>4

LEMMA LapseKeeps ==
    ASSUME OwnedInv, Lapse PROVE OwnedInv'
<1> USE DEF OwnedInv, placement, ledger, binding, host
<1>1. faults' \in 0..MaxFaults
  BY FaultCount DEF Lapse
<1>2. TypeOK'
  BY <1>1 DEF TypeOK, Lapse
<1>3. HostFollows'
  BY DEF Lapse, HostFollows, Alive
<1>4. \A c \in Commands : Alive(c)' => Alive(c)
  BY DEF Lapse, Alive
<1> QED
  BY <1>2, <1>3, <1>4, HostKeeps DEF Lapse

LEMMA WorkFollows ==
    ASSUME OwnedInv, ProofsStay, UNCHANGED work
    PROVE  DriversFollow'
<1> USE DEF OwnedInv
<1>1. ASSUME NEW d \in Drivers, work[d].at = "admit", work[d].gen > 0
      PROVE  row'[<<work[d].epoch, work[d].gen - 1>>] = "proven"
  <2>1. work[d].epoch \in Epochs /\ work[d].gen - 1 \in Generations
    BY <1>1, DriverCommand, OwnedAssumption DEF Work, Generations
  <2>2. <<work[d].epoch, work[d].gen - 1>> \in Commands
    BY <2>1 DEF Commands
  <2> QED
    BY <2>2, <1>1 DEF DriversFollow, ProofsStay
<1>2. ASSUME NEW d \in Drivers, work[d].at = "again"
      PROVE  row'[Cmd(d)] = "succeeded"
  BY <1>2, DriverCommand DEF DriversFollow, ProofsStay
<1> QED
  BY <1>1, <1>2 DEF DriversFollow, Cmd

LEMMA PassCompletesKeeps ==
    ASSUME OwnedInv, NEW c \in Commands, PassCompletes(c) PROVE OwnedInv'
<1> USE DEF OwnedInv, placement, host
<1>1. process[c] # "none" /\ request[c] = "completed"
  BY DEF HostFollows, PassCompletes
<1>2. row' = [row EXCEPT ![c] = IF row[c] = "delivering" THEN "succeeded" ELSE row[c]]
  BY DEF PassCompletes
<1>3. RowType'
  BY <1>2 DEF RowType, TypeOK, Failed
<1>4. \A k \in Commands :
        Moved(k) \/ (k = c /\ Open(c) /\ row'[c] = "succeeded")
  BY <1>2 DEF Moved, Open, TypeOK
<1>5. /\ ChainProven' /\ HostFollows' /\ ProofsStay
      /\ LiveSessionKept' /\ SettledIsBound'
      /\ bound' \in Commands \cup {NoSession} /\ ended' \subseteq Commands
  BY <1>1, <1>3, <1>4, BindKeeps DEF PassCompletes, FoldBinding
<1>6. TypeOK'
  BY <1>3, <1>5 DEF TypeOK, RowType, PassCompletes
<1>7. DriversFollow'
  BY <1>5, WorkFollows DEF PassCompletes
<1> QED
  BY <1>5, <1>6, <1>7

LEMMA PassRejectsKeeps ==
    ASSUME OwnedInv, NEW c \in Commands, PassRejects(c) PROVE OwnedInv'
<1> USE DEF OwnedInv, placement, host
<1>1. PICK s \in {"failed", Refusal(c)} : row' = [row EXCEPT ![c] = s]
  BY DEF PassRejects
<1>2. s = "failed" \/ (s = "refused" /\ request[c] \in {"retired", "unstamped"})
  BY RefusalMoves DEF PassRejects
<1>3. RowType'
  BY <1>1, <1>2 DEF RowType, TypeOK, Failed
<1>4. \A k \in Commands : Moved(k)
  BY <1>1, <1>2 DEF Moved, TypeOK, PassRejects
<1>5. /\ ChainProven' /\ HostFollows' /\ ProofsStay
      /\ LiveSessionKept' /\ SettledIsBound'
  BY <1>3, <1>4, RowKeeps DEF PassRejects
<1>6. TypeOK'
  BY <1>3 DEF TypeOK, RowType, PassRejects, binding
<1>7. DriversFollow'
  BY <1>5, WorkFollows DEF PassRejects
<1> QED
  BY <1>5, <1>6, <1>7

\* A stale incarnation that is lost is not the live one: its owner moved on,
\* or a newer generation proves that its process is gone.
LEMMA ProjectCreatedKeeps ==
    ASSUME OwnedInv, NEW c \in Commands, ProjectCreated(c) PROVE OwnedInv'
<1> USE DEF OwnedInv, placement, ledger
<1>1. process[c] # "none" /\ row[c] # "none"
  BY DEF HostFollows, ProjectCreated
<1>2. /\ announced' \subseteq announced
      /\ UNCHANGED <<epoch, owner, token, row, attempts, request, process,
                     fence, work, faults>>
  BY DEF ProjectCreated
<1>3. DriversFollow'
  BY <1>2 DEF DriversFollow, Cmd
<1>4. CASE Apply(c)
  <2>1. RowType' /\ \A k \in Commands : Moved(k)
    BY <1>2 DEF RowType, Moved, TypeOK
  <2>2. /\ ChainProven' /\ HostFollows' /\ ProofsStay
        /\ LiveSessionKept' /\ SettledIsBound'
        /\ bound' \in Commands \cup {NoSession} /\ ended' \subseteq Commands
    BY <1>1, <1>2, <1>4, <2>1, BindKeeps
  <2>3. TypeOK'
    BY <1>2, <2>2 DEF TypeOK
  <2> QED
    BY <1>3, <2>2, <2>3
<1>5. CASE ~Current(c) /\ ended' = ended \cup {c} /\ UNCHANGED bound
  <2>1. c[1] = epoch /\ owner # "released" => ~Alive(c)
    <3>1. CASE c \in ended
      BY <3>1 DEF LiveSessionKept
    <3>2. CASE c \notin ended /\ c[1] = epoch /\ owner # "released"
      <4>1. ~Newest(c)
        BY <3>2, <1>5 DEF Current, OwnsAck
      <4>2. PICK k \in Commands : k[1] = c[1] /\ k[2] > c[2] /\ row[k] # "none"
        BY <4>1, <1>1 DEF Newest
      <4>3. c[2] < k[2]
        BY <4>2, CommandFacts
      <4> QED
        BY <4>2, <4>3, OlderIsDead
    <3> QED
      BY <3>1, <3>2
  <2>2. LiveSessionKept'
    BY <2>1, <1>2, <1>5 DEF LiveSessionKept, Alive
  <2>3. ChainProven' /\ SettledIsBound'
    BY <1>2, <1>5 DEF ChainProven, SettledIsBound, OwnsAck, Alive
  <2>4. HostFollows'
    BY <1>1, <1>2, <1>5 DEF HostFollows, Alive
  <2>5. TypeOK'
    BY <1>2, <1>5 DEF TypeOK
  <2> QED
    BY <1>3, <2>2, <2>3, <2>4, <2>5
<1> QED
  BY <1>4, <1>5 DEF ProjectCreated

LEMMA ProjectExitKeeps ==
    ASSUME OwnedInv, NEW c \in Commands, ProjectExit(c) PROVE OwnedInv'
<1> USE DEF OwnedInv, placement, ledger, host, ProjectExit
<1>1. TypeOK'
  BY DEF TypeOK
<1>2. ChainProven' /\ DriversFollow' /\ SettledIsBound'
  BY DEF ChainProven, DriversFollow, Cmd, SettledIsBound, OwnsAck, Alive
<1>3. HostFollows'
  BY DEF HostFollows, Alive
<1>4. LiveSessionKept'
  BY DEF LiveSessionKept, Alive
<1> QED
  BY <1>1, <1>2, <1>3, <1>4

\* What runs after an admission is of the admitted epoch.
LEMMA HostAcceptsKeeps ==
    ASSUME OwnedInv, NEW c \in Commands, HostAccepts(c) PROVE OwnedInv'
<1> USE DEF OwnedInv, placement, ledger, binding
<1>1. c[1] \in Nat /\ c[1] \in 0..MaxEpoch
  BY CommandFacts, OwnedAssumption DEF Epochs
<1>2. \A k \in Commands :
        /\ process'[k] = IF Alive(k) /\ k[1] < c[1] THEN "gone" ELSE process[k]
        /\ request'[k] = IF k = c THEN "accepted" ELSE request[k]
  BY DEF HostAccepts, TypeOK
<1>3. TypeOK'
  <2>1. process' \in [Commands -> {"none", "alive", "gone"}]
    BY DEF HostAccepts, TypeOK
  <2>2. request' \in [Commands -> {"none", "sent", "accepted", "completed",
                                   "retired", "unstamped", "final"}]
    BY DEF HostAccepts, TypeOK
  <2> QED
    BY <1>1, <2>1, <2>2 DEF HostAccepts, TypeOK
<1>4. \A k \in Commands :
        /\ Alive(k)' => Alive(k)
        /\ process[k] = "none" <=> process'[k] = "none"
  BY <1>2 DEF Alive
<1>5. \A k \in Commands : Alive(k)' => k[1] = fence'
  <2>1. TAKE k \in Commands
  <2>2. HAVE Alive(k)'
  <2>3. Alive(k) /\ ~(k[1] < c[1]) /\ fence' = c[1] /\ c[1] >= fence
    BY <1>2, <2>2 DEF Alive, HostAccepts
  <2>4. k[1] = fence
    BY <2>3 DEF HostFollows
  <2>5. k[1] \in Nat
    BY CommandFacts
  <2> QED
    BY <1>1, <2>3, <2>4, <2>5
<1>6. HostFollows'
  <2>1. request[c] = "sent" /\ UNCHANGED <<epoch, row, announced, ended, bound>>
    BY DEF HostAccepts
  <2> QED
    BY <1>2, <1>4, <1>5, <2>1 DEF HostFollows
<1> QED
  BY <1>3, <1>4, <1>6, HostKeeps DEF HostAccepts

\* A process that starts was never on record.
LEMMA HostSpawnsKeeps ==
    ASSUME OwnedInv, NEW c \in Commands, HostSpawns(c) PROVE OwnedInv'
<1> USE DEF OwnedInv, placement, ledger, binding
<1>1. \A k \in Commands : process'[k] = IF k = c THEN "alive" ELSE process[k]
  BY DEF HostSpawns, TypeOK
<1>2. TypeOK'
  BY DEF HostSpawns, TypeOK
<1>3. c \notin ended /\ row[c] # "succeeded"
  BY DEF HostSpawns, HostFollows
<1>4. HostFollows'
  BY <1>1 DEF HostSpawns, HostFollows, Alive
<1>5. \A k \in Commands :
        Alive(k)' => Alive(k) \/ (k \notin ended /\ row[k] # "succeeded")
  BY <1>1, <1>3 DEF Alive
<1> QED
  BY <1>2, <1>4, <1>5, HostKeeps DEF HostSpawns

LEMMA HostAnswersKeeps ==
    ASSUME OwnedInv, NEW c \in Commands,
           NEW a \in {"completed", "retired", "unstamped", "final"},
           HostAnswers(c, a)
    PROVE  OwnedInv'
<1> USE DEF OwnedInv, placement, ledger, binding
<1>1. \A k \in Commands : request'[k] = IF k = c THEN a ELSE request[k]
  BY DEF HostAnswers, TypeOK
<1>2. TypeOK'
  BY DEF HostAnswers, TypeOK
<1>3. HostFollows'
  BY <1>1 DEF HostAnswers, HostFollows, Alive
<1>4. \A k \in Commands : Alive(k)' => Alive(k)
  BY DEF Alive, HostAnswers
<1> QED
  BY <1>2, <1>3, <1>4, HostKeeps DEF HostAnswers

LEMMA ProcessExitsKeeps ==
    ASSUME OwnedInv, NEW c \in Commands, ProcessExits(c) PROVE OwnedInv'
<1> USE DEF OwnedInv, placement, ledger, binding
<1>1. \A k \in Commands : process'[k] = IF k = c THEN "gone" ELSE process[k]
  BY DEF ProcessExits, TypeOK
<1>2. TypeOK'
  BY DEF ProcessExits, TypeOK
<1>3. HostFollows'
  BY <1>1 DEF ProcessExits, HostFollows, Alive
<1>4. \A k \in Commands : Alive(k)' => Alive(k)
  BY <1>1 DEF Alive
<1> QED
  BY <1>2, <1>3, <1>4, HostKeeps DEF ProcessExits

-----------------------------------------------------------------------------
LEMMA InitHolds == Init => OwnedInv
<1> SUFFICES ASSUME Init PROVE OwnedInv
  OBVIOUS
<1>1. 1 \in Epochs /\ 0 \in Generations /\ 0 \in 0..MaxFaults /\ 0 \in 0..MaxEpoch
  BY OwnedAssumption DEF Epochs, Generations
<1>2. Idle \in Work
  BY <1>1 DEF Idle, At, Work
<1>3. TypeOK
  BY <1>1, <1>2 DEF Init, TypeOK
<1>4. ChainProven /\ LiveSessionKept /\ SettledIsBound
  BY DEF Init, ChainProven, LiveSessionKept, SettledIsBound
<1>5. HostFollows
  BY OwnedAssumption DEF Init, HostFollows, Alive
<1>6. DriversFollow
  BY DEF Init, DriversFollow, Idle, At
<1> QED
  BY <1>3, <1>4, <1>5, <1>6 DEF OwnedInv

LEMMA StepKeeps == OwnedInv /\ [Next]_vars => OwnedInv'
<1> SUFFICES ASSUME OwnedInv, [Next]_vars PROVE OwnedInv'
  OBVIOUS
<1>1. CASE Mint
  BY <1>1, MintKeeps
<1>2. CASE OwnerMoves
  BY <1>2, OwnerMovesKeeps
<1>3. CASE Lapse
  BY <1>3, LapseKeeps
<1>4. ASSUME NEW d \in Drivers,
             \/ ClaimDriver(d) \/ Crash(d) \/ Probe(d) \/ ProbeWaits(d)
             \/ NotClaimable(d)
      PROVE  OwnedInv'
  BY <1>4, QuietDriverKeeps
<1>5. ASSUME NEW d \in Drivers,
             \/ Read(d) \/ Admit(d) \/ ApplyAgain(d) \/ FoldCompleted(d)
             \/ FoldRejected(d) \/ Record(d)
      PROVE  OwnedInv'
  BY <1>5, ReadKeeps, AdmitKeeps, ApplyAgainKeeps, FoldCompletedKeeps,
     FoldRejectedKeeps, RecordKeeps
<1>6. ASSUME NEW d \in Drivers,
             \/ Requeue(d) \/ Send(d) \/ Acknowledge(d) \/ Fenced(d)
             \/ Refused(d) \/ Unknown(d)
      PROVE  OwnedInv'
  BY <1>6, RequeueKeeps, SendKeeps, AcknowledgeKeeps, FencedKeeps,
     RefusedKeeps, UnknownKeeps
<1>7. ASSUME NEW c \in Commands,
             \/ PassCompletes(c) \/ PassRejects(c) \/ ProjectCreated(c)
             \/ ProjectExit(c) \/ HostAccepts(c) \/ HostSpawns(c)
             \/ ProcessExits(c)
      PROVE  OwnedInv'
  BY <1>7, PassCompletesKeeps, PassRejectsKeeps, ProjectCreatedKeeps,
     ProjectExitKeeps, HostAcceptsKeeps, HostSpawnsKeeps, ProcessExitsKeeps
<1>8. ASSUME NEW c \in Commands,
             NEW a \in {"completed", "retired", "unstamped", "final"},
             HostAnswers(c, a)
      PROVE  OwnedInv'
  BY <1>8, HostAnswersKeeps
<1>9. CASE UNCHANGED vars
  <2>1. UNCHANGED <<epoch, owner, token, row, attempts, bound, ended, request,
                    process, announced, fence, work, faults>>
    BY <1>9 DEF vars, placement, ledger, binding, host
  <2> QED
    BY <2>1 DEF OwnedInv, TypeOK, ChainProven, HostFollows, DriversFollow,
                LiveSessionKept, SettledIsBound, OwnsAck, Alive, Cmd
<1> QED
  BY <1>1, <1>2, <1>3, <1>4, <1>5, <1>6, <1>7, <1>8, <1>9 DEF Next

\* Only an acknowledgement of the newest create of the active assignment
\* moves the binding.
LEMMA BindingMoves ==
    ASSUME OwnedInv, [Next]_vars, bound' # bound
    PROVE  \E c \in Commands : Current(c) /\ bound' = c
<1> USE DEF placement, ledger, binding, host
<1>1. ASSUME NEW c \in Commands, Apply(c)
      PROVE  Current(c) /\ bound' = c
  BY <1>1 DEF Apply
<1>2. ASSUME NEW d \in Drivers, ApplyAgain(d) \/ FoldCompleted(d) \/ Acknowledge(d)
      PROVE  Current(Cmd(d)) /\ bound' = Cmd(d) /\ Cmd(d) \in Commands
  <2>1. Cmd(d) \in Commands
    BY DriverCommand DEF OwnedInv
  <2> QED
    BY <2>1, <1>1, <1>2 DEF ApplyAgain, FoldCompleted, Acknowledge
<1>3. ASSUME NEW c \in Commands, PassCompletes(c) \/ ProjectCreated(c)
      PROVE  Current(c) /\ bound' = c
  BY <1>1, <1>3 DEF PassCompletes, FoldBinding, ProjectCreated
<1>4. ~Mint /\ ~OwnerMoves /\ ~Lapse /\ ~UNCHANGED vars
  BY DEF Mint, OwnerMoves, Lapse, vars
<1>5. ASSUME NEW d \in Drivers
      PROVE  /\ ~ClaimDriver(d) /\ ~Crash(d) /\ ~Read(d) /\ ~Admit(d)
             /\ ~Probe(d) /\ ~ProbeWaits(d) /\ ~FoldRejected(d) /\ ~Record(d)
             /\ ~Requeue(d) /\ ~Send(d) /\ ~NotClaimable(d) /\ ~Fenced(d)
             /\ ~Refused(d) /\ ~Unknown(d)
  <2>1. ~ClaimDriver(d) /\ ~Crash(d) /\ ~Read(d) /\ ~Admit(d)
    BY DEF ClaimDriver, Crash, Read, Admit
  <2>2. ~Probe(d) /\ ~ProbeWaits(d) /\ ~FoldRejected(d) /\ ~Record(d)
    BY DEF Probe, ProbeWaits, FoldRejected, Record
  <2>3. ~Requeue(d) /\ ~Send(d) /\ ~NotClaimable(d)
    BY DEF Requeue, Send, NotClaimable
  <2>4. ~Fenced(d) /\ ~Refused(d) /\ ~Unknown(d)
    BY DEF Fenced, Refused, Unknown
  <2> QED
    BY <2>1, <2>2, <2>3, <2>4
<1>6. ASSUME NEW c \in Commands
      PROVE  /\ ~PassRejects(c) /\ ~ProjectExit(c) /\ ~HostAccepts(c)
             /\ ~HostSpawns(c) /\ ~ProcessExits(c)
             /\ \A a : ~HostAnswers(c, a)
  BY DEF PassRejects, ProjectExit, HostAccepts, HostSpawns, ProcessExits,
         HostAnswers
<1> QED
  BY <1>2, <1>3, <1>4, <1>5, <1>6 DEF Next

LEMMA BindingStep ==
    ASSUME OwnedInv, [Next]_vars, bound' # bound
    PROVE  /\ bound'[1] = epoch /\ owner # "released"
           /\ bound # NoSession =>
                \/ bound[1] < bound'[1]
                \/ bound[1] = bound'[1] /\ bound[2] < bound'[2]
<1> USE DEF OwnedInv
<1>1. PICK c \in Commands : Current(c) /\ bound' = c
  BY BindingMoves
<1>2. c[1] = epoch /\ owner # "released" /\ Newest(c)
  BY <1>1 DEF Current, OwnsAck
<1>3. ASSUME bound # NoSession
      PROVE  bound[1] < c[1] \/ (bound[1] = c[1] /\ bound[2] < c[2])
  <2>1. bound \in Commands
    BY <1>3 DEF TypeOK
  <2>2. /\ bound[1] \in Nat /\ bound[2] \in Nat
        /\ c[1] \in Nat /\ c[2] \in Nat
    BY <2>1, CommandFacts
  <2>3. row[bound] # "none" /\ bound[1] <= c[1]
    BY <2>1, <1>2 DEF HostFollows
  <2>4. CASE bound[1] = c[1]
    <3>1. ~(bound[2] > c[2])
      BY <2>1, <2>3, <2>4, <1>2 DEF Newest
    <3>2. bound[2] # c[2]
      BY <2>1, <2>4, <1>1, SameCommand
    <3> QED
      BY <3>1, <3>2, <2>2, <2>4
  <2> QED
    BY <2>2, <2>3, <2>4
<1> QED
  BY <1>1, <1>2, <1>3

\* Two live creates of one assignment would stand in a chain, and the older is
\* dead; of two assignments only the fenced one runs.
LEMMA OneAlive == OwnedInv => SingleAgent
<1> SUFFICES ASSUME OwnedInv, NEW c \in Commands, NEW k \in Commands,
                    Alive(c), Alive(k)
             PROVE  c = k
  BY DEF SingleAgent
<1> USE DEF OwnedInv
<1>1. c[1] = k[1]
  BY DEF HostFollows
<1>2. row[c] # "none" /\ row[k] # "none"
  BY DEF HostFollows, Alive
<1>3. ~(c[2] < k[2]) /\ ~(k[2] < c[2])
  BY <1>1, <1>2, OlderIsDead
<1>4. c[2] = k[2]
  BY <1>3, CommandFacts
<1> QED
  BY <1>1, <1>4, SameCommand

-----------------------------------------------------------------------------
\* The creates of a run keep their chain: every generation but the newest is a
\* refusal proven by the host's stamp, and rows, receipts, processes and
\* bindings agree (owned-session-create.ts, create-ack.ts).
THEOREM OwnedInvariant == Spec => []OwnedInv
<1>1. OwnedInv /\ [Next]_vars => OwnedInv'
  BY StepKeeps
<1> QED
  BY <1>1, InitHolds, PTL DEF Spec

\* Never two agent processes for the node's session: replacement waits for the
\* host's proof (assertCreateReplacementQuiescence) and a newer epoch for the
\* fence.
THEOREM OneAgent == Spec => []SingleAgent
BY OwnedInvariant, OneAlive, PTL

\* The session of a visit that runs or waits for an answer is not ended while
\* its process lives (lockCreateOwner, "ack").
THEOREM LiveSessionsKept == Spec => []LiveSessionKept
<1>1. OwnedInv => LiveSessionKept
  BY DEF OwnedInv
<1> QED
  BY <1>1, OwnedInvariant, PTL

\* A succeeded create that is alive and owned is the bound session, whichever
\* of the driver, the recovery pass and the projector settled it
\* (applyCreateAck).
THEOREM SettledAreBound == Spec => []SettledIsBound
<1>1. OwnedInv => SettledIsBound
  BY DEF OwnedInv
<1> QED
  BY <1>1, OwnedInvariant, PTL

\* The binding moves only to the newest create of the active assignment, past
\* the epoch and generation it had (currentCreateCommand).
THEOREM BindingOnlyAdvances == Spec => BindingAdvances
<1> DEFINE Advance ==
      bound' # bound =>
        /\ bound'[1] = epoch /\ owner # "released"
        /\ bound # NoSession =>
            \/ bound[1] < bound'[1]
            \/ bound[1] = bound'[1] /\ bound[2] < bound'[2]
<1>1. OwnedInv /\ [Next]_vars => [Advance]_vars
  BY BindingStep
<1>2. BindingAdvances <=> [][Advance]_vars
  BY DEF BindingAdvances
<1> HIDE DEF Advance
<1> QED
  BY <1>1, <1>2, OwnedInvariant, PTL DEF Spec

=============================================================================
