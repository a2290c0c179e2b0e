-------------------------- MODULE EventPlane_proofs --------------------------
(***************************************************************************)
(* Proofs about EventPlane: nothing is pruned before it is settled, the    *)
(* watermark says exactly what is settled, the run sequences follow the    *)
(* host's order, and the plane implements OrderedLog.  The induction runs  *)
(* over PlaneInv.  The heart of it is PromoteStep: a batch starts no later *)
(* than the watermark, so its promotion moves the watermark to the end of  *)
(* the batch and ranks what it accepts above everything of the same run.   *)
(***************************************************************************)
EXTENDS EventPlane, FiniteSetTheorems, SequenceTheorems, TLAPS

(* PassBounds of one pass record, over the watermarks it depends on. *)
Within(q, len, settled, acked) ==
    /\ q.read <= len
    /\ q.got <= settled
    /\ q.through <= settled
    /\ q.at = "split" => q.got < q.cut /\ q.cut <= q.read
    /\ q.at \in {"catchup_sent", "ack_sent"} => q.through <= acked

LEMMA PassBoundsIs ==
    PassBounds <=>
        \A c \in Consumers : Within(pass[c], Len(emitted), contiguous, acknowledged)
BY DEF PassBounds, Within

LEMMA PassBoundsNext ==
    ASSUME \A c \in Consumers :
               Within(pass'[c], Len(emitted'), contiguous', acknowledged')
    PROVE  PassBounds'
BY DEF PassBounds, Within

(* The numbers of a reachable state. *)
LEMMA Numbers ==
    ASSUME PlaneInv
    PROVE  /\ floor \in Nat /\ acknowledged \in Nat /\ contiguous \in Nat
           /\ confirmed \in Nat /\ Len(emitted) \in Nat /\ MaxEvents \in Nat
           /\ floor <= acknowledged /\ confirmed <= acknowledged
           /\ acknowledged <= contiguous /\ contiguous <= Len(emitted)
           /\ Len(emitted) <= MaxEvents
<1>1. emitted \in Seq(Envelopes)
    BY DEF PlaneInv, TypeOK
<1>2. Len(emitted) \in Nat
    BY <1>1, LenProperties
<1> QED BY <1>2, PlaneAssumption DEF PlaneInv, TypeOK, NothingLost

(* What is known of one pass. *)
LEMMA PassFields ==
    ASSUME PlaneInv, NEW c \in Consumers
    PROVE  /\ pass[c] \in Pass
           /\ pass[c].read \in Nat /\ pass[c].got \in Nat
           /\ pass[c].through \in Nat /\ pass[c].cut \in Nat
           /\ pass[c].lastAck \in Nat
           /\ Within(pass[c], Len(emitted), contiguous, acknowledged)
<1>1. pass[c] \in Pass
    BY DEF PlaneInv, TypeOK
<1>2. Within(pass[c], Len(emitted), contiguous, acknowledged)
    BY PassBoundsIs DEF PlaneInv
<1> QED BY <1>1, <1>2 DEF Pass

(* The watermarks only rise: a pass that does not move stays within them. *)
LEMMA PassesStay ==
    ASSUME PlaneInv, NEW c \in Consumers, NEW len \in Nat, NEW settled \in Nat,
           NEW acked \in Nat, Len(emitted) <= len, contiguous <= settled,
           acknowledged <= acked
    PROVE  Within(pass[c], len, settled, acked)
BY Numbers, PassFields DEF Within

LEMMA PassesKept ==
    ASSUME PlaneInv, pass' = pass, Len(emitted') \in Nat, contiguous' \in Nat,
           acknowledged' \in Nat, Len(emitted) <= Len(emitted'),
           contiguous <= contiguous', acknowledged <= acknowledged'
    PROVE  PassBounds'
BY PassesStay, PassBoundsNext

LEMMA PassMoves ==
    ASSUME PlaneInv, NEW c \in Consumers, NEW q \in Pass,
           pass' = [pass EXCEPT ![c] = q],
           Len(emitted') \in Nat, contiguous' \in Nat, acknowledged' \in Nat,
           Len(emitted) <= Len(emitted'), contiguous <= contiguous',
           acknowledged <= acknowledged',
           Within(q, Len(emitted'), contiguous', acknowledged')
    PROVE  pass' \in [Consumers -> Pass] /\ PassBounds'
<1>1. pass \in [Consumers -> Pass]
    BY DEF PlaneInv, TypeOK
<1>2. pass' \in [Consumers -> Pass]
    BY <1>1
<1>3. ASSUME NEW d \in Consumers
      PROVE  Within(pass'[d], Len(emitted'), contiguous', acknowledged')
  <2>1. CASE d = c
    <3>1. pass'[d] = q
        BY <1>1, <2>1
    <3> QED BY <3>1
  <2>2. CASE d # c
    <3>1. pass'[d] = pass[d]
        BY <1>1, <2>2
    <3> QED BY <3>1, PassesStay
  <2> QED BY <2>1, <2>2
<1> QED BY <1>2, <1>3, PassBoundsNext

LEMMA IdleWithin ==
    ASSUME NEW len \in Nat, NEW settled \in Nat, NEW acked \in Nat
    PROVE  Idle \in Pass /\ Within(Idle, len, settled, acked)
BY DEF Idle, Pass, Places, Within

-----------------------------------------------------------------------------
(* The host's log, and what it is asked about settled positions. *)

(* Nothing about settled positions depends on later emissions. *)
LEMMA SettledKept ==
    ASSUME PlaneInv, UNCHANGED ingested, contiguous' = contiguous,
           \A p \in 1..contiguous : emitted'[p] = emitted[p]
    PROVE  SettledPrefix' /\ RunOrder'
<1>1. verdict' = verdict /\ runSequence' = runSequence /\ nextSequence' = nextSequence
    BY DEF ingested
<1>2. SettledPrefix'
    BY <1>1 DEF PlaneInv, SettledPrefix
<1>3. \A p \in Position : verdict[p] = "accepted" => p \in 1..contiguous
  <2> SUFFICES ASSUME NEW p \in Position, verdict[p] = "accepted"
               PROVE  p \in 1..contiguous
      OBVIOUS
  <2>1. p \in Nat \ {0} /\ contiguous \in Nat
      BY Numbers DEF Position
  <2>2. verdict[p] \in IF p <= contiguous THEN Verdicts ELSE {"none"}
      BY DEF PlaneInv, SettledPrefix
  <2> QED BY <2>1, <2>2
<1>4. \A p \in Position : verdict[p] = "accepted" => Run(p)' = Run(p)
    BY <1>3 DEF Run
<1>5. RunOrder
    BY DEF PlaneInv
<1>6. RunOrder'
    BY <1>1, <1>4, <1>5 DEF RunOrder
<1> QED BY <1>2, <1>6

-----------------------------------------------------------------------------
(* Promotion. *)

(* The walk ends where the classified positions end. *)
LEMMA WalkEnds ==
    ASSUME NEW d, NEW n \in Nat, contiguous \in Nat, MaxEvents \in Nat,
           contiguous <= n, n <= MaxEvents,
           \A p \in Position : contiguous < p /\ p <= n => d[p] # "none",
           \A p \in Position : n < p => d[p] = "none"
    PROVE  Walk(d) = n
<1> DEFINE P(m) == /\ \A p \in (contiguous + 1)..m : d[p] # "none"
                   /\ m < MaxEvents => d[m + 1] = "none"
<1>1. n \in contiguous..MaxEvents
    OBVIOUS
<1>2. P(n)
  <2>1. \A p \in (contiguous + 1)..n : p \in Position /\ contiguous < p /\ p <= n
      BY DEF Position
  <2>2. n < MaxEvents => n + 1 \in Position /\ n < n + 1
      BY DEF Position
  <2> QED BY <2>1, <2>2
<1>3. ASSUME NEW m \in contiguous..MaxEvents, P(m) PROVE m = n
  <2>1. CASE m < n
    <3>1. m + 1 \in Position /\ contiguous < m + 1 /\ m + 1 <= n /\ m < MaxEvents
        BY <2>1 DEF Position
    <3> QED BY <1>3, <3>1
  <2>2. CASE n < m
    <3>1. m \in Position /\ m \in (contiguous + 1)..m
        BY <2>2 DEF Position
    <3> QED BY <1>3, <2>2, <3>1
  <2> QED BY <2>1, <2>2
<1>4. Walk(d) = CHOOSE m \in contiguous..MaxEvents : P(m)
    BY DEF Walk
<1> HIDE DEF P
<1> QED BY <1>1, <1>2, <1>3, <1>4

(* Ranks count the earlier members of a set. *)
LEMMA RankBelow ==
    ASSUME NEW S \in SUBSET Position, NEW p \in S, MaxEvents \in Nat
    PROVE  /\ IsFiniteSet(S) /\ Cardinality(S) \in Nat
           /\ Rank(p, S) \in Nat /\ Rank(p, S) < Cardinality(S)
           /\ \A q \in S : q < p => Rank(q, S) \in Nat /\ Rank(q, S) < Rank(p, S)
<1>1. IsFiniteSet(Position)
    BY FS_Interval DEF Position
<1>2. IsFiniteSet(S) /\ Cardinality(S) \in Nat
    BY <1>1, FS_Subset, FS_CardinalityType
<1>3. ASSUME NEW q \in S, NEW T \in SUBSET S, q \in T,
             \A x \in S : x < q => x \in T
      PROVE  Rank(q, S) \in Nat /\ Rank(q, S) < Cardinality(T)
  <2> DEFINE R == {x \in S : x < q}
  <2>1. IsFiniteSet(T) /\ Cardinality(T) \in Nat
      BY <1>2, FS_Subset, FS_CardinalityType
  <2>2. R \subseteq T \ {q}
    <3>1. ~(q < q)
        BY DEF Position
    <3> QED BY <1>3, <3>1
  <2>3. IsFiniteSet(T \ {q}) /\ Cardinality(T \ {q}) = Cardinality(T) - 1
      BY <1>3, <2>1, FS_RemoveElement
  <2>4. Cardinality(R) <= Cardinality(T \ {q}) /\ IsFiniteSet(R)
      BY <2>2, <2>3, FS_Subset
  <2>5. Cardinality(R) \in Nat
      BY <2>4, FS_CardinalityType
  <2>6. Rank(q, S) = Cardinality(R)
      BY DEF Rank
  <2> HIDE DEF R
  <2> QED BY <2>1, <2>3, <2>4, <2>5, <2>6
<1>4. Rank(p, S) \in Nat /\ Rank(p, S) < Cardinality(S)
    BY <1>3
<1>5. ASSUME NEW q \in S, q < p
      PROVE  Rank(q, S) \in Nat /\ Rank(q, S) < Rank(p, S)
  <2> DEFINE T == {x \in S : x < p}
  <2>1. q \in T /\ T \in SUBSET S
      BY <1>5
  <2>2. \A x \in S : x < q => x \in T
      BY <1>5 DEF Position
  <2>3. Rank(p, S) = Cardinality(T)
      BY DEF Rank
  <2> HIDE DEF T
  <2> QED BY <1>3, <2>1, <2>2, <2>3
<1> QED BY <1>2, <1>4, <1>5

(* A promotion whose classified positions end at n. *)
LEMMA PromoteStep ==
    ASSUME PlaneInv, NEW d, NEW n \in Nat, Promote(d), emitted' = emitted,
           d \in [Position -> Verdicts \cup {"none", "pending_gap"}],
           contiguous <= n, n <= Len(emitted),
           \A p \in Position : p <= contiguous => d[p] = verdict[p],
           \A p \in Position : contiguous < p /\ p <= n =>
                \/ d[p] = "skipped"
                \/ d[p] = "pending_gap" /\ Run(p) \in Runs,
           \A p \in Position : n < p => d[p] = "none"
    PROVE  /\ contiguous' = n /\ state' = "active"
           /\ verdict' \in [Position -> Verdicts \cup {"none", "pending_gap"}]
           /\ runSequence' \in [Position -> Nat]
           /\ nextSequence' \in [Runs -> Nat]
           /\ SettledPrefix' /\ RunOrder'
           /\ \A p \in 1..contiguous : verdict'[p] = verdict[p]
<1> DEFINE promoted == Promoted(d, n)
           ordered(r) == {p \in promoted : Accepted(p) /\ Run(p) = r}
<1>1. /\ contiguous \in Nat /\ Len(emitted) \in Nat /\ MaxEvents \in Nat
      /\ Len(emitted) <= MaxEvents /\ contiguous <= Len(emitted)
    BY Numbers
<1>2. Walk(d) = n
    BY <1>1, WalkEnds
<1>3. /\ verdict' = [p \in Position |->
             IF p \in promoted
             THEN IF Accepted(p) THEN "accepted" ELSE "stale_epoch"
             ELSE d[p]]
      /\ runSequence' = [p \in Position |->
             IF p \in promoted /\ Accepted(p)
             THEN nextSequence[Run(p)] + Rank(p, ordered(Run(p)))
             ELSE runSequence[p]]
      /\ nextSequence' = [r \in Runs |->
             nextSequence[r] + Cardinality(ordered(r))]
      /\ contiguous' = n
      /\ state' = "active"
    BY <1>2 DEF Promote
<1>4. \A p : p \in promoted <=>
            p \in Position /\ contiguous < p /\ p <= n /\ d[p] = "pending_gap"
    BY <1>1 DEF Promoted, Position
<1>5. \A p \in promoted : Run(p) \in Runs
    BY <1>4
<1>6. verdict \in [Position -> Verdicts \cup {"none", "pending_gap"}]
        /\ runSequence \in [Position -> Nat] /\ nextSequence \in [Runs -> Nat]
    BY DEF PlaneInv, TypeOK
<1> HIDE DEF promoted
<1>7. \A r \in Runs : /\ ordered(r) \in SUBSET Position
                      /\ Cardinality(ordered(r)) \in Nat
  <2> SUFFICES ASSUME NEW r \in Runs
               PROVE  ordered(r) \in SUBSET Position
                        /\ Cardinality(ordered(r)) \in Nat
      OBVIOUS
  <2>1. ordered(r) \in SUBSET Position
      BY <1>4
  <2>2. IsFiniteSet(Position)
      BY <1>1, FS_Interval DEF Position
  <2>3. IsFiniteSet(ordered(r))
      BY <2>1, <2>2, FS_Subset
  <2> QED BY <2>1, <2>3, FS_CardinalityType
<1>8. ASSUME NEW p \in promoted, Accepted(p)
      PROVE  /\ p \in ordered(Run(p)) /\ Run(p) \in Runs
             /\ Rank(p, ordered(Run(p))) \in Nat
             /\ Rank(p, ordered(Run(p))) < Cardinality(ordered(Run(p)))
             /\ \A q \in ordered(Run(p)) : q < p =>
                    /\ Rank(q, ordered(Run(p))) \in Nat
                    /\ Rank(q, ordered(Run(p))) < Rank(p, ordered(Run(p)))
  <2>1. p \in ordered(Run(p)) /\ Run(p) \in Runs
      BY <1>5, <1>8
  <2>2. ordered(Run(p)) \in SUBSET Position
      BY <1>7, <2>1
  <2> HIDE DEF ordered
  <2> QED BY <1>1, <2>1, <2>2, RankBelow
<1>9. verdict' \in [Position -> Verdicts \cup {"none", "pending_gap"}]
    BY <1>3 DEF Verdicts
<1>10. runSequence' \in [Position -> Nat]
  <2>1. ASSUME NEW p \in promoted, Accepted(p)
        PROVE  nextSequence[Run(p)] + Rank(p, ordered(Run(p))) \in Nat
    <3>1. nextSequence[Run(p)] \in Nat /\ Rank(p, ordered(Run(p))) \in Nat
        BY <1>6, <1>8, <2>1
    <3> HIDE DEF ordered
    <3> QED BY <3>1
  <2> HIDE DEF ordered
  <2> QED BY <1>3, <1>6, <2>1
<1>11. nextSequence' \in [Runs -> Nat]
        /\ \A r \in Runs : nextSequence'[r] = nextSequence[r] + Cardinality(ordered(r))
  <2>1. \A r \in Runs : nextSequence[r] + Cardinality(ordered(r)) \in Nat
    <3> HIDE DEF ordered
    <3> QED BY <1>6, <1>7
  <2> HIDE DEF ordered
  <2> QED BY <1>3, <2>1
<1>12. ASSUME NEW p \in Position
       PROVE  verdict'[p] \in IF p <= n THEN Verdicts ELSE {"none"}
  <2>1. p \in Nat /\ 0 < p
      BY DEF Position
  <2>2. CASE p <= contiguous
    <3>1. p \notin promoted /\ p <= n
        BY <1>1, <1>4, <2>1, <2>2
    <3>2. verdict[p] \in Verdicts
        BY <2>2 DEF PlaneInv, SettledPrefix
    <3> QED BY <1>3, <2>2, <3>1, <3>2
  <2>3. CASE contiguous < p /\ p <= n
    <3>1. p \in promoted \/ d[p] = "skipped"
        BY <1>4, <2>3
    <3> QED BY <1>3, <2>3, <3>1 DEF Verdicts
  <2>4. CASE n < p
    <3>1. p \notin promoted /\ ~(p <= n)
        BY <1>4, <2>1, <2>4
    <3> QED BY <1>3, <2>4, <3>1
  <2> QED BY <1>1, <2>1, <2>2, <2>3, <2>4
<1>13. SettledPrefix'
    BY <1>3, <1>12 DEF SettledPrefix
(* Positions up to the old watermark keep what they have. *)
<1>14. ASSUME NEW p \in Position, p <= contiguous
       PROVE  verdict'[p] = verdict[p] /\ runSequence'[p] = runSequence[p]
  <2>1. p \notin promoted
      BY <1>1, <1>4, <1>14 DEF Position
  <2> HIDE DEF ordered
  <2> QED BY <1>3, <1>14, <2>1
<1>15. ASSUME NEW p \in Position, verdict'[p] = "accepted"
       PROVE  \/ p <= contiguous /\ verdict[p] = "accepted"
              \/ /\ p \in promoted /\ Accepted(p) /\ contiguous < p
                 /\ runSequence'[p] =
                      nextSequence[Run(p)] + Rank(p, ordered(Run(p)))
  <2>1. CASE p \in promoted
    <3>1. Accepted(p)
        BY <1>3, <1>15, <2>1
    <3>2. contiguous < p
        BY <1>4, <2>1
    <3> HIDE DEF ordered
    <3> QED BY <1>3, <2>1, <3>1, <3>2
  <2>2. CASE p \notin promoted
    <3>1. d[p] = "accepted"
        BY <1>3, <1>15, <2>2
    <3>2. ~(contiguous < p /\ p <= n) /\ ~(n < p)
        BY <3>1
    <3>3. p <= contiguous
        BY <1>1, <3>2 DEF Position
    <3> QED BY <1>14, <1>15, <3>3
  <2> QED BY <2>1, <2>2
<1>16. ASSUME NEW p \in Position, verdict'[p] = "accepted"
       PROVE  /\ Run(p) \in Runs
              /\ runSequence'[p] < nextSequence'[Run(p)]
              /\ \A q \in Position :
                   (q < p /\ verdict'[q] = "accepted" /\ Run(q) = Run(p)) =>
                       runSequence'[q] < runSequence'[p]
  <2> HIDE DEF ordered
  <2>1. CASE p <= contiguous /\ verdict[p] = "accepted"
    <3>1. /\ Run(p) \in Runs /\ runSequence[p] < nextSequence[Run(p)]
          /\ \A q \in Position :
               (q < p /\ verdict[q] = "accepted" /\ Run(q) = Run(p)) =>
                   runSequence[q] < runSequence[p]
        BY <2>1 DEF PlaneInv, RunOrder
    <3>2. runSequence'[p] = runSequence[p]
        BY <1>14, <2>1
    <3>3. runSequence'[p] < nextSequence'[Run(p)]
      <4>1. runSequence[p] \in Nat /\ nextSequence[Run(p)] \in Nat
              /\ Cardinality(ordered(Run(p))) \in Nat
              /\ nextSequence'[Run(p)] =
                    nextSequence[Run(p)] + Cardinality(ordered(Run(p)))
          BY <1>6, <1>7, <1>11, <3>1
      <4> QED BY <3>1, <3>2, <4>1
    <3>4. ASSUME NEW q \in Position, q < p, verdict'[q] = "accepted", Run(q) = Run(p)
          PROVE  runSequence'[q] < runSequence'[p]
      <4>1. q <= contiguous
          BY <1>1, <2>1, <3>4 DEF Position
      <4> QED BY <1>14, <3>1, <3>2, <3>4, <4>1
    <3> QED BY <3>1, <3>3, <3>4
  <2>2. CASE /\ p \in promoted /\ Accepted(p)
             /\ runSequence'[p] = nextSequence[Run(p)] + Rank(p, ordered(Run(p)))
    <3>1. /\ Run(p) \in Runs
          /\ Rank(p, ordered(Run(p))) \in Nat
          /\ Rank(p, ordered(Run(p))) < Cardinality(ordered(Run(p)))
          /\ \A q \in ordered(Run(p)) : q < p =>
                 /\ Rank(q, ordered(Run(p))) \in Nat
                 /\ Rank(q, ordered(Run(p))) < Rank(p, ordered(Run(p)))
        BY <1>8, <2>2
    <3>2. nextSequence[Run(p)] \in Nat /\ Cardinality(ordered(Run(p))) \in Nat
            /\ nextSequence'[Run(p)] =
                  nextSequence[Run(p)] + Cardinality(ordered(Run(p)))
        BY <1>6, <1>7, <1>11, <3>1
    <3>3. runSequence'[p] < nextSequence'[Run(p)]
        BY <2>2, <3>1, <3>2
    <3>4. ASSUME NEW q \in Position, q < p, verdict'[q] = "accepted", Run(q) = Run(p)
          PROVE  runSequence'[q] < runSequence'[p]
      <4>1. CASE q <= contiguous /\ verdict[q] = "accepted"
        <5>1. runSequence[q] < nextSequence[Run(p)] /\ runSequence[q] \in Nat
            BY <1>6, <3>4, <4>1 DEF PlaneInv, RunOrder
        <5>2. runSequence'[q] = runSequence[q]
            BY <1>14, <4>1
        <5> QED BY <2>2, <3>1, <3>2, <5>1, <5>2
      <4>2. CASE /\ q \in promoted /\ Accepted(q)
                 /\ runSequence'[q] =
                      nextSequence[Run(q)] + Rank(q, ordered(Run(q)))
        <5>1. q \in ordered(Run(p))
            BY <3>4, <4>2 DEF ordered
        <5>2. /\ Rank(q, ordered(Run(p))) \in Nat
              /\ Rank(q, ordered(Run(p))) < Rank(p, ordered(Run(p)))
            BY <3>1, <3>4, <5>1
        <5>3. runSequence'[q] = nextSequence[Run(p)] + Rank(q, ordered(Run(p)))
            BY <3>4, <4>2
        <5> QED BY <2>2, <3>1, <3>2, <5>2, <5>3
      <4> QED BY <1>15, <3>4, <4>1, <4>2
    <3> QED BY <3>1, <3>3, <3>4
  <2> QED BY <1>15, <1>16, <2>1, <2>2
<1>17. \A p : Run(p)' = Run(p)
    BY DEF Run
<1>18. RunOrder'
    BY <1>16, <1>17 DEF RunOrder
<1>19. \A p \in 1..contiguous : verdict'[p] = verdict[p]
    BY <1>1, <1>14 DEF Position
<1> HIDE DEF ordered
<1> QED BY <1>3, <1>9, <1>10, <1>11, <1>13, <1>18, <1>19

-----------------------------------------------------------------------------
(* Steps that settle nothing. *)

(* The state of the stream row, its lease and the fault count. *)
RowOK ==
    /\ state \in {"absent", "active", "lost"}
    /\ owner \in Consumers \cup {Nobody, Departed}
    /\ leased \in BOOLEAN
    /\ repairing \in BOOLEAN
    /\ faults \in Nat

LEMMA RowIsOK ==
    ASSUME PlaneInv
    PROVE  RowOK
<1>1. state \in {"absent", "active", "lost"}
    BY DEF PlaneInv, TypeOK
<1>2. owner \in Consumers \cup {Nobody, Departed}
    BY DEF PlaneInv, TypeOK
<1>3. leased \in BOOLEAN
    BY Zenon DEF PlaneInv, TypeOK
<1>4. repairing \in BOOLEAN
    BY Zenon DEF PlaneInv, TypeOK
<1>5. faults \in Nat
    BY DEF PlaneInv, TypeOK
<1> QED BY <1>1, <1>2, <1>3, <1>4, <1>5, Zenon DEF RowOK

LEMMA TypeNext ==
    ASSUME RowOK', emitted' \in Seq(Envelopes), floor' \in Nat,
           acknowledged' \in Nat, epoch' \in [Runs -> Nat],
           contiguous' \in Nat, confirmed' \in Nat,
           verdict' \in [Position -> Verdicts \cup {"none", "pending_gap"}],
           runSequence' \in [Position -> Nat],
           nextSequence' \in [Runs -> Nat],
           pass' \in [Consumers -> Pass]
    PROVE  TypeOK'
BY Zenon DEF TypeOK, RowOK

(* A step of one pass that settles nothing and appends nothing. *)
LEMMA PassStep ==
    ASSUME PlaneInv, NEW c \in Consumers, NEW q \in Pass,
           pass' = [pass EXCEPT ![c] = q], RowOK',
           emitted' = emitted, floor' = floor, epoch' = epoch,
           contiguous' = contiguous, UNCHANGED ingested,
           acknowledged' \in Nat, acknowledged <= acknowledged',
           acknowledged' <= contiguous,
           confirmed' \in Nat, confirmed' <= acknowledged',
           Within(q, Len(emitted), contiguous, acknowledged')
    PROVE  PlaneInv'
<1>1. Len(emitted') \in Nat /\ Len(emitted') = Len(emitted)
    BY Numbers
<1>2. contiguous' \in Nat
    BY Numbers
<1>3. pass' \in [Consumers -> Pass] /\ PassBounds'
  <2>1. Len(emitted) <= Len(emitted') /\ contiguous <= contiguous'
      BY <1>1, <1>2, Numbers
  <2>2. Within(q, Len(emitted'), contiguous', acknowledged')
      BY <1>1
  <2> QED BY <1>1, <1>2, <2>1, <2>2, PassMoves
<1>4. SettledPrefix' /\ RunOrder'
    BY SettledKept
<1>5. /\ emitted' \in Seq(Envelopes) /\ floor' \in Nat
      /\ epoch' \in [Runs -> Nat]
      /\ verdict' \in [Position -> Verdicts \cup {"none", "pending_gap"}]
      /\ runSequence' \in [Position -> Nat]
      /\ nextSequence' \in [Runs -> Nat]
    BY DEF PlaneInv, TypeOK, ingested
<1>6. TypeOK'
    BY <1>2, <1>3, <1>5, TypeNext
<1>7. NothingLost' /\ Len(emitted') <= MaxEvents
    BY <1>1, Numbers DEF NothingLost
<1> QED BY <1>3, <1>4, <1>6, <1>7 DEF PlaneInv

(* A step that moves no pass and settles nothing. *)
LEMMA QuietStep ==
    ASSUME PlaneInv, pass' = pass, RowOK',
           emitted' \in Seq(Envelopes), Len(emitted) <= Len(emitted'),
           Len(emitted') <= MaxEvents,
           \A p \in 1..contiguous : emitted'[p] = emitted[p],
           floor' \in Nat, floor' <= acknowledged,
           acknowledged' = acknowledged, epoch' \in [Runs -> Nat],
           contiguous' = contiguous, confirmed' = confirmed,
           UNCHANGED ingested
    PROVE  PlaneInv'
<1>1. Len(emitted') \in Nat
    BY LenProperties
<1>2. PassBounds'
    BY <1>1, Numbers, PassesKept
<1>3. SettledPrefix' /\ RunOrder'
    BY SettledKept
<1>4. /\ contiguous' \in Nat /\ confirmed' \in Nat /\ acknowledged' \in Nat
      /\ verdict' \in [Position -> Verdicts \cup {"none", "pending_gap"}]
      /\ runSequence' \in [Position -> Nat]
      /\ nextSequence' \in [Runs -> Nat]
      /\ pass' \in [Consumers -> Pass]
    BY DEF PlaneInv, TypeOK, ingested
<1>5. TypeOK'
    BY <1>4, TypeNext
<1>6. NothingLost'
    BY <1>1, Numbers DEF NothingLost
<1> QED BY <1>2, <1>3, <1>5, <1>6 DEF PlaneInv

LEMMA HostSteps ==
    ASSUME PlaneInv,
           \/ \E e \in Envelopes : AppendEvent(e)
           \/ PruneEvents
           \/ \E r \in Runs : MintAssignment(r)
    PROVE  PlaneInv' /\ contiguous' = contiguous /\ verdict' = verdict
<1>1. emitted \in Seq(Envelopes) /\ epoch \in [Runs -> Nat]
    BY DEF PlaneInv, TypeOK
<1>2. RowOK
    BY RowIsOK
<1>3. CASE \E e \in Envelopes : AppendEvent(e)
  <2>1. PICK e \in Envelopes : AppendEvent(e)
      BY <1>3
  <2>2. Len(emitted) < MaxEvents /\ emitted' = Append(emitted, e)
      BY <2>1 DEF AppendEvent
  <2>3. /\ emitted' \in Seq(Envelopes) /\ Len(emitted') = Len(emitted) + 1
        /\ \A p \in 1..Len(emitted) : emitted'[p] = emitted[p]
      BY <1>1, <2>2, AppendProperties
  <2>4. UNCHANGED <<floor, acknowledged, epoch, row, claim, ingested, pass, faults>>
      BY <2>1 DEF AppendEvent
  <2>5. RowOK'
      BY <1>2, <2>4, Zenon DEF RowOK, row, claim
  <2>6. contiguous' = contiguous /\ confirmed' = confirmed /\ verdict' = verdict
      BY <2>4 DEF row, ingested
  <2>7. Len(emitted) <= Len(emitted') /\ Len(emitted') <= MaxEvents
      BY <2>2, <2>3, Numbers
  <2>8. \A p \in 1..contiguous : emitted'[p] = emitted[p]
      BY <2>3, Numbers
  <2>9. floor' \in Nat /\ floor' <= acknowledged /\ epoch' \in [Runs -> Nat]
      BY <1>1, <2>4, Numbers
  <2> QED BY <2>3, <2>4, <2>5, <2>6, <2>7, <2>8, <2>9, QuietStep
<1>4. CASE PruneEvents
  <2>1. PICK p \in (floor + 1)..acknowledged : floor' = p
      BY <1>4 DEF PruneEvents
  <2>2. UNCHANGED <<emitted, acknowledged, epoch, row, claim, ingested, pass, faults>>
      BY <1>4 DEF PruneEvents
  <2>3. RowOK'
      BY <1>2, <2>2, Zenon DEF RowOK, row, claim
  <2>4. contiguous' = contiguous /\ confirmed' = confirmed /\ verdict' = verdict
      BY <2>2 DEF row, ingested
  <2>5. floor' \in Nat /\ floor' <= acknowledged
      BY <2>1, Numbers
  <2>6. Len(emitted) <= Len(emitted') /\ Len(emitted') <= MaxEvents
      BY <2>2, Numbers
  <2> QED BY <1>1, <2>2, <2>3, <2>4, <2>5, <2>6, QuietStep
<1>5. CASE \E r \in Runs : MintAssignment(r)
  <2>1. PICK r \in Runs : MintAssignment(r)
      BY <1>5
  <2>2. epoch' \in [Runs -> Nat]
      BY <1>1, <2>1 DEF MintAssignment
  <2>3. UNCHANGED <<host, row, claim, ingested, pass, faults>>
      BY <2>1 DEF MintAssignment
  <2>4. RowOK'
      BY <1>2, <2>3, Zenon DEF RowOK, row, claim
  <2>5. /\ contiguous' = contiguous /\ confirmed' = confirmed /\ verdict' = verdict
        /\ emitted' = emitted /\ floor' = floor /\ acknowledged' = acknowledged
      BY <2>3 DEF row, ingested, host
  <2>6. Len(emitted) <= Len(emitted') /\ Len(emitted') <= MaxEvents
            /\ floor' \in Nat /\ floor' <= acknowledged
      BY <2>5, Numbers
  <2> QED BY <1>1, <2>2, <2>3, <2>4, <2>5, <2>6, QuietStep
<1> QED BY <1>3, <1>4, <1>5

LEMMA LeaseSteps ==
    ASSUME PlaneInv, ExpireLease \/ PauseHolder \/ DegradeStream
    PROVE  PlaneInv' /\ contiguous' = contiguous /\ verdict' = verdict
<1>1. emitted \in Seq(Envelopes) /\ epoch \in [Runs -> Nat]
    BY DEF PlaneInv, TypeOK
<1>2. RowOK
    BY RowIsOK
<1>3. UNCHANGED <<host, epoch, contiguous, confirmed, ingested, pass, owner, repairing>>
    BY DEF ExpireLease, PauseHolder, DegradeStream, row, claim
<1>4. state' \in {"absent", "active", "lost"}
  <2>1. state' = state \/ state' = "lost"
      BY DEF ExpireLease, PauseHolder, DegradeStream, row
  <2> QED BY <1>2, <2>1 DEF RowOK
<1>5. leased' \in BOOLEAN
  <2>1. leased' = leased \/ leased' = FALSE
      BY Zenon DEF ExpireLease, PauseHolder, DegradeStream, claim
  <2> QED BY <1>2, <2>1, Zenon DEF RowOK
<1>6. faults' \in Nat
  <2>1. faults' = faults \/ faults' = faults + 1
      BY DEF ExpireLease, PauseHolder, DegradeStream, Fault
  <2> QED BY <1>2, <2>1 DEF RowOK
<1>7. RowOK'
    BY <1>2, <1>3, <1>4, <1>5, <1>6, Zenon DEF RowOK
<1>8. /\ emitted' = emitted /\ floor' = floor /\ acknowledged' = acknowledged
      /\ contiguous' = contiguous /\ confirmed' = confirmed
      /\ verdict' = verdict /\ epoch' = epoch /\ pass' = pass
      /\ UNCHANGED ingested
    BY <1>3 DEF host, ingested
<1>9. Len(emitted) <= Len(emitted') /\ Len(emitted') <= MaxEvents
          /\ floor' \in Nat /\ floor' <= acknowledged
    BY <1>8, Numbers
<1> QED BY <1>1, <1>7, <1>8, <1>9, QuietStep

(* A pass that settles nothing and leaves the host's acknowledgement and its *)
(* recorded image alone.                                                     *)
LEMMA LocalStep ==
    ASSUME PlaneInv, NEW c \in Consumers, NEW q \in Pass,
           pass' = [pass EXCEPT ![c] = q], RowOK', UNCHANGED host,
           epoch' = epoch, contiguous' = contiguous, confirmed' = confirmed,
           UNCHANGED ingested,
           Within(q, Len(emitted), contiguous, acknowledged)
    PROVE  PlaneInv' /\ contiguous' = contiguous /\ verdict' = verdict
<1>1. emitted' = emitted /\ floor' = floor /\ acknowledged' = acknowledged
          /\ verdict' = verdict
    BY DEF host, ingested
<1>2. /\ acknowledged' \in Nat /\ acknowledged <= acknowledged'
      /\ acknowledged' <= contiguous
      /\ confirmed' \in Nat /\ confirmed' <= acknowledged'
    BY <1>1, Numbers
<1> QED BY <1>1, <1>2, PassStep

LEMMA BackToIdle ==
    ASSUME PlaneInv, NEW c \in Consumers, pass' = [pass EXCEPT ![c] = Idle],
           RowOK', UNCHANGED host, epoch' = epoch, contiguous' = contiguous,
           confirmed' = confirmed, UNCHANGED ingested
    PROVE  PlaneInv' /\ contiguous' = contiguous /\ verdict' = verdict
<1>1. Idle \in Pass /\ Within(Idle, Len(emitted), contiguous, acknowledged)
    BY Numbers, IdleWithin
<1> HIDE DEF Idle
<1> QED BY <1>1, LocalStep

(* The lease moves to the pass that claims the stream. *)
LEMMA ClaimRow ==
    ASSUME PlaneInv, NEW c \in Consumers, Claim(c), UNCHANGED <<row, faults>>
    PROVE  RowOK'
<1>1. RowOK
    BY RowIsOK
<1>2. owner' = c /\ leased' = TRUE
    BY DEF Claim
<1> QED BY <1>1, <1>2, Zenon DEF RowOK, row

LEMMA StartSteps ==
    ASSUME PlaneInv, NEW c \in Consumers, StartPass(c) \/ StartUnclaimed(c)
    PROVE  PlaneInv' /\ contiguous' = contiguous /\ verdict' = verdict
<1>1. contiguous \in Nat /\ confirmed \in Nat /\ Len(emitted) \in Nat
          /\ contiguous <= Len(emitted)
    BY Numbers
<1>2. CASE StartPass(c)
  <2> DEFINE q == [Idle EXCEPT !.at = IF contiguous # confirmed THEN "catchup"
                                      ELSE "open",
                               !.claimed = TRUE,
                               !.got = contiguous,
                               !.through = contiguous,
                               !.lastAck = confirmed]
  <2>1. pass' = [pass EXCEPT ![c] = q]
      BY <1>2 DEF StartPass
  <2>2. q \in Pass
      BY <1>1 DEF Idle, Pass, Places
  <2>3. Within(q, Len(emitted), contiguous, acknowledged)
      BY <1>1 DEF Idle, Within
  <2>4. UNCHANGED <<host, epoch, row, ingested, faults>> /\ Claim(c)
      BY <1>2 DEF StartPass
  <2>5. RowOK'
      BY <2>4, ClaimRow
  <2>6. contiguous' = contiguous /\ confirmed' = confirmed
      BY <2>4 DEF row
  <2> HIDE DEF q
  <2> QED BY <2>1, <2>2, <2>3, <2>4, <2>5, <2>6, LocalStep
<1>3. CASE StartUnclaimed(c)
  <2> DEFINE q == [Idle EXCEPT !.at = "open"]
  <2>1. pass' = [pass EXCEPT ![c] = q]
      BY <1>3 DEF StartUnclaimed
  <2>2. q \in Pass
      BY DEF Idle, Pass, Places
  <2>3. Within(q, Len(emitted), contiguous, acknowledged)
      BY <1>1 DEF Idle, Within
  <2>4. UNCHANGED <<host, epoch, row, claim, ingested, faults>>
      BY <1>3 DEF StartUnclaimed
  <2>5. RowOK'
      BY <2>4, RowIsOK, Zenon DEF RowOK, row, claim
  <2>6. contiguous' = contiguous /\ confirmed' = confirmed
      BY <2>4 DEF row
  <2> HIDE DEF q
  <2> QED BY <2>1, <2>2, <2>3, <2>4, <2>5, <2>6, LocalStep
<1> QED BY <1>2, <1>3

(* A cursor starts at the watermark or at the replay floor below it. *)
LEMMA OpenStep ==
    ASSUME PlaneInv, NEW c \in Consumers, OpenStream(c)
    PROVE  PlaneInv' /\ contiguous' = contiguous /\ verdict' = verdict
<1>1. UNCHANGED <<host, epoch, row, claim, ingested, faults>>
    BY DEF OpenStream
<1>2. RowOK'
    BY <1>1, RowIsOK, Zenon DEF RowOK, row, claim
<1>3. contiguous' = contiguous /\ confirmed' = confirmed
    BY <1>1 DEF row
<1>4. /\ floor \in Nat /\ contiguous \in Nat /\ Len(emitted) \in Nat
      /\ floor <= contiguous /\ contiguous <= Len(emitted)
    BY Numbers
<1> DEFINE s == IF pass[c].got = 0 THEN floor ELSE pass[c].got
           q1 == [pass[c] EXCEPT !.at = "failing"]
           q2 == [pass[c] EXCEPT !.at = "reading", !.got = s,
                                 !.read = s, !.through = 0]
<1>5. pass[c] \in Pass /\ Within(pass[c], Len(emitted), contiguous, acknowledged)
    BY PassFields
<1>6. s \in Nat /\ s <= contiguous
    BY <1>4, <1>5 DEF Pass, Within
<1>7. pass' = [pass EXCEPT ![c] = q1] \/ pass' = [pass EXCEPT ![c] = q2]
    BY DEF OpenStream
<1>8. q1 \in Pass /\ Within(q1, Len(emitted), contiguous, acknowledged)
    BY <1>5 DEF Pass, Places, Within
<1>9. q2 \in Pass /\ Within(q2, Len(emitted), contiguous, acknowledged)
  <2> HIDE DEF s
  <2>1. q2 \in Pass
      BY <1>5, <1>6 DEF Pass, Places
  <2>2. q2.at = "reading" /\ q2.got = s /\ q2.read = s /\ q2.through = 0
      BY <1>5 DEF Pass
  <2> HIDE DEF q2
  <2>3. q2.read <= Len(emitted) /\ q2.got <= contiguous /\ q2.through <= contiguous
      BY <1>4, <1>6, <2>2
  <2> QED BY <2>1, <2>2, <2>3 DEF Within
<1> HIDE DEF q1, q2
<1> QED BY <1>1, <1>2, <1>3, <1>7, <1>8, <1>9, LocalStep

(* Moves of a pass that change nothing but the pass. *)
LEMMA MoveSteps ==
    ASSUME PlaneInv, NEW c \in Consumers,
           \/ ReadFrame(c) \/ SplitBatch(c) \/ ReconnectUnclaimed(c)
           \/ CloseBelowFloor(c)
    PROVE  PlaneInv' /\ contiguous' = contiguous /\ verdict' = verdict
<1>1. UNCHANGED <<host, epoch, row, claim, ingested, faults>>
    BY DEF ReadFrame, SplitBatch, ReconnectUnclaimed, CloseBelowFloor
<1>2. RowOK'
    BY <1>1, RowIsOK, Zenon DEF RowOK, row, claim
<1>3. contiguous' = contiguous /\ confirmed' = confirmed
    BY <1>1 DEF row
<1>4. pass[c] \in Pass /\ Within(pass[c], Len(emitted), contiguous, acknowledged)
    BY PassFields
<1>5. Len(emitted) \in Nat
    BY Numbers
<1>6. CASE ReadFrame(c)
  <2> DEFINE q == [pass[c] EXCEPT !.read = pass[c].read + 1]
  <2>1. pass' = [pass EXCEPT ![c] = q] /\ pass[c].read < Len(emitted)
      BY <1>6 DEF ReadFrame
  <2>2. q \in Pass
      BY <1>4 DEF Pass
  <2>3. Within(q, Len(emitted), contiguous, acknowledged)
      BY <1>4, <1>5, <2>1 DEF Pass, Within
  <2> HIDE DEF q
  <2> QED BY <1>1, <1>2, <1>3, <2>1, <2>2, <2>3, LocalStep
<1>7. CASE SplitBatch(c)
  <2>1. PICK cut \in Cuts(c) :
            pass' = [pass EXCEPT ![c] = [@ EXCEPT !.at = "split", !.cut = cut]]
      BY <1>7 DEF SplitBatch
  <2> DEFINE q == [pass[c] EXCEPT !.at = "split", !.cut = cut]
  <2>2. pass' = [pass EXCEPT ![c] = q]
      BY <2>1
  <2>3. cut \in Nat /\ pass[c].got < cut /\ cut <= pass[c].read
      BY <1>4 DEF Cuts, Pass
  <2>4. q \in Pass
      BY <1>4, <2>3 DEF Pass, Places
  <2>5. Within(q, Len(emitted), contiguous, acknowledged)
      BY <1>4, <2>3 DEF Pass, Within
  <2> HIDE DEF q
  <2> QED BY <1>1, <1>2, <1>3, <2>2, <2>4, <2>5, LocalStep
<1>8. CASE ReconnectUnclaimed(c) \/ CloseBelowFloor(c)
  <2>1. pass' = [pass EXCEPT ![c] = Idle]
      BY <1>8 DEF ReconnectUnclaimed, CloseBelowFloor
  <2> QED BY <1>1, <1>2, <1>3, <2>1, BackToIdle
<1> QED BY <1>6, <1>7, <1>8

LEMMA BootstrapStep ==
    ASSUME PlaneInv, NEW c \in Consumers, ClaimAfterIngest(c)
    PROVE  PlaneInv' /\ contiguous' = contiguous /\ verdict' = verdict
<1> DEFINE q == [pass[c] EXCEPT !.claimed = TRUE,
                     !.at = IF pass[c].through > pass[c].lastAck THEN "ack"
                            ELSE "reading"]
<1>1. pass' = [pass EXCEPT ![c] = q]
    BY DEF ClaimAfterIngest
<1>2. pass[c] \in Pass /\ Within(pass[c], Len(emitted), contiguous, acknowledged)
    BY PassFields
<1>3. q \in Pass
    BY <1>2 DEF Pass, Places
<1>4. Within(q, Len(emitted), contiguous, acknowledged)
    BY <1>2 DEF Pass, Within
<1>5. UNCHANGED <<host, epoch, row, ingested, faults>> /\ Claim(c)
    BY DEF ClaimAfterIngest
<1>6. RowOK'
    BY <1>5, ClaimRow
<1>7. contiguous' = contiguous /\ confirmed' = confirmed
    BY <1>5 DEF row
<1> HIDE DEF q
<1> QED BY <1>1, <1>3, <1>4, <1>5, <1>6, <1>7, LocalStep

(* Failures, aborts, crashes and repairs. *)
LEMMA FaultSteps ==
    ASSUME PlaneInv, NEW c \in Consumers,
           \/ RecordFailure(c) \/ BreakLink(c) \/ StopConsumer(c)
           \/ CrashConsumer(c) \/ RepairStream(c)
    PROVE  PlaneInv' /\ contiguous' = contiguous /\ verdict' = verdict
<1>1. UNCHANGED <<host, epoch, state, contiguous, confirmed, ingested>>
    BY DEF RecordFailure, BreakLink, StopConsumer, CrashConsumer,
           RepairStream, row
<1>2. RowOK
    BY RowIsOK
<1>3. owner' \in Consumers \cup {Nobody, Departed}
  <2>1. owner' = owner \/ owner' = Departed
      BY DEF RecordFailure, BreakLink, StopConsumer, CrashConsumer,
             RepairStream, claim
  <2> QED BY <1>2, <2>1 DEF RowOK
<1>4. leased' \in BOOLEAN
  <2>1. leased' = leased \/ leased' = FALSE \/ leased' = (leased /\ owner # c)
      BY Zenon DEF RecordFailure, BreakLink, StopConsumer, CrashConsumer,
                   RepairStream, claim, Abort
  <2> QED BY <1>2, <2>1, Zenon DEF RowOK
<1>5. repairing' \in BOOLEAN
  <2>1. repairing' = repairing \/ repairing' = FALSE \/ repairing' = TRUE
      BY Zenon DEF RecordFailure, BreakLink, StopConsumer, CrashConsumer,
                   RepairStream, row
  <2> QED BY <1>2, <2>1, Zenon DEF RowOK
<1>6. faults' \in Nat
  <2>1. faults' = faults \/ faults' = faults + 1
      BY DEF RecordFailure, BreakLink, StopConsumer, CrashConsumer,
             RepairStream, Fault
  <2> QED BY <1>2, <2>1 DEF RowOK
<1>7. RowOK'
    BY <1>1, <1>2, <1>3, <1>4, <1>5, <1>6, Zenon DEF RowOK
<1> DEFINE q == [pass[c] EXCEPT !.at = "failing"]
<1>8. pass' = [pass EXCEPT ![c] = Idle] \/ pass' = [pass EXCEPT ![c] = q]
    BY DEF RecordFailure, BreakLink, StopConsumer, CrashConsumer,
           RepairStream, Abort
<1>9. pass[c] \in Pass /\ Within(pass[c], Len(emitted), contiguous, acknowledged)
    BY PassFields
<1>10. q \in Pass /\ Within(q, Len(emitted), contiguous, acknowledged)
    BY <1>9 DEF Pass, Places, Within
<1> HIDE DEF q
<1> QED BY <1>1, <1>7, <1>8, <1>10, LocalStep, BackToIdle

-----------------------------------------------------------------------------
(* Acknowledgements: a pass sends no position above the watermark, and the *)
(* owner records only what the host answered.                              *)
LEMMA AckSteps ==
    ASSUME PlaneInv, NEW c \in Consumers, SendAck(c) \/ LoseAck(c)
    PROVE  PlaneInv' /\ contiguous' = contiguous /\ verdict' = verdict
<1>1. UNCHANGED <<emitted, floor, epoch, row, claim, ingested>>
    BY DEF SendAck, LoseAck
<1>2. RowOK'
  <2>1. faults' \in Nat
    <3>1. faults' = faults \/ faults' = faults + 1
        BY DEF SendAck, LoseAck, Fault
    <3> QED BY <3>1, RowIsOK DEF RowOK
  <2> QED BY <1>1, <2>1, RowIsOK, Zenon DEF RowOK, row, claim
<1>3. contiguous' = contiguous /\ confirmed' = confirmed /\ verdict' = verdict
    BY <1>1 DEF row, ingested
<1>4. pass[c] \in Pass /\ Within(pass[c], Len(emitted), contiguous, acknowledged)
    BY PassFields
<1>5. PICK t \in Nat : t = pass[c].through /\ t <= contiguous
    BY <1>4 DEF Pass, Within
<1>6. acknowledged' = acknowledged \/ (acknowledged' = t /\ t > acknowledged)
    BY <1>5 DEF SendAck, LoseAck
<1>7. /\ acknowledged' \in Nat /\ acknowledged <= acknowledged'
      /\ acknowledged' <= contiguous
      /\ confirmed' \in Nat /\ confirmed' <= acknowledged'
    BY <1>3, <1>5, <1>6, Numbers
<1>8. CASE SendAck(c)
  <2> DEFINE a == IF acknowledged' # pass[c].through THEN "failing"
                  ELSE IF pass[c].at = "ack" THEN "ack_sent" ELSE "catchup_sent"
             q == [pass[c] EXCEPT !.at = a]
  <2>1. pass' = [pass EXCEPT ![c] = q]
      BY <1>8 DEF SendAck
  <2>2. a \in Places /\ a # "split"
          /\ (a \in {"catchup_sent", "ack_sent"} => acknowledged' = t)
      BY <1>5 DEF Places
  <2> HIDE DEF a
  <2>3. q \in Pass /\ q.at = a /\ q.read = pass[c].read /\ q.got = pass[c].got
          /\ q.through = t
      BY <1>4, <1>5, <2>2 DEF Pass
  <2> HIDE DEF q
  <2>4. a \in {"catchup_sent", "ack_sent"} => q.through <= acknowledged'
      BY <1>5, <2>2, <2>3
  <2>5. Within(q, Len(emitted), contiguous, acknowledged')
      BY <1>4, <1>5, <2>2, <2>3, <2>4 DEF Within
  <2> QED BY <1>1, <1>2, <1>3, <1>7, <2>1, <2>3, <2>5, PassStep
<1>9. CASE LoseAck(c)
  <2> DEFINE q == [pass[c] EXCEPT !.at = "failing"]
  <2>1. pass' = [pass EXCEPT ![c] = q]
      BY <1>9 DEF LoseAck
  <2>2. q \in Pass /\ Within(q, Len(emitted), contiguous, acknowledged')
      BY <1>4 DEF Pass, Places, Within
  <2> HIDE DEF q
  <2> QED BY <1>1, <1>2, <1>3, <1>7, <2>1, <2>2, PassStep
<1> QED BY <1>8, <1>9

LEMMA RecordStep ==
    ASSUME PlaneInv, NEW c \in Consumers, RecordAck(c)
    PROVE  PlaneInv' /\ contiguous' = contiguous /\ verdict' = verdict
<1>1. UNCHANGED <<host, epoch, state, contiguous, claim, ingested, faults>>
    BY DEF RecordAck
<1>2. RowOK'
  <2>1. repairing' \in BOOLEAN
    <3>1. repairing' = repairing
            \/ repairing' = (repairing /\ pass[c].through <= confirmed)
        BY Zenon DEF RecordAck
    <3> QED BY <3>1, RowIsOK, Zenon DEF RowOK
  <2> QED BY <1>1, <2>1, RowIsOK, Zenon DEF RowOK, claim
<1>3. emitted' = emitted /\ floor' = floor /\ acknowledged' = acknowledged
          /\ verdict' = verdict
    BY <1>1 DEF host, ingested
<1>4. pass[c] \in Pass /\ Within(pass[c], Len(emitted), contiguous, acknowledged)
    BY PassFields
<1>5. PICK t \in Nat : /\ t = pass[c].through /\ t <= contiguous
                       /\ t <= acknowledged
    BY <1>4 DEF Pass, Within, RecordAck
<1>6. confirmed' = confirmed \/ confirmed' = t
    BY <1>5 DEF RecordAck
<1>7. /\ acknowledged' \in Nat /\ acknowledged <= acknowledged'
      /\ acknowledged' <= contiguous
      /\ confirmed' \in Nat /\ confirmed' <= acknowledged'
    BY <1>3, <1>5, <1>6, Numbers
<1> DEFINE a == IF pass[c].at = "ack_sent" THEN "reading" ELSE "open"
           q == [pass[c] EXCEPT !.at = a, !.lastAck = pass[c].through,
                                !.through = 0]
<1>8. pass' = [pass EXCEPT ![c] = Idle] \/ pass' = [pass EXCEPT ![c] = q]
    BY DEF RecordAck
<1>9. a \in {"reading", "open"}
    OBVIOUS
<1> HIDE DEF a
<1>10. q \in Pass /\ q.at = a /\ q.read = pass[c].read /\ q.got = pass[c].got
          /\ q.through = 0
    BY <1>4, <1>9 DEF Pass, Places
<1> HIDE DEF q
<1>11. Within(q, Len(emitted), contiguous, acknowledged')
  <2>1. q.through <= contiguous
      BY <1>10, Numbers
  <2> QED BY <1>4, <1>9, <1>10, <2>1 DEF Within
<1>12. Idle \in Pass /\ Within(Idle, Len(emitted), contiguous, acknowledged')
    BY <1>7, Numbers, IdleWithin
<1> HIDE DEF Idle
<1> QED BY <1>1, <1>2, <1>3, <1>7, <1>8, <1>10, <1>11, <1>12, PassStep

-----------------------------------------------------------------------------
(* Ingest. *)

(* What an ingest transaction over positions up to hi achieves. *)
Settles(hi) ==
    /\ contiguous' \in Nat
    /\ contiguous <= contiguous'
    /\ hi <= contiguous'
    /\ contiguous' <= Len(emitted)
    /\ state' \in {"absent", "active", "lost"}
    /\ verdict' \in [Position -> Verdicts \cup {"none", "pending_gap"}]
    /\ runSequence' \in [Position -> Nat]
    /\ nextSequence' \in [Runs -> Nat]
    /\ SettledPrefix'
    /\ RunOrder'
    /\ \A p \in 1..contiguous : verdict'[p] = verdict[p]

(* Exactly the positions above the watermark have no verdict. *)
LEMMA Unsettled ==
    ASSUME PlaneInv, NEW p \in Position
    PROVE  /\ verdict[p] = "none" <=> contiguous < p
           /\ p <= contiguous => verdict[p] \in Verdicts
<1>1. p \in Nat /\ contiguous \in Nat
    BY Numbers DEF Position
<1>2. verdict[p] \in IF p <= contiguous THEN Verdicts ELSE {"none"}
    BY DEF PlaneInv, SettledPrefix
<1>3. "none" \notin Verdicts
    BY DEF Verdicts
<1>4. CASE p <= contiguous
    BY <1>1, <1>2, <1>3, <1>4
<1>5. CASE contiguous < p
    BY <1>1, <1>2, <1>5
<1> QED BY <1>1, <1>4, <1>5

LEMMA IngestSettles ==
    ASSUME PlaneInv, NEW c \in Consumers, NEW lo \in Nat, NEW hi \in Nat,
           lo <= contiguous, lo < hi, hi <= Len(emitted),
           emitted' = emitted, Ingest(c, (lo + 1)..hi)
    PROVE  Settles(hi)
<1> DEFINE ps == (lo + 1)..hi
           d == Classify(ps)
<1>1. /\ contiguous \in Nat /\ Len(emitted) \in Nat /\ MaxEvents \in Nat
      /\ Len(emitted) <= MaxEvents /\ contiguous <= Len(emitted)
    BY Numbers
<1>2. ps \subseteq Position
    BY <1>1 DEF Position
<1>3. verdict \in [Position -> Verdicts \cup {"none", "pending_gap"}]
    BY DEF PlaneInv, TypeOK
<1>4. CASE \E p \in ps : verdict[p] = "none"
  <2>1. Promote(d)
      BY <1>4, Zenon DEF Ingest
  <2>2. contiguous < hi
    <3>1. PICK p \in ps : verdict[p] = "none"
        BY <1>4
    <3>2. contiguous < p
        BY <1>2, <3>1, Unsettled
    <3> QED BY <1>1, <3>2
  <2>3. d \in [Position -> Verdicts \cup {"none", "pending_gap"}]
      BY <1>3 DEF Classify, Verdicts
  <2>4. ASSUME NEW p \in Position, p <= contiguous PROVE d[p] = verdict[p]
    <3>1. verdict[p] # "none"
        BY <1>1, <2>4, Unsettled DEF Position
    <3> QED BY <3>1 DEF Classify
  <2>5. ASSUME NEW p \in Position, contiguous < p, p <= hi
        PROVE  \/ d[p] = "skipped"
               \/ d[p] = "pending_gap" /\ Run(p) \in Runs
    <3>1. p \in ps
        BY <1>1, <2>5 DEF Position
    <3>2. verdict[p] = "none"
        BY <2>5, Unsettled
    <3> HIDE DEF ps
    <3> QED BY <3>1, <3>2 DEF Classify
  <2>6. ASSUME NEW p \in Position, hi < p PROVE d[p] = "none"
    <3>1. p \notin ps
        BY <2>6 DEF Position
    <3>2. verdict[p] = "none"
        BY <1>1, <2>2, <2>6, Unsettled DEF Position
    <3> HIDE DEF ps
    <3> QED BY <3>1, <3>2 DEF Classify
  <2> HIDE DEF d, ps
  <2>7. contiguous <= hi
      BY <1>1, <2>2
  <2>8. /\ contiguous' = hi /\ state' = "active"
        /\ verdict' \in [Position -> Verdicts \cup {"none", "pending_gap"}]
        /\ runSequence' \in [Position -> Nat]
        /\ nextSequence' \in [Runs -> Nat]
        /\ SettledPrefix' /\ RunOrder'
        /\ \A p \in 1..contiguous : verdict'[p] = verdict[p]
      BY <2>1, <2>3, <2>4, <2>5, <2>6, <2>7, PromoteStep
  <2> QED BY <2>7, <2>8 DEF Settles
<1>5. CASE ~ \E p \in ps : verdict[p] = "none"
  <2>1. UNCHANGED <<ingested, contiguous, state>>
      BY <1>5, Zenon DEF Ingest
  <2>2. hi <= contiguous
    <3>1. hi \in ps /\ hi \in Position
        BY <1>2
    <3>2. ~(contiguous < hi)
        BY <1>5, <3>1, Unsettled
    <3> QED BY <1>1, <3>2
  <2>3. SettledPrefix' /\ RunOrder'
      BY <2>1, SettledKept
  <2>4. /\ verdict' = verdict /\ runSequence' = runSequence
        /\ nextSequence' = nextSequence /\ contiguous' = contiguous
        /\ state' = state
      BY <2>1 DEF ingested
  <2>5. /\ state' \in {"absent", "active", "lost"}
        /\ verdict' \in [Position -> Verdicts \cup {"none", "pending_gap"}]
        /\ runSequence' \in [Position -> Nat]
        /\ nextSequence' \in [Runs -> Nat]
      BY <2>4 DEF PlaneInv, TypeOK
  <2>6. contiguous' \in Nat /\ contiguous <= contiguous' /\ hi <= contiguous'
          /\ contiguous' <= Len(emitted)
      BY <1>1, <2>2, <2>4
  <2> QED BY <2>3, <2>4, <2>5, <2>6 DEF Settles
<1> QED BY <1>4, <1>5

LEMMA QuarantineSettles ==
    ASSUME PlaneInv, NEW p \in Nat, p <= contiguous + 1, 0 < p,
           p <= Len(emitted), emitted' = emitted,
           Unstorable(p), Quarantine(p)
    PROVE  Settles(p)
<1> DEFINE d == [verdict EXCEPT ![p] = "skipped"]
<1>1. /\ contiguous \in Nat /\ Len(emitted) \in Nat /\ MaxEvents \in Nat
      /\ Len(emitted) <= MaxEvents /\ contiguous <= Len(emitted)
    BY Numbers
<1>2. p \in Position
    BY <1>1 DEF Position
<1>3. verdict[p] = "none"
    BY DEF Unstorable
<1>4. p = contiguous + 1
    BY <1>1, <1>2, <1>3, Unsettled
<1>5. verdict \in [Position -> Verdicts \cup {"none", "pending_gap"}]
    BY DEF PlaneInv, TypeOK
<1>6. d \in [Position -> Verdicts \cup {"none", "pending_gap"}]
    BY <1>5 DEF Verdicts
<1>7. ASSUME NEW x \in Position, x <= contiguous PROVE d[x] = verdict[x]
    BY <1>1, <1>4, <1>5, <1>7 DEF Position
<1>8. ASSUME NEW x \in Position, contiguous < x, x <= p PROVE d[x] = "skipped"
  <2>1. x = p
      BY <1>1, <1>4, <1>8 DEF Position
  <2> QED BY <1>2, <1>5, <2>1
<1>9. ASSUME NEW x \in Position, p < x PROVE d[x] = "none"
  <2>1. x # p /\ contiguous < x
      BY <1>1, <1>4, <1>9 DEF Position
  <2>2. verdict[x] = "none"
      BY <2>1, Unsettled
  <2> QED BY <1>5, <2>1, <2>2
<1>10. Promote(d)
    BY DEF Quarantine
<1> HIDE DEF d
<1>11. contiguous <= p
    BY <1>1, <1>4
<1>12. /\ contiguous' = p /\ state' = "active"
       /\ verdict' \in [Position -> Verdicts \cup {"none", "pending_gap"}]
       /\ runSequence' \in [Position -> Nat]
       /\ nextSequence' \in [Runs -> Nat]
       /\ SettledPrefix' /\ RunOrder'
       /\ \A x \in 1..contiguous : verdict'[x] = verdict[x]
    BY <1>6, <1>7, <1>8, <1>9, <1>10, <1>11, PromoteStep
<1> QED BY <1>11, <1>12 DEF Settles

(* After the commit the pass stands at the end of what it handed over. *)
LEMMA AfterBatchWithin ==
    ASSUME PlaneInv, NEW c \in Consumers, NEW end \in Nat, NEW r,
           contiguous' \in Nat, contiguous <= contiguous', end <= contiguous'
    PROVE  /\ AfterBatch(pass[c], r, end) \in Pass
           /\ Within(AfterBatch(pass[c], r, end), Len(emitted), contiguous',
                     acknowledged)
<1>1. /\ pass[c] \in Pass
      /\ Within(pass[c], Len(emitted), contiguous', acknowledged)
    BY Numbers, PassFields, PassesStay
<1>2. Idle \in Pass /\ Within(Idle, Len(emitted), contiguous', acknowledged)
    BY Numbers, IdleWithin
<1>3. ASSUME NEW a \in {"bootstrap", "ack", "reading"}, NEW t \in Nat,
             t <= contiguous'
      PROVE  LET q == [pass[c] EXCEPT !.at = a, !.got = end, !.cut = 0,
                                      !.renewed = "none", !.through = t]
             IN  q \in Pass /\ Within(q, Len(emitted), contiguous', acknowledged)
  <2> DEFINE q == [pass[c] EXCEPT !.at = a, !.got = end, !.cut = 0,
                                  !.renewed = "none", !.through = t]
  <2>1. q \in Pass
      BY <1>1, <1>3 DEF Pass, Places
  <2>2. q.at = a /\ q.got = end /\ q.read = pass[c].read /\ q.through = t
      BY <1>1 DEF Pass
  <2> HIDE DEF q
  <2>3. Within(q, Len(emitted), contiguous', acknowledged)
      BY <1>1, <1>3, <2>2 DEF Within
  <2> QED BY <2>1, <2>3 DEF q
<1>4. LET q == [pass[c] EXCEPT !.at = "reading", !.got = end, !.cut = 0,
                               !.renewed = "none"]
      IN  q \in Pass /\ Within(q, Len(emitted), contiguous', acknowledged)
  <2> DEFINE q == [pass[c] EXCEPT !.at = "reading", !.got = end, !.cut = 0,
                                  !.renewed = "none"]
  <2>1. q \in Pass
      BY <1>1 DEF Pass, Places
  <2>2. /\ q.at = "reading" /\ q.got = end /\ q.read = pass[c].read
        /\ q.through = pass[c].through
      BY <1>1 DEF Pass
  <2> HIDE DEF q
  <2>3. Within(q, Len(emitted), contiguous', acknowledged)
      BY <1>1, <2>2 DEF Within
  <2> QED BY <2>1, <2>3 DEF q
<1> DEFINE q1 == [pass[c] EXCEPT !.at = "bootstrap", !.got = end, !.cut = 0,
                                 !.renewed = "none", !.through = contiguous']
           q2 == [pass[c] EXCEPT !.at = "ack", !.got = end, !.cut = 0,
                                 !.renewed = "none", !.through = contiguous']
           q3 == [pass[c] EXCEPT !.at = "reading", !.got = end, !.cut = 0,
                                 !.renewed = "none"]
<1>5. AfterBatch(pass[c], r, end) \in {q1, Idle, q2, q3}
    BY DEF AfterBatch
<1>6. q1 \in Pass /\ Within(q1, Len(emitted), contiguous', acknowledged)
  <2>1. contiguous' <= contiguous' /\ "bootstrap" \in {"bootstrap", "ack", "reading"}
      OBVIOUS
  <2> QED BY <1>3, <2>1, Zenon
<1>7. q2 \in Pass /\ Within(q2, Len(emitted), contiguous', acknowledged)
  <2>1. contiguous' <= contiguous' /\ "ack" \in {"bootstrap", "ack", "reading"}
      OBVIOUS
  <2> QED BY <1>3, <2>1, Zenon
<1>8. q3 \in Pass /\ Within(q3, Len(emitted), contiguous', acknowledged)
    BY <1>4
<1> HIDE DEF q1, q2, q3, Idle
<1> QED BY <1>2, <1>5, <1>6, <1>7, <1>8

(* The watermark rises and no verdict below it changes. *)
Grows ==
    /\ contiguous <= contiguous'
    /\ \A p \in 1..contiguous : verdict'[p] = verdict[p]

LEMMA IngestStep ==
    ASSUME PlaneInv, NEW c \in Consumers, NEW q \in Pass, NEW hi,
           pass' = [pass EXCEPT ![c] = q], Settles(hi), leased' \in BOOLEAN,
           UNCHANGED <<host, epoch, confirmed, repairing, owner, faults>>,
           Within(q, Len(emitted), contiguous', acknowledged)
    PROVE  PlaneInv' /\ Grows
<1>1. emitted' = emitted /\ floor' = floor /\ acknowledged' = acknowledged
    BY DEF host
<1>2. contiguous' \in Nat /\ contiguous <= contiguous' /\ contiguous' <= Len(emitted)
    BY DEF Settles
<1>3. pass' \in [Consumers -> Pass] /\ PassBounds'
  <2>1. /\ Len(emitted') \in Nat /\ acknowledged' \in Nat
        /\ Len(emitted) <= Len(emitted') /\ acknowledged <= acknowledged'
      BY <1>1, Numbers
  <2>2. Within(q, Len(emitted'), contiguous', acknowledged')
      BY <1>1
  <2> QED BY <1>2, <2>1, <2>2, PassMoves
<1>4. RowOK'
  <2>1. state' \in {"absent", "active", "lost"}
      BY DEF Settles
  <2> QED BY <2>1, RowIsOK, Zenon DEF RowOK
<1>5. /\ emitted' \in Seq(Envelopes) /\ floor' \in Nat /\ acknowledged' \in Nat
      /\ epoch' \in [Runs -> Nat] /\ confirmed' \in Nat
    BY <1>1 DEF PlaneInv, TypeOK
<1>6. /\ verdict' \in [Position -> Verdicts \cup {"none", "pending_gap"}]
      /\ runSequence' \in [Position -> Nat]
      /\ nextSequence' \in [Runs -> Nat]
      /\ SettledPrefix' /\ RunOrder' /\ Grows
    BY DEF Settles, Grows
<1>7. TypeOK'
    BY <1>2, <1>3, <1>4, <1>5, <1>6, TypeNext
<1>8. NothingLost' /\ Len(emitted') <= MaxEvents
    BY <1>1, <1>2, Numbers DEF NothingLost
<1> QED BY <1>3, <1>6, <1>7, <1>8 DEF PlaneInv

LEMMA BatchStep ==
    ASSUME PlaneInv, NEW c \in Consumers, IngestBatch(c)
    PROVE  PlaneInv' /\ Grows
<1>1. PICK cut \in Cuts(c) :
          /\ Ingest(c, Batch(c, cut))
          /\ pass' = [pass EXCEPT ![c] = AfterBatch(@, Renewed(c), cut)]
    BY DEF IngestBatch
<1>2. UNCHANGED <<host, epoch, confirmed, repairing, owner, faults>>
    BY DEF IngestBatch
<1>3. /\ pass[c].got \in Nat /\ pass[c].read \in Nat
      /\ pass[c].got <= contiguous /\ pass[c].read <= Len(emitted)
    BY PassFields DEF Within
<1>4. cut \in Nat /\ pass[c].got < cut /\ cut <= Len(emitted)
    BY <1>3, Numbers DEF Cuts
<1>5. emitted' = emitted
    BY <1>2 DEF host
<1>6. Settles(cut)
    BY <1>1, <1>3, <1>4, <1>5, IngestSettles DEF Batch
<1>7. leased' \in BOOLEAN
    BY <1>1, Zenon DEF Ingest
<1> DEFINE q == AfterBatch(pass[c], Renewed(c), cut)
<1>8. pass' = [pass EXCEPT ![c] = q]
    BY <1>1
<1>9. contiguous' \in Nat /\ contiguous <= contiguous' /\ cut <= contiguous'
    BY <1>6 DEF Settles
<1>10. q \in Pass /\ Within(q, Len(emitted), contiguous', acknowledged)
    BY <1>4, <1>9, AfterBatchWithin
<1> HIDE DEF q
<1> QED BY <1>2, <1>6, <1>7, <1>8, <1>10, IngestStep

LEMMA OneStep ==
    ASSUME PlaneInv, NEW c \in Consumers, IngestOne(c)
    PROVE  PlaneInv' /\ Grows
<1> DEFINE p == pass[c].got + 1
           r == IF Unstorable(p) THEN pass[c].renewed
                ELSE Merge(pass[c].renewed, Renewed(c))
           q1 == AfterBatch(pass[c], r, p)
           q2 == [pass[c] EXCEPT !.got = p, !.renewed = r]
<1>1. /\ pass[c].at = "split"
      /\ (~Unstorable(p) /\ Ingest(c, {p})) \/ (Unstorable(p) /\ Quarantine(p))
      /\ pass' = [pass EXCEPT ![c] = IF p = pass[c].cut THEN q1 ELSE q2]
      /\ UNCHANGED <<host, epoch, confirmed, repairing, owner, faults>>
    BY DEF IngestOne
<1>2. pass[c] \in Pass /\ Within(pass[c], Len(emitted), contiguous, acknowledged)
    BY PassFields
<1>3. /\ pass[c].got \in Nat /\ pass[c].read \in Nat /\ pass[c].cut \in Nat
      /\ pass[c].got <= contiguous /\ pass[c].read <= Len(emitted)
      /\ pass[c].got < pass[c].cut /\ pass[c].cut <= pass[c].read
    BY <1>1, <1>2 DEF Within, Pass
<1>4. /\ p \in Nat /\ 0 < p /\ p <= contiguous + 1 /\ p <= Len(emitted)
      /\ pass[c].got < p /\ p <= pass[c].cut
  <2>1. contiguous \in Nat /\ Len(emitted) \in Nat
      BY Numbers
  <2>2. PICK g \in Nat : g = pass[c].got
      BY <1>3
  <2>3. PICK k \in Nat : k = pass[c].cut
      BY <1>3
  <2> QED BY <1>3, <2>1, <2>2, <2>3
<1>5. emitted' = emitted
    BY <1>1 DEF host
<1>6. r \in {"none", "yes", "no"}
  <2>1. pass[c].renewed \in {"none", "yes", "no"}
      BY <1>2 DEF Pass
  <2> QED BY <2>1 DEF Merge
<1>7. Settles(p) /\ leased' \in BOOLEAN
  <2>1. CASE ~Unstorable(p) /\ Ingest(c, {p})
    <3>1. {p} = (pass[c].got + 1)..p
        BY <1>3
    <3>2. Ingest(c, (pass[c].got + 1)..p)
        BY <2>1, <3>1
    <3>3. leased' \in BOOLEAN
        BY <2>1, Zenon DEF Ingest
    <3> HIDE DEF p
    <3>4. Settles(p)
        BY <1>3, <1>4, <1>5, <3>2, IngestSettles
    <3> QED BY <3>3, <3>4
  <2>2. CASE Unstorable(p) /\ Quarantine(p)
    <3>1. leased' \in BOOLEAN
        BY <2>2, RowIsOK, Zenon DEF Quarantine, RowOK
    <3> HIDE DEF p
    <3>2. Settles(p)
        BY <1>4, <1>5, <2>2, QuarantineSettles
    <3> QED BY <3>1, <3>2
  <2> QED BY <1>1, <2>1, <2>2
<1> HIDE DEF r, p
<1>8. contiguous' \in Nat /\ contiguous <= contiguous' /\ p <= contiguous'
    BY <1>7 DEF Settles
<1>9. CASE p = pass[c].cut
  <2>1. pass' = [pass EXCEPT ![c] = q1]
      BY <1>1, <1>9
  <2>2. q1 \in Pass /\ Within(q1, Len(emitted), contiguous', acknowledged)
      BY <1>4, <1>8, AfterBatchWithin
  <2> HIDE DEF q1
  <2> QED BY <1>1, <1>7, <2>1, <2>2, IngestStep
<1>10. CASE p # pass[c].cut
  <2>1. pass' = [pass EXCEPT ![c] = q2]
      BY <1>1, <1>10
  <2>2. q2 \in Pass
      BY <1>2, <1>4, <1>6 DEF Pass
  <2>3. /\ q2.at = "split" /\ q2.got = p /\ q2.read = pass[c].read
        /\ q2.through = pass[c].through /\ q2.cut = pass[c].cut
      BY <1>1, <1>2 DEF Pass
  <2> HIDE DEF q2
  <2>4. Within(pass[c], Len(emitted), contiguous', acknowledged)
      BY <1>8, Numbers, PassesStay
  <2>5. q2.got < q2.cut
      BY <1>3, <1>4, <1>10, <2>3
  <2>6. Within(q2, Len(emitted), contiguous', acknowledged)
      BY <1>1, <1>8, <2>3, <2>4, <2>5 DEF Within
  <2> QED BY <1>1, <1>7, <2>1, <2>2, <2>6, IngestStep
<1> QED BY <1>9, <1>10

-----------------------------------------------------------------------------
(* The induction. *)

LEMMA InitInv ==
    ASSUME Init
    PROVE  PlaneInv
<1>1. emitted = <<>> /\ Len(emitted) = 0 /\ emitted \in Seq(Envelopes)
    BY DEF Init
<1>2. TypeOK
  <2>1. state \in {"absent", "active", "lost"}
      BY DEF Init
  <2>2. leased \in BOOLEAN /\ repairing \in BOOLEAN
      BY DEF Init
  <2>3. pass \in [Consumers -> Pass]
      BY DEF Init, Idle, Pass, Places
  <2>4. /\ verdict \in [Position -> Verdicts \cup {"none", "pending_gap"}]
        /\ runSequence \in [Position -> Nat] /\ nextSequence \in [Runs -> Nat]
        /\ epoch \in [Runs -> Nat]
      BY DEF Init
  <2>5. /\ floor \in Nat /\ acknowledged \in Nat /\ contiguous \in Nat
        /\ confirmed \in Nat /\ faults \in Nat
        /\ owner \in Consumers \cup {Nobody, Departed}
      BY DEF Init
  <2> QED BY <1>1, <2>1, <2>2, <2>3, <2>4, <2>5, Zenon DEF TypeOK
<1>3. NothingLost /\ Len(emitted) <= MaxEvents
    BY <1>1, PlaneAssumption DEF Init, NothingLost
<1>4. SettledPrefix
    BY DEF Init, SettledPrefix, Position
<1>5. RunOrder
    BY DEF Init, RunOrder
<1>6. PassBounds
    BY <1>1 DEF Init, PassBounds, Idle
<1> QED BY <1>2, <1>3, <1>4, <1>5, <1>6 DEF PlaneInv

LEMMA QuietGrows ==
    ASSUME PlaneInv, contiguous' = contiguous, verdict' = verdict
    PROVE  Grows
BY Numbers DEF Grows

LEMMA NextInv ==
    ASSUME PlaneInv, [Next]_vars
    PROVE  PlaneInv' /\ Grows
<1>1. CASE \/ \E e \in Envelopes : AppendEvent(e)
           \/ PruneEvents
           \/ \E r \in Runs : MintAssignment(r)
    BY <1>1, HostSteps, QuietGrows
<1>2. CASE ExpireLease \/ PauseHolder \/ DegradeStream
    BY <1>2, LeaseSteps, QuietGrows
<1>3. ASSUME NEW c \in Consumers,
             \/ Consume(c)
             \/ LoseAck(c) \/ BreakLink(c) \/ StopConsumer(c)
             \/ CrashConsumer(c) \/ RepairStream(c)
      PROVE  PlaneInv' /\ Grows
  <2>1. CASE StartPass(c) \/ StartUnclaimed(c)
      BY <2>1, StartSteps, QuietGrows
  <2>2. CASE OpenStream(c)
      BY <2>2, OpenStep, QuietGrows
  <2>3. CASE \/ ReadFrame(c) \/ SplitBatch(c) \/ ReconnectUnclaimed(c)
             \/ CloseBelowFloor(c)
      BY <2>3, MoveSteps, QuietGrows
  <2>4. CASE IngestBatch(c)
      BY <2>4, BatchStep
  <2>5. CASE IngestOne(c)
      BY <2>5, OneStep
  <2>6. CASE ClaimAfterIngest(c)
      BY <2>6, BootstrapStep, QuietGrows
  <2>7. CASE SendAck(c) \/ LoseAck(c)
      BY <2>7, AckSteps, QuietGrows
  <2>8. CASE RecordAck(c)
      BY <2>8, RecordStep, QuietGrows
  <2>9. CASE \/ RecordFailure(c) \/ BreakLink(c) \/ StopConsumer(c)
             \/ CrashConsumer(c) \/ RepairStream(c)
      BY <2>9, FaultSteps, QuietGrows
  <2> QED BY <1>3, <2>1, <2>2, <2>3, <2>4, <2>5, <2>6, <2>7, <2>8, <2>9, Zenon
          DEF Consume
<1>4. CASE UNCHANGED vars
  <2>1. /\ pass' = pass /\ UNCHANGED ingested /\ UNCHANGED <<host, epoch>>
        /\ contiguous' = contiguous /\ confirmed' = confirmed
        /\ state' = state /\ owner' = owner /\ faults' = faults
      BY <1>4 DEF vars, row, claim
  <2>2. leased' = leased /\ repairing' = repairing
      BY <1>4, Zenon DEF vars, row, claim
  <2>3. RowOK'
      BY <2>1, <2>2, RowIsOK, Zenon DEF RowOK
  <2>4. emitted' = emitted /\ floor' = floor /\ acknowledged' = acknowledged
          /\ verdict' = verdict
      BY <2>1 DEF host, ingested
  <2>5. emitted' \in Seq(Envelopes) /\ epoch' \in [Runs -> Nat]
      BY <2>1, <2>4 DEF PlaneInv, TypeOK
  <2>6. /\ Len(emitted) <= Len(emitted') /\ Len(emitted') <= MaxEvents
        /\ floor' \in Nat /\ floor' <= acknowledged
      BY <2>4, Numbers
  <2> QED BY <2>1, <2>3, <2>4, <2>5, <2>6, QuietStep, QuietGrows
<1> QED BY <1>1, <1>2, <1>3, <1>4, Zenon DEF Next

(* PlaneInv holds of every behaviour of the host, its consumers and the    *)
(* health pass, for any number of consumers, runs and positions.           *)
THEOREM Safety == Spec => []PlaneInv
<1>1. Init => PlaneInv
    BY InitInv
<1>2. PlaneInv /\ [Next]_vars => PlaneInv'
    BY NextInv
<1> QED BY <1>1, <1>2, PTL DEF Spec

(* The host prunes only what the manager settled, and the manager records  *)
(* only acknowledgements the host made, whichever consumer sent them       *)
(* (ackRuntimeEvents, recordConfirmedRuntimeEventAck).                     *)
THEOREM PrunesOnlySettled == Spec => []NothingLost
<1>1. PlaneInv => NothingLost
    BY DEF PlaneInv
<1> QED BY <1>1, Safety, PTL

(* The watermark has no hole below it and nothing settled above it         *)
(* (promoteContiguousPrefix).                                              *)
THEOREM WatermarkIsSettled == Spec => []SettledPrefix
<1>1. PlaneInv => SettledPrefix
    BY DEF PlaneInv
<1> QED BY <1>1, Safety, PTL

(* The run sequences of the accepted events follow the host's order        *)
(* (applyPromotedPage).                                                    *)
THEOREM RunSequenceOrder == Spec => []RunOrder
<1>1. PlaneInv => RunOrder
    BY DEF PlaneInv
<1> QED BY <1>1, Safety, PTL

(* The abstract log of a state. *)
LEMMA LogIsSeq ==
    ASSUME PlaneInv
    PROVE  /\ [p \in 1..contiguous |-> verdict[p]] \in Seq(Verdicts)
           /\ Len([p \in 1..contiguous |-> verdict[p]]) = contiguous
<1>1. contiguous \in Nat /\ contiguous <= MaxEvents /\ MaxEvents \in Nat
    BY Numbers
<1>2. \A p \in 1..contiguous : verdict[p] \in Verdicts
    BY <1>1, Unsettled DEF Position
<1> QED BY <1>1, <1>2

(* The plane implements OrderedLog: positions are settled in host order,   *)
(* each of them once, and no replay changes a verdict                      *)
(* (ingestRuntimeEventBatch).                                              *)
THEOREM SettlesInOrderOnce == Spec => InOrderOnce
<1> DEFINE log == [p \in 1..contiguous |-> verdict[p]]
<1>1. Init => Log!Init
  <2> SUFFICES ASSUME Init PROVE log = <<>>
      BY DEF Log!Init
  <2>1. contiguous = 0
      BY DEF Init
  <2> QED BY <2>1
<1>2. PlaneInv /\ PlaneInv' /\ [Next]_vars => [Log!Settle]_log
  <2> SUFFICES ASSUME PlaneInv, PlaneInv', [Next]_vars, log' # log
               PROVE  Log!Settle
      OBVIOUS
  <2>1. Grows
      BY NextInv
  <2>2. log \in Seq(Verdicts) /\ Len(log) = contiguous
      BY LogIsSeq
  <2>3. log' \in Seq(Verdicts) /\ Len(log') = contiguous'
    <3>1. contiguous' \in Nat /\ contiguous' <= MaxEvents
      <4>1. contiguous' \in Nat /\ emitted' \in Seq(Envelopes)
              /\ contiguous' <= Len(emitted') /\ Len(emitted') <= MaxEvents
          BY DEF PlaneInv, TypeOK, NothingLost
      <4>2. Len(emitted') \in Nat
          BY <4>1, LenProperties
      <4> QED BY <4>1, <4>2, PlaneAssumption
    <3>2. \A p \in 1..contiguous' : verdict'[p] \in Verdicts
      <4> SUFFICES ASSUME NEW p \in 1..contiguous' PROVE verdict'[p] \in Verdicts
          OBVIOUS
      <4>1. p \in Position /\ p <= contiguous'
          BY <3>1, PlaneAssumption DEF Position
      <4>2. SettledPrefix'
          BY DEF PlaneInv
      <4> QED BY <4>1, <4>2 DEF SettledPrefix
    <3> QED BY <3>1, <3>2
  <2>4. contiguous \in Nat /\ contiguous' \in Nat /\ contiguous <= contiguous'
      BY <2>1, Numbers DEF PlaneInv, TypeOK, Grows
  <2>5. \A p \in 1..contiguous : log'[p] = log[p]
      BY <2>1, <2>4 DEF Grows
  <2>6. contiguous # contiguous'
    <3> SUFFICES ASSUME contiguous' = contiguous PROVE log' = log
        OBVIOUS
    <3> QED BY <2>1 DEF Grows
  <2> HIDE DEF log
  <2>7. Len(log) < Len(log') /\ \A p \in 1..Len(log) : log'[p] = log[p]
      BY <2>2, <2>3, <2>4, <2>5, <2>6
  <2> QED BY <2>3, <2>7 DEF Log!Settle, Log!Extends, log
<1>3. Spec => []PlaneInv
    BY Safety
<1> QED BY <1>1, <1>2, <1>3, PTL DEF Spec, InOrderOnce, Log!Spec

=============================================================================
