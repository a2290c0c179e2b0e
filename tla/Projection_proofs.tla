-------------------------- MODULE Projection_proofs --------------------------
(***************************************************************************)
(* Proofs about Projection: the handler has applied exactly the events up  *)
(* to the cursor, a recorded failure lies ahead of it, and only a matching *)
(* repair ends a poisoned run's rest.  The induction runs over             *)
(* ProjectionInv, taken apart by run and by actor.                         *)
(***************************************************************************)
EXTENDS Projection, SequenceTheorems, TLAPS

USE ProjectionAssumption

(* What ProjectionInv says of one run. *)
RowFacts(r) ==
    /\ view[r] = [i \in 1..cursor[r] |-> i]
    /\ state[r] # "ready" => cursor[r] < failed[r] /\ failed[r] <= accepted[r]
    /\ cursor[r] <= accepted[r]
    /\ state[r] = "ready" => failed[r] = 0
    /\ state[r] = "poisoned" => owner[r] = Nobody

(* What ProjectionInv says of one slot or reader. *)
WorkFacts(a) ==
    actor[a].at # "idle" =>
        /\ actor[a].run \in Runs
        /\ actor[a].cursor <= accepted[actor[a].run]
        /\ actor[a].upto <= accepted[actor[a].run]
        /\ actor[a].failed <= accepted[actor[a].run]
        /\ actor[a].at = "prepared" => actor[a].cursor <= actor[a].upto

(* ProjectionInv run by run and actor by actor. *)
LEMMA InvParts ==
    ProjectionInv <=> /\ TypeOK
                      /\ \A r \in Runs : RowFacts(r)
                      /\ \A a \in Actors : WorkFacts(a)
BY DEF ProjectionInv, ViewFollowsCursor, FailureIsAhead, RowFacts, WorkFacts

LEMMA InvPartsNext ==
    ASSUME TypeOK', \A r \in Runs : RowFacts(r)', \A a \in Actors : WorkFacts(a)'
    PROVE  ProjectionInv'
BY DEF ProjectionInv, ViewFollowsCursor, FailureIsAhead, RowFacts, WorkFacts

-----------------------------------------------------------------------------
(* What the steps leave alone. *)

LEMMA RunsAreNat == Runs \subseteq Nat
BY DEF Runs

(* An actor that goes idle leaves nothing to show. *)
LEMMA GoesIdle ==
    ASSUME ProjectionInv, NEW b \in Actors,
           actor' = [actor EXCEPT ![b] = Idle], accepted' = accepted
    PROVE  actor' \in [Actors -> Work] /\ \A a \in Actors : WorkFacts(a)'
<1>1. actor \in [Actors -> Work] /\ \A a \in Actors : WorkFacts(a)
    BY InvParts DEF TypeOK
<1>2. Idle \in Work /\ Idle.at = "idle"
    BY DEF Idle, Work
<1>3. actor' \in [Actors -> Work]
    BY <1>1, <1>2
<1>4. ASSUME NEW a \in Actors PROVE WorkFacts(a)'
    BY <1>1, <1>2 DEF WorkFacts
<1> QED BY <1>3, <1>4

(* An actor that goes on has to stay within the accepted events. *)
LEMMA GoesOn ==
    ASSUME ProjectionInv, NEW b \in Actors, NEW w \in Work,
           actor' = [actor EXCEPT ![b] = w], accepted' = accepted,
           w.run \in Runs, w.cursor <= accepted[w.run],
           w.upto <= accepted[w.run], w.failed <= accepted[w.run],
           w.at = "prepared" => w.cursor <= w.upto
    PROVE  actor' \in [Actors -> Work] /\ \A a \in Actors : WorkFacts(a)'
<1>1. actor \in [Actors -> Work] /\ \A a \in Actors : WorkFacts(a)
    BY InvParts DEF TypeOK
<1>2. actor' \in [Actors -> Work]
    BY <1>1
<1>3. ASSUME NEW a \in Actors PROVE WorkFacts(a)'
  <2>1. CASE a = b
    <3>1. actor'[a] = w
        BY <1>1, <2>1
    <3> QED BY <3>1 DEF WorkFacts
  <2>2. CASE a # b
    <3>1. actor'[a] = actor[a]
        BY <1>1, <2>2
    <3> QED BY <1>1, <3>1 DEF WorkFacts
  <2> QED BY <2>1, <2>2
<1> QED BY <1>2, <1>3

(* What is known of an actor at work. *)
LEMMA AtWork ==
    ASSUME ProjectionInv, NEW a \in Actors, actor[a].at # "idle"
    PROVE  /\ actor[a] \in Work
           /\ actor[a].run \in Runs /\ actor[a].cursor \in Nat
           /\ actor[a].upto \in Nat /\ actor[a].failed \in Nat
           /\ actor[a].through \in Nat /\ actor[a].permanent \in BOOLEAN
           /\ accepted[actor[a].run] \in Nat
           /\ actor[a].cursor <= accepted[actor[a].run]
           /\ actor[a].upto <= accepted[actor[a].run]
           /\ actor[a].failed <= accepted[actor[a].run]
           /\ actor[a].at = "prepared" => actor[a].cursor <= actor[a].upto
<1>1. actor \in [Actors -> Work] /\ WorkFacts(a) /\ accepted \in [Runs -> Nat]
    BY InvParts DEF TypeOK
<1>2. actor[a] \in Work
    BY <1>1
<1> QED BY <1>1, <1>2 DEF WorkFacts, Work

(* The rows are kept when only claims change, and none on a poisoned row.  *)
LEMMA RowsKept ==
    ASSUME ProjectionInv, accepted' = accepted, view' = view,
           cursor' = cursor, state' = state, failed' = failed,
           \A r \in Runs : \/ owner'[r] = owner[r]
                           \/ owner'[r] = Nobody
                           \/ state[r] # "poisoned"
    PROVE  \A r \in Runs : RowFacts(r)'
BY InvParts DEF RowFacts

LEMMA ForgetStep ==
    ASSUME ProjectionInv, NEW b \in Actors, Forget(b), accepted' = accepted
    PROVE  /\ actor' \in [Actors -> Work] /\ \A a \in Actors : WorkFacts(a)'
           /\ owner' \in [Runs -> Actors \cup {Nobody, Departed}]
           /\ \A r \in Runs : owner'[r] = owner[r] \/ state[r] # "poisoned"
<1>1. actor' = [actor EXCEPT ![b] = Idle]
    BY DEF Forget
<1>2. actor' \in [Actors -> Work] /\ \A a \in Actors : WorkFacts(a)'
    BY <1>1, GoesIdle
<1>3. owner \in [Runs -> Actors \cup {Nobody, Departed}]
        /\ owner' = [r \in Runs |-> IF owner[r] = b THEN Departed ELSE owner[r]]
        /\ \A r \in Runs : RowFacts(r)
    BY InvParts DEF TypeOK, Forget
<1>4. \A r \in Runs : owner'[r] = owner[r] \/ state[r] # "poisoned"
    BY <1>3 DEF RowFacts, Actors
<1>5. owner' \in [Runs -> Actors \cup {Nobody, Departed}]
    BY <1>3
<1> QED BY <1>2, <1>4, <1>5

LEMMA ServedType ==
    ASSUME ProjectionInv, NEW r \in Runs
    PROVE  Served(r) \in [Runs -> Runs]
<1>1. served \in [Runs -> Runs]
    BY InvParts DEF TypeOK
<1> QED BY <1>1 DEF Served, Runs

(* A claim is made by an idle or asking actor on a run that is not poisoned. *)
LEMMA TakeStep ==
    ASSUME ProjectionInv, NEW b \in Actors, NEW q \in Runs, NEW n \in Nat,
           Take(b, q, n), state[q] # "poisoned", accepted' = accepted
    PROVE  /\ actor' \in [Actors -> Work] /\ \A a \in Actors : WorkFacts(a)'
           /\ owner' \in [Runs -> Actors \cup {Nobody, Departed}]
           /\ leased' \in [Runs -> BOOLEAN]
           /\ \A r \in Runs : owner'[r] = owner[r] \/ state[r] # "poisoned"
<1>1. owner \in [Runs -> Actors \cup {Nobody, Departed}] /\ leased \in [Runs -> BOOLEAN]
        /\ cursor \in [Runs -> Nat] /\ accepted \in [Runs -> Nat] /\ RowFacts(q)
    BY InvParts DEF TypeOK
<1> DEFINE w == [Idle EXCEPT !.at = "claimed", !.run = q, !.cursor = cursor[q],
                             !.through = n]
<1>2. q \in Nat /\ cursor[q] \in Nat /\ accepted[q] \in Nat
        /\ cursor[q] <= accepted[q]
    BY <1>1, RunsAreNat DEF RowFacts
<1>3. w \in Work /\ w.run = q /\ w.cursor = cursor[q] /\ w.upto = 0
        /\ w.failed = 0 /\ w.at = "claimed"
    BY <1>2 DEF Idle, Work
<1>4. actor' = [actor EXCEPT ![b] = w] /\ owner' = [owner EXCEPT ![q] = b]
        /\ leased' = [leased EXCEPT ![q] = TRUE]
    BY DEF Take
<1> HIDE DEF w
<1>5. actor' \in [Actors -> Work] /\ \A a \in Actors : WorkFacts(a)'
  <2>1. w.run \in Runs /\ w.cursor <= accepted[w.run]
          /\ w.upto <= accepted[w.run] /\ w.failed <= accepted[w.run]
          /\ (w.at = "prepared" => w.cursor <= w.upto)
      BY <1>2, <1>3
  <2> QED BY <1>3, <1>4, <2>1, GoesOn
<1>6. owner' \in [Runs -> Actors \cup {Nobody, Departed}]
    BY <1>1, <1>4
<1>7. leased' \in [Runs -> BOOLEAN]
    BY <1>1, <1>4
<1>8. \A r \in Runs : owner'[r] = owner[r] \/ state[r] # "poisoned"
    BY <1>1, <1>4
<1> QED BY <1>5, <1>6, <1>7, <1>8

(* Appending the events n + 1 .. m to 1 .. n gives 1 .. m. *)
LEMMA ViewGrows ==
    ASSUME NEW c \in Nat, NEW n \in Nat, c <= n
    PROVE  [i \in 1..c |-> i] \o [i \in 1..(n - c) |-> c + i]
               = [i \in 1..n |-> i]
<1> DEFINE s == [i \in 1..c |-> i]
           t == [i \in 1..(n - c) |-> c + i]
           u == [i \in 1..n |-> i]
<1>1. s \in Seq(Nat) /\ Len(s) = c /\ \A i \in 1..c : s[i] = i
    OBVIOUS
<1>2. t \in Seq(Nat) /\ Len(t) = n - c /\ \A i \in 1..(n - c) : t[i] = c + i
    OBVIOUS
<1>3. u \in Seq(Nat) /\ Len(u) = n /\ \A i \in 1..n : u[i] = i
    OBVIOUS
<1> HIDE DEF s, t, u
<1>4. /\ s \o t \in Seq(Nat)
      /\ Len(s \o t) = Len(s) + Len(t)
      /\ \A i \in 1..(Len(s) + Len(t)) :
            (s \o t)[i] = IF i <= Len(s) THEN s[i] ELSE t[i - Len(s)]
    BY <1>1, <1>2, ConcatProperties
<1>5. Len(s \o t) = n
    BY <1>1, <1>2, <1>4
<1>6. \A i \in 1..n : (s \o t)[i] = u[i]
    BY <1>1, <1>2, <1>3, <1>4
<1>7. s \o t = u
    BY <1>3, <1>4, <1>5, <1>6, SeqEqual
<1> QED BY <1>7 DEF s, t, u

LEMMA ViewType ==
    ASSUME NEW n \in Nat
    PROVE  [i \in 1..n |-> i] \in Seq(Nat)
OBVIOUS

(* A commit by the current claim keeps every row in order. *)
LEMMA CommitStep ==
    ASSUME ProjectionInv, NEW b \in Actors, actor[b].at = "prepared",
           Current(b), NEW n \in Prefixes(b), Commit(b, n),
           accepted' = accepted
    PROVE  /\ n \in Nat /\ n <= accepted[actor[b].run]
           /\ view' \in [Runs -> Seq(Nat)]
           /\ cursor' \in [Runs -> Nat]
           /\ state' \in [Runs -> {"ready", "retrying", "poisoned"}]
           /\ attempts' \in [Runs -> Nat]
           /\ due' \in [Runs -> BOOLEAN]
           /\ failed' \in [Runs -> Nat]
           /\ owner' \in [Runs -> Actors \cup {Nobody, Departed}]
           /\ leased' \in [Runs -> BOOLEAN]
           /\ generation' \in [Runs -> 0..2]
           /\ served' \in [Runs -> Runs]
           /\ \A r \in Runs : RowFacts(r)'
           /\ \A r \in Runs : state[r] = "poisoned" => state'[r] = "poisoned"
<1>1. PICK q \in Runs : q = actor[b].run
    BY AtWork
<1>2. TypeOK /\ \A r \in Runs : RowFacts(r)
    BY InvParts
<1>3. cursor[q] = actor[b].cursor /\ owner[q] = b
    BY <1>1 DEF Current
<1>4. n \in Nat /\ cursor[q] <= n /\ n <= accepted[q]
  <2>1. n \in actor[b].cursor..actor[b].upto
      BY DEF Prefixes
  <2> QED BY <1>1, <1>3, <2>1, AtWork
<1>5. /\ view' = [view EXCEPT ![q] =
             @ \o [i \in 1..(n - cursor[q]) |-> cursor[q] + i]]
      /\ cursor' = [cursor EXCEPT ![q] = n]
      /\ state' = [state EXCEPT ![q] = "ready"]
      /\ attempts' = [attempts EXCEPT ![q] = 0]
      /\ due' = [due EXCEPT ![q] = TRUE]
      /\ failed' = [failed EXCEPT ![q] = 0]
      /\ owner' = [owner EXCEPT ![q] = Nobody]
      /\ leased' = [leased EXCEPT ![q] = FALSE]
      /\ generation' = [generation EXCEPT ![q] = 0]
      /\ served' = Served(q)
    BY <1>1, <1>3 DEF Commit
<1>6. view'[q] = [i \in 1..n |-> i] /\ \A r \in Runs \ {q} : view'[r] = view[r]
  <2>1. view[q] = [i \in 1..cursor[q] |-> i]
      BY <1>2 DEF RowFacts
  <2>2. view \in [Runs -> Seq(Nat)] /\ cursor[q] \in Nat
      BY <1>2 DEF TypeOK
  <2>3. view'[q] = view[q] \o [i \in 1..(n - cursor[q]) |-> cursor[q] + i]
      BY <1>5, <2>2
  <2>4. view'[q] = [i \in 1..n |-> i]
      BY <1>4, <2>1, <2>2, <2>3, ViewGrows
  <2> QED BY <1>5, <2>2, <2>4
<1>7. view' \in [Runs -> Seq(Nat)]
  <2>1. view \in [Runs -> Seq(Nat)] /\ DOMAIN view' = Runs
      BY <1>2, <1>5 DEF TypeOK
  <2>2. view'[q] \in Seq(Nat)
      BY <1>4, <1>6, ViewType
  <2>3. view' = [r \in Runs |-> view'[r]]
      BY <1>2, <1>5 DEF TypeOK
  <2>4. \A r \in Runs : view'[r] \in Seq(Nat)
      BY <1>6, <2>1, <2>2
  <2> QED BY <2>3, <2>4
<1>8. /\ cursor' \in [Runs -> Nat] /\ attempts' \in [Runs -> Nat]
      /\ failed' \in [Runs -> Nat] /\ generation' \in [Runs -> 0..2]
    BY <1>2, <1>4, <1>5 DEF TypeOK
<1>9. /\ state' \in [Runs -> {"ready", "retrying", "poisoned"}]
      /\ owner' \in [Runs -> Actors \cup {Nobody, Departed}]
    BY <1>2, <1>5 DEF TypeOK
<1>10. due' \in [Runs -> BOOLEAN] /\ leased' \in [Runs -> BOOLEAN]
    BY <1>2, <1>5 DEF TypeOK
<1>11. served' \in [Runs -> Runs]
    BY <1>5, ServedType
<1>12. ASSUME NEW r \in Runs PROVE RowFacts(r)'
  <2>1. CASE r = q
    <3>1. cursor'[r] = n /\ state'[r] = "ready" /\ failed'[r] = 0
        BY <1>2, <1>5, <2>1 DEF TypeOK
    <3> QED BY <1>4, <1>6, <2>1, <3>1 DEF RowFacts
  <2>2. CASE r # q
    <3>1. cursor'[r] = cursor[r] /\ state'[r] = state[r]
            /\ failed'[r] = failed[r] /\ owner'[r] = owner[r]
        BY <1>2, <1>5, <2>2 DEF TypeOK
    <3>2. view'[r] = view[r]
        BY <1>6, <2>2
    <3> QED BY <1>2, <3>1, <3>2 DEF RowFacts
  <2> QED BY <2>1, <2>2
<1>13. ASSUME NEW r \in Runs, state[r] = "poisoned"
       PROVE  state'[r] = "poisoned"
  <2>1. r # q
      BY <1>2, <1>3, <1>13 DEF RowFacts, Actors
  <2> QED BY <1>2, <1>5, <1>13, <2>1 DEF TypeOK
<1> QED BY <1>1, <1>4, <1>7, <1>8, <1>9, <1>10, <1>11, <1>12, <1>13

-----------------------------------------------------------------------------
(* One lemma per action. *)

LEMMA AcceptInv ==
    ASSUME ProjectionInv, NEW q \in Runs, Accept(q)
    PROVE  ProjectionInv'
<1>1. TypeOK /\ (\A r \in Runs : RowFacts(r)) /\ (\A a \in Actors : WorkFacts(a))
    BY InvParts
<1>2. accepted' \in [Runs -> Nat] /\ \A r \in Runs : accepted[r] <= accepted'[r]
    BY <1>1 DEF Accept, TypeOK
<1>3. seeded' \in [Runs -> BOOLEAN]
    BY <1>1 DEF Accept, TypeOK
<1>4. TypeOK'
    BY <1>1, <1>2, <1>3 DEF Accept, TypeOK, row, claim, repair
<1>5. ASSUME NEW r \in Runs PROVE RowFacts(r)'
  <2>1. cursor' = cursor /\ state' = state /\ failed' = failed
          /\ owner' = owner /\ view' = view
      BY DEF Accept, row, claim
  <2>2. cursor[r] \in Nat /\ failed[r] \in Nat /\ accepted[r] \in Nat
          /\ accepted'[r] \in Nat /\ accepted[r] <= accepted'[r]
      BY <1>1, <1>2 DEF TypeOK
  <2> QED BY <1>1, <2>1, <2>2 DEF RowFacts
<1>6. ASSUME NEW a \in Actors PROVE WorkFacts(a)'
  <2>1. actor' = actor
      BY DEF Accept
  <2>2. CASE actor[a].at # "idle"
    <3>1. accepted[actor[a].run] <= accepted'[actor[a].run]
            /\ accepted'[actor[a].run] \in Nat
        BY <1>2, <2>2, AtWork
    <3> QED BY <2>1, <2>2, <3>1, AtWork DEF WorkFacts
  <2> QED BY <2>1, <2>2 DEF WorkFacts
<1> QED BY <1>4, <1>5, <1>6, InvPartsNext

(* Steps that change neither the events, nor the rows, nor the actors. *)
LEMMA Aside ==
    ASSUME ProjectionInv, TypeOK', UNCHANGED <<accepted, view, actor>>,
           cursor' = cursor, state' = state, failed' = failed, owner' = owner
    PROVE  ProjectionInv'
<1>1. \A r \in Runs : RowFacts(r)'
    BY RowsKept
<1>2. \A a \in Actors : WorkFacts(a)'
    BY InvParts DEF WorkFacts
<1> QED BY <1>1, <1>2, InvPartsNext

LEMMA BackfillInv ==
    ASSUME ProjectionInv, Backfill
    PROVE  ProjectionInv'
<1>1. TypeOK
    BY InvParts
<1>2. seeded' \in [Runs -> BOOLEAN]
    BY DEF Backfill
<1>3. scan' \in [after : Nat, complete : BOOLEAN]
  <2>1. PICK last \in Page \cup {scan.after} :
          scan' = [after |-> last, complete |-> Cardinality(Page) < PageRows]
      BY DEF Backfill
  <2>2. last \in Nat
      BY <1>1, RunsAreNat DEF Page, TypeOK
  <2>3. (Cardinality(Page) < PageRows) \in BOOLEAN
      OBVIOUS
  <2> QED BY <2>1, <2>2, <2>3
<1>4. TypeOK'
    BY <1>1, <1>2, <1>3 DEF Backfill, TypeOK, row, claim, repair
<1> QED BY <1>4, Aside DEF Backfill, row, claim

LEMMA ClaimNextInv ==
    ASSUME ProjectionInv, NEW b \in Actors, ClaimNext(b)
    PROVE  ProjectionInv'
<1>1. TypeOK
    BY InvParts
<1>2. PICK q \in Candidate : Take(b, q, MaxEvents) /\ served' = Served(q)
    BY DEF ClaimNext
<1>3. q \in Runs /\ state[q] # "poisoned"
  <2>1. served \in [Runs -> Runs]
      BY <1>1 DEF TypeOK
  <2>2. PICK k \in DOMAIN served : q = served[k] /\ Eligible(served[k])
      BY DEF Candidate
  <2> QED BY <2>1, <2>2 DEF Eligible
<1>4. accepted' = accepted /\ view' = view /\ cursor' = cursor
        /\ state' = state /\ failed' = failed
    BY DEF ClaimNext, feed, row
<1>5. /\ actor' \in [Actors -> Work] /\ \A a \in Actors : WorkFacts(a)'
      /\ owner' \in [Runs -> Actors \cup {Nobody, Departed}]
      /\ leased' \in [Runs -> BOOLEAN]
      /\ \A r \in Runs : owner'[r] = owner[r] \/ state[r] # "poisoned"
    BY <1>2, <1>3, <1>4, TakeStep
<1>6. served' \in [Runs -> Runs]
    BY <1>2, <1>3, ServedType
<1>7. TypeOK'
    BY <1>1, <1>5, <1>6 DEF ClaimNext, TypeOK, feed, row, repair
<1>8. \A r \in Runs : RowFacts(r)'
    BY <1>4, <1>5, RowsKept
<1> QED BY <1>5, <1>7, <1>8, InvPartsNext

LEMMA LookInv ==
    ASSUME ProjectionInv, NEW b \in Actors, Look(b)
    PROVE  ProjectionInv'
<1>1. TypeOK
    BY InvParts
<1>2. PICK q \in Runs :
        actor' = [actor EXCEPT ![b] = [Idle EXCEPT !.at = "asked", !.run = q,
                                                   !.through = accepted[q]]]
    BY DEF Look
<1> DEFINE w == [Idle EXCEPT !.at = "asked", !.run = q, !.through = accepted[q]]
<1>3. q \in Nat /\ accepted[q] \in Nat
    BY <1>1, RunsAreNat DEF TypeOK
<1>4. w \in Work /\ w.run = q /\ w.cursor = 0 /\ w.upto = 0 /\ w.failed = 0
        /\ w.at = "asked"
    BY <1>3 DEF Idle, Work
<1>5. actor' = [actor EXCEPT ![b] = w]
    BY <1>2
<1> HIDE DEF w
<1>6. w.run \in Runs /\ w.cursor <= accepted[w.run]
        /\ w.upto <= accepted[w.run] /\ w.failed <= accepted[w.run]
        /\ (w.at = "prepared" => w.cursor <= w.upto)
    BY <1>3, <1>4
<1>7. accepted' = accepted
    BY DEF Look, feed
<1>8. actor' \in [Actors -> Work] /\ \A a \in Actors : WorkFacts(a)'
    BY <1>4, <1>5, <1>6, <1>7, GoesOn
<1>9. TypeOK'
    BY <1>1, <1>8 DEF Look, TypeOK, feed, row, claim, repair
<1>10. \A r \in Runs : RowFacts(r)'
    BY RowsKept DEF Look, feed, row, claim
<1> QED BY <1>8, <1>9, <1>10, InvPartsNext

LEMMA ClaimAskedInv ==
    ASSUME ProjectionInv, NEW b \in Actors, ClaimAsked(b)
    PROVE  ProjectionInv'
<1>1. TypeOK
    BY InvParts
<1>2. actor[b].at # "idle"
    BY DEF ClaimAsked
<1>3. PICK q \in Runs, n \in Nat : q = actor[b].run /\ n = actor[b].through
    BY <1>2, AtWork
<1>4. accepted' = accepted /\ view' = view /\ cursor' = cursor
        /\ state' = state /\ failed' = failed
    BY DEF ClaimAsked, row
<1>5. seeded' \in [Runs -> BOOLEAN]
    BY <1>1 DEF ClaimAsked, TypeOK
<1>6. CASE state[q] # "poisoned" /\ due[q] /\ ~leased[q]
  <2>1. Take(b, q, n)
      BY <1>3, <1>6 DEF ClaimAsked
  <2>2. /\ actor' \in [Actors -> Work] /\ \A a \in Actors : WorkFacts(a)'
        /\ owner' \in [Runs -> Actors \cup {Nobody, Departed}]
        /\ leased' \in [Runs -> BOOLEAN]
        /\ \A r \in Runs : owner'[r] = owner[r] \/ state[r] # "poisoned"
      BY <1>4, <1>6, <2>1, TakeStep
  <2>3. TypeOK'
      BY <1>1, <1>5, <2>2 DEF ClaimAsked, TypeOK, row, repair
  <2>4. \A r \in Runs : RowFacts(r)'
      BY <1>4, <2>2, RowsKept
  <2> QED BY <2>2, <2>3, <2>4, InvPartsNext
<1>7. CASE ~(state[q] # "poisoned" /\ due[q] /\ ~leased[q])
  <2>1. actor' = [actor EXCEPT ![b] = Idle] /\ owner' = owner /\ leased' = leased
      BY <1>3, <1>7 DEF ClaimAsked, claim
  <2>2. actor' \in [Actors -> Work] /\ \A a \in Actors : WorkFacts(a)'
      BY <1>4, <2>1, GoesIdle
  <2>3. TypeOK'
      BY <1>1, <1>5, <2>1, <2>2 DEF ClaimAsked, TypeOK, row, repair
  <2>4. \A r \in Runs : RowFacts(r)'
      BY <1>4, <2>1, RowsKept
  <2> QED BY <2>2, <2>3, <2>4, InvPartsNext
<1> QED BY <1>6, <1>7

(* A batch stays between the claim's cursor and the accepted events. *)
LEMMA BatchBounds ==
    ASSUME ProjectionInv, NEW b \in Actors, actor[b].at # "idle",
           NEW n \in Batches(b)
    PROVE  n \in Nat /\ actor[b].cursor <= n /\ n <= accepted[actor[b].run]
<1>1. PICK x \in Nat, c \in Nat, t \in Nat :
        x = accepted[actor[b].run] /\ c = actor[b].cursor
            /\ t = actor[b].through /\ c <= x
    BY AtWork
<1> DEFINE S == {x, t, c + BatchRows}
           last == CHOOSE m \in S : \A k \in S : m <= k
<1>2. \E m \in S : \A k \in S : m <= k
    BY <1>1
<1>3. last \in S /\ \A k \in S : last <= k
    BY <1>2
<1>4. n \in IF last <= c THEN {c} ELSE (c + 1)..last
    BY <1>1 DEF Batches
<1> HIDE DEF last
<1>5. last \in Nat /\ last <= x
    BY <1>1, <1>3
<1> QED BY <1>1, <1>4, <1>5

LEMMA PrepareInv ==
    ASSUME ProjectionInv, NEW b \in Actors, Prepare(b)
    PROVE  ProjectionInv'
<1>1. TypeOK
    BY InvParts
<1>2. PICK n \in Batches(b) : actor' = [actor EXCEPT ![b] =
                                 [@ EXCEPT !.at = "prepared", !.upto = n]]
    BY DEF Prepare
<1>3. actor[b].at # "idle"
    BY DEF Prepare
<1>4. n \in Nat /\ actor[b].cursor <= n /\ n <= accepted[actor[b].run]
    BY <1>3, BatchBounds
<1> DEFINE w == [actor[b] EXCEPT !.at = "prepared", !.upto = n]
<1>5. w \in Work /\ w.run = actor[b].run /\ w.cursor = actor[b].cursor
        /\ w.upto = n /\ w.failed = actor[b].failed
  <2>1. actor[b] \in Work
      BY <1>3, AtWork
  <2> QED BY <1>4, <2>1 DEF Work
<1>6. actor' = [actor EXCEPT ![b] = w]
    BY <1>1, <1>2 DEF TypeOK
<1> HIDE DEF w
<1>7. w.run \in Runs /\ w.cursor <= accepted[w.run]
        /\ w.upto <= accepted[w.run] /\ w.failed <= accepted[w.run]
        /\ (w.at = "prepared" => w.cursor <= w.upto)
    BY <1>3, <1>4, <1>5, AtWork
<1>8. accepted' = accepted
    BY DEF Prepare, feed
<1>9. actor' \in [Actors -> Work] /\ \A a \in Actors : WorkFacts(a)'
    BY <1>5, <1>6, <1>7, <1>8, GoesOn
<1>10. TypeOK'
    BY <1>1, <1>9 DEF Prepare, TypeOK, feed, row, claim, repair
<1>11. \A r \in Runs : RowFacts(r)'
    BY RowsKept DEF Prepare, feed, row, claim
<1> QED BY <1>9, <1>10, <1>11, InvPartsNext

LEMMA FailEventInv ==
    ASSUME ProjectionInv, NEW b \in Actors, FailEvent(b)
    PROVE  ProjectionInv'
<1>1. TypeOK
    BY InvParts
<1>2. actor[b].at # "idle"
    BY DEF FailEvent
<1>3. PICK n \in IF actor[b].at = "claimed" THEN Batches(b) ELSE {actor[b].upto} :
      \E e \in (actor[b].cursor + 1)..n :
        actor' = [actor EXCEPT ![b] =
            [@ EXCEPT !.at = "failing", !.failed = e,
                      !.permanent = <<actor[b].run, e>> \in Broken]]
    BY DEF FailEvent
<1>4. n \in Nat /\ n <= accepted[actor[b].run]
    BY <1>2, <1>3, BatchBounds, AtWork
<1>5. PICK e \in (actor[b].cursor + 1)..n :
        actor' = [actor EXCEPT ![b] =
            [@ EXCEPT !.at = "failing", !.failed = e,
                      !.permanent = <<actor[b].run, e>> \in Broken]]
    BY <1>3
<1>6. e \in Nat /\ e <= accepted[actor[b].run]
    BY <1>2, <1>4, AtWork
<1> DEFINE p == <<actor[b].run, e>> \in Broken
<1>7. p \in BOOLEAN
    OBVIOUS
<1> HIDE DEF p
<1> DEFINE w == [actor[b] EXCEPT !.at = "failing", !.failed = e, !.permanent = p]
<1>8. w \in Work /\ w.run = actor[b].run /\ w.cursor = actor[b].cursor
        /\ w.upto = actor[b].upto /\ w.failed = e /\ w.at = "failing"
  <2>1. actor[b] \in Work
      BY <1>2, AtWork
  <2> QED BY <1>6, <1>7, <2>1 DEF Work
<1>9. actor' = [actor EXCEPT ![b] = w]
    BY <1>1, <1>5 DEF TypeOK, p
<1> HIDE DEF w
<1>10. w.run \in Runs /\ w.cursor <= accepted[w.run]
        /\ w.upto <= accepted[w.run] /\ w.failed <= accepted[w.run]
        /\ (w.at = "prepared" => w.cursor <= w.upto)
    BY <1>2, <1>6, <1>8, AtWork
<1>11. accepted' = accepted
    BY DEF FailEvent, feed
<1>12. actor' \in [Actors -> Work] /\ \A a \in Actors : WorkFacts(a)'
    BY <1>8, <1>9, <1>10, <1>11, GoesOn
<1>13. TypeOK'
    BY <1>1, <1>12 DEF FailEvent, TypeOK, feed, row, claim, repair
<1>14. \A r \in Runs : RowFacts(r)'
    BY RowsKept DEF FailEvent, feed, row, claim
<1> QED BY <1>12, <1>13, <1>14, InvPartsNext

(* The steps that drop a token without touching its row. *)
LEMMA ForgetInv ==
    ASSUME ProjectionInv, NEW b \in Actors, Forget(b), faults' \in Nat,
           UNCHANGED <<feed, row, leased, view, served, repair>>
    PROVE  ProjectionInv'
<1>1. TypeOK
    BY InvParts
<1>2. accepted' = accepted
    BY DEF feed
<1>3. /\ actor' \in [Actors -> Work] /\ \A a \in Actors : WorkFacts(a)'
      /\ owner' \in [Runs -> Actors \cup {Nobody, Departed}]
      /\ \A r \in Runs : owner'[r] = owner[r] \/ state[r] # "poisoned"
    BY <1>2, ForgetStep
<1>4. TypeOK'
    BY <1>1, <1>3 DEF TypeOK, feed, row, repair
<1>5. \A r \in Runs : RowFacts(r)'
    BY <1>3, RowsKept DEF feed, row
<1> QED BY <1>3, <1>4, <1>5, InvPartsNext

LEMMA FaultsCounted ==
    ASSUME ProjectionInv
    PROVE  (Fault \/ faults' = faults) => faults' \in Nat
BY InvParts DEF TypeOK, Fault

LEMMA ApplyInv ==
    ASSUME ProjectionInv, NEW b \in Actors, Apply(b)
    PROVE  ProjectionInv'
<1>1. TypeOK
    BY InvParts
<1>2. PICK n \in Prefixes(b) : Commit(b, n)
    BY DEF Apply
<1>3. actor[b].at = "prepared" /\ Current(b) /\ accepted' = accepted
        /\ actor' = [actor EXCEPT ![b] = Idle]
    BY DEF Apply, feed
<1>4. actor' \in [Actors -> Work] /\ \A a \in Actors : WorkFacts(a)'
    BY <1>3, GoesIdle
<1>5. /\ view' \in [Runs -> Seq(Nat)]
      /\ cursor' \in [Runs -> Nat]
      /\ state' \in [Runs -> {"ready", "retrying", "poisoned"}]
      /\ attempts' \in [Runs -> Nat]
      /\ due' \in [Runs -> BOOLEAN]
      /\ failed' \in [Runs -> Nat]
      /\ owner' \in [Runs -> Actors \cup {Nobody, Departed}]
      /\ leased' \in [Runs -> BOOLEAN]
      /\ generation' \in [Runs -> 0..2]
      /\ served' \in [Runs -> Runs]
      /\ \A r \in Runs : RowFacts(r)'
    BY <1>2, <1>3, CommitStep
<1>6. TypeOK'
    BY <1>1, <1>4, <1>5 DEF Apply, TypeOK, feed, repair
<1> QED BY <1>4, <1>5, <1>6, InvPartsNext

LEMMA CommitPastDeadlineInv ==
    ASSUME ProjectionInv, NEW b \in Actors, CommitPastDeadline(b)
    PROVE  ProjectionInv'
<1>1. TypeOK
    BY InvParts
<1>2. PICK n \in Prefixes(b) :
        /\ Commit(b, n)
        /\ actor' = [actor EXCEPT ![b] =
               [@ EXCEPT !.at = "failing", !.failed = n]]
    BY DEF CommitPastDeadline
<1>3. actor[b].at = "prepared" /\ Current(b) /\ accepted' = accepted
    BY DEF CommitPastDeadline, feed
<1>4. /\ n \in Nat /\ n <= accepted[actor[b].run]
      /\ view' \in [Runs -> Seq(Nat)]
      /\ cursor' \in [Runs -> Nat]
      /\ state' \in [Runs -> {"ready", "retrying", "poisoned"}]
      /\ attempts' \in [Runs -> Nat]
      /\ due' \in [Runs -> BOOLEAN]
      /\ failed' \in [Runs -> Nat]
      /\ owner' \in [Runs -> Actors \cup {Nobody, Departed}]
      /\ leased' \in [Runs -> BOOLEAN]
      /\ generation' \in [Runs -> 0..2]
      /\ served' \in [Runs -> Runs]
      /\ \A r \in Runs : RowFacts(r)'
    BY <1>2, <1>3, CommitStep
<1> DEFINE w == [actor[b] EXCEPT !.at = "failing", !.failed = n]
<1>5. w \in Work /\ w.run = actor[b].run /\ w.cursor = actor[b].cursor
        /\ w.upto = actor[b].upto /\ w.failed = n /\ w.at = "failing"
  <2>1. actor[b] \in Work
      BY <1>3, AtWork
  <2> QED BY <1>4, <2>1 DEF Work
<1>6. actor' = [actor EXCEPT ![b] = w]
    BY <1>1, <1>2 DEF TypeOK
<1> HIDE DEF w
<1>7. w.run \in Runs /\ w.cursor <= accepted[w.run]
        /\ w.upto <= accepted[w.run] /\ w.failed <= accepted[w.run]
        /\ (w.at = "prepared" => w.cursor <= w.upto)
    BY <1>3, <1>4, <1>5, AtWork
<1>8. actor' \in [Actors -> Work] /\ \A a \in Actors : WorkFacts(a)'
    BY <1>3, <1>5, <1>6, <1>7, GoesOn
<1>9. faults' \in Nat
    BY FaultsCounted DEF CommitPastDeadline
<1>10. TypeOK'
    BY <1>1, <1>4, <1>8, <1>9 DEF CommitPastDeadline, TypeOK, feed, repair
<1> QED BY <1>4, <1>8, <1>10, InvPartsNext

LEMMA ApplyStaleInv ==
    ASSUME ProjectionInv, NEW b \in Actors, ApplyStale(b)
    PROVE  ProjectionInv'
<1>1. TypeOK
    BY InvParts
<1>2. actor' = [actor EXCEPT ![b] = Idle] /\ accepted' = accepted
    BY DEF ApplyStale, feed
<1>3. actor' \in [Actors -> Work] /\ \A a \in Actors : WorkFacts(a)'
    BY <1>2, GoesIdle
<1>4. TypeOK'
    BY <1>1, <1>3 DEF ApplyStale, TypeOK, feed, row, claim, repair
<1>5. \A r \in Runs : RowFacts(r)'
    BY RowsKept DEF ApplyStale, feed, row, claim
<1> QED BY <1>3, <1>4, <1>5, InvPartsNext

(* A failure on record was seen by the run's own claim. *)
LEMMA RecordFailureStep ==
    ASSUME ProjectionInv, NEW b \in Actors, RecordFailure(b)
    PROVE  /\ ProjectionInv'
           /\ \A r \in Runs : state[r] = "poisoned" => state'[r] = "poisoned"
<1>1. TypeOK /\ \A r \in Runs : RowFacts(r)
    BY InvParts
<1>2. actor[b].at # "idle" /\ accepted' = accepted /\ view' = view
        /\ actor' = [actor EXCEPT ![b] = Idle]
    BY DEF RecordFailure, feed
<1>3. actor' \in [Actors -> Work] /\ \A a \in Actors : WorkFacts(a)'
    BY <1>2, GoesIdle
<1>4. CASE FailureCurrent(b)
  <2>1. PICK q \in Runs, e \in Nat :
          q = actor[b].run /\ e = actor[b].failed /\ e <= accepted[q]
      BY <1>2, AtWork
  <2>2. owner[q] = b /\ cursor[q] < e
      BY <1>1, <1>4, <2>1 DEF FailureCurrent, TypeOK
  <2>3. PICK p \in BOOLEAN :
          p = (actor[b].permanent \/ attempts[q] + 1 >= MaxAttempts)
      OBVIOUS
  <2>4. /\ state' = [state EXCEPT ![q] = IF p THEN "poisoned" ELSE "retrying"]
        /\ attempts' = [attempts EXCEPT ![q] = @ + 1]
        /\ due' = [due EXCEPT ![q] = p]
        /\ failed' = [failed EXCEPT ![q] = e]
        /\ generation' = [generation EXCEPT ![q] = Fresh(q)]
        /\ owner' = [owner EXCEPT ![q] = Nobody]
        /\ leased' = [leased EXCEPT ![q] = FALSE]
        /\ served' = Served(q)
        /\ cursor' = cursor
      BY <1>4, <2>1, <2>3 DEF RecordFailure
  <2>5. Fresh(q) \in 0..2
    <3>1. \E g \in {1, 2} : note # [run |-> q, generation |-> g]
        OBVIOUS
    <3> QED BY <3>1 DEF Fresh
  <2>6. /\ attempts' \in [Runs -> Nat] /\ failed' \in [Runs -> Nat]
        /\ generation' \in [Runs -> 0..2]
      BY <1>1, <2>4, <2>5 DEF TypeOK
  <2>7. /\ state' \in [Runs -> {"ready", "retrying", "poisoned"}]
        /\ owner' \in [Runs -> Actors \cup {Nobody, Departed}]
      BY <1>1, <2>4 DEF TypeOK
  <2>8. due' \in [Runs -> BOOLEAN] /\ leased' \in [Runs -> BOOLEAN]
      BY <1>1, <2>4 DEF TypeOK
  <2>9. served' \in [Runs -> Runs]
      BY <2>4, ServedType
  <2>10. TypeOK'
      BY <1>1, <1>2, <1>3, <2>4, <2>6, <2>7, <2>8, <2>9
      DEF RecordFailure, TypeOK, feed, repair
  <2>11. ASSUME NEW r \in Runs PROVE RowFacts(r)'
    <3>1. CASE r = q
      <4>1. failed'[r] = e /\ owner'[r] = Nobody /\ state'[r] # "ready"
          BY <1>1, <2>4, <3>1 DEF TypeOK
      <4> QED BY <1>1, <1>2, <2>1, <2>2, <2>4, <3>1, <4>1 DEF RowFacts
    <3>2. CASE r # q
      <4>1. failed'[r] = failed[r] /\ owner'[r] = owner[r] /\ state'[r] = state[r]
          BY <1>1, <2>4, <3>2 DEF TypeOK
      <4> QED BY <1>1, <1>2, <2>4, <4>1 DEF RowFacts
    <3> QED BY <3>1, <3>2
  <2>12. ASSUME NEW r \in Runs, state[r] = "poisoned" PROVE state'[r] = "poisoned"
    <3>1. r # q
        BY <1>1, <2>2, <2>12 DEF RowFacts, Actors
    <3> QED BY <1>1, <2>4, <2>12, <3>1 DEF TypeOK
  <2> QED BY <1>3, <2>10, <2>11, <2>12, InvPartsNext
<1>5. CASE ~FailureCurrent(b)
  <2>1. UNCHANGED <<row, claim, served>>
      BY <1>5 DEF RecordFailure
  <2>2. TypeOK'
      BY <1>1, <1>3, <2>1 DEF RecordFailure, TypeOK, feed, row, claim, repair
  <2>3. \A r \in Runs : RowFacts(r)'
      BY <1>2, <2>1, RowsKept DEF row, claim
  <2>4. state' = state
      BY <2>1 DEF row
  <2> QED BY <1>3, <2>2, <2>3, <2>4, InvPartsNext
<1> QED BY <1>4, <1>5

LEMMA ShutdownInv ==
    ASSUME ProjectionInv, NEW b \in Actors, Shutdown(b)
    PROVE  ProjectionInv'
<1>1. TypeOK
    BY InvParts
<1>2. actor[b].at # "idle" /\ accepted' = accepted
        /\ actor' = [actor EXCEPT ![b] = Idle]
    BY DEF Shutdown, feed
<1>3. actor' \in [Actors -> Work] /\ \A a \in Actors : WorkFacts(a)'
    BY <1>2, GoesIdle
<1>4. PICK q \in Runs : q = actor[b].run
    BY <1>2, AtWork
<1>5. \/ owner' = [owner EXCEPT ![q] = Nobody] /\ leased' = [leased EXCEPT ![q] = FALSE]
      \/ owner' = owner /\ leased' = leased
    BY <1>4 DEF Shutdown, claim
<1>6. owner' \in [Runs -> Actors \cup {Nobody, Departed}]
        /\ \A r \in Runs : owner'[r] = owner[r] \/ owner'[r] = Nobody
    BY <1>1, <1>5 DEF TypeOK
<1>7. leased' \in [Runs -> BOOLEAN]
    BY <1>1, <1>5 DEF TypeOK
<1>8. faults' \in Nat
    BY FaultsCounted DEF Shutdown
<1>9. TypeOK'
    BY <1>1, <1>3, <1>6, <1>7, <1>8 DEF Shutdown, TypeOK, feed, row, repair
<1>10. \A r \in Runs : RowFacts(r)'
    BY <1>6, RowsKept DEF Shutdown, feed, row
<1> QED BY <1>3, <1>9, <1>10, InvPartsNext

(* Time passing and an operator looking touch no row. *)
LEMMA TimeInv ==
    ASSUME ProjectionInv, NEW q \in Runs,
           Expire(q) \/ Pause(q) \/ RetryDue(q) \/ Observe(q)
    PROVE  ProjectionInv'
<1>1. TypeOK
    BY InvParts
<1>2. CASE Expire(q) \/ Pause(q)
  <2>1. leased' \in [Runs -> BOOLEAN]
      BY <1>1, <1>2 DEF Expire, Pause, TypeOK
  <2>2. faults' \in Nat
      BY <1>2, FaultsCounted DEF Expire, Pause
  <2>3. TypeOK'
      BY <1>1, <1>2, <2>1, <2>2 DEF Expire, Pause, TypeOK, feed, row, repair
  <2> QED BY <1>2, <2>3, Aside DEF Expire, Pause, feed, row
<1>3. CASE RetryDue(q)
  <2>1. due' \in [Runs -> BOOLEAN]
      BY <1>1, <1>3 DEF RetryDue, TypeOK
  <2>2. TypeOK'
      BY <1>1, <1>3, <2>1 DEF RetryDue, TypeOK, feed, claim, repair
  <2> QED BY <1>3, <2>2, Aside DEF RetryDue, feed, claim
<1>4. CASE Observe(q)
  <2>1. q \in Nat /\ generation[q] \in 0..2
      BY <1>1, RunsAreNat DEF TypeOK
  <2>2. note' \in [run : Nat, generation : 0..2]
      BY <1>4, <2>1 DEF Observe
  <2>3. TypeOK'
      BY <1>1, <1>4, <2>2 DEF Observe, TypeOK, feed, row, claim
  <2> QED BY <1>4, <2>3, Aside DEF Observe, feed, row, claim
<1> QED BY <1>2, <1>3, <1>4

(* A repair that matches resets the row and leaves its cursor alone. *)
LEMMA RearmInv ==
    ASSUME ProjectionInv, Rearm
    PROVE  ProjectionInv'
<1>1. TypeOK /\ \A r \in Runs : RowFacts(r)
    BY InvParts
<1>2. note' \in [run : Nat, generation : 0..2] /\ rearms' \in Nat
    BY <1>1 DEF Rearm, NoNote, TypeOK
<1>3. accepted' = accepted /\ view' = view /\ actor' = actor /\ served' = served
        /\ seeded' = seeded /\ scan' = scan /\ faults' = faults
    BY DEF Rearm, feed
<1>4. CASE RearmMatches(note.run)
  <2>1. PICK q : q = note.run
      OBVIOUS
  <2>2. /\ state' = [state EXCEPT ![q] = "ready"]
        /\ attempts' = [attempts EXCEPT ![q] = 0]
        /\ due' = [due EXCEPT ![q] = TRUE]
        /\ failed' = [failed EXCEPT ![q] = 0]
        /\ generation' = [generation EXCEPT ![q] = 0]
        /\ owner' = [owner EXCEPT ![q] = Nobody]
        /\ cursor' = cursor /\ leased' = leased
      BY <1>4, <2>1 DEF Rearm
  <2>3. /\ attempts' \in [Runs -> Nat] /\ failed' \in [Runs -> Nat]
        /\ generation' \in [Runs -> 0..2]
    <3>1. attempts \in [Runs -> Nat] /\ failed \in [Runs -> Nat]
            /\ generation \in [Runs -> 0..2]
        BY <1>1 DEF TypeOK
    <3>2. attempts' \in [Runs -> Nat]
        BY <2>2, <3>1
    <3>3. failed' \in [Runs -> Nat]
        BY <2>2, <3>1
    <3>4. generation' \in [Runs -> 0..2]
      <4> DEFINE G == 0..2
      <4>1. 0 \in G /\ generation \in [Runs -> G]
          BY <3>1
      <4> HIDE DEF G
      <4>2. generation' \in [Runs -> G]
          BY <2>2, <4>1
      <4> QED BY <4>2 DEF G
    <3> QED BY <3>2, <3>3, <3>4
  <2>4. /\ state' \in [Runs -> {"ready", "retrying", "poisoned"}]
        /\ owner' \in [Runs -> Actors \cup {Nobody, Departed}]
      BY <1>1, <2>2 DEF TypeOK
  <2>5. due' \in [Runs -> BOOLEAN]
      BY <1>1, <2>2 DEF TypeOK
  <2>6. TypeOK'
      BY <1>1, <1>2, <1>3, <2>2, <2>3, <2>4, <2>5 DEF TypeOK
  <2>7. ASSUME NEW r \in Runs PROVE RowFacts(r)'
    <3>1. CASE r = q
      <4>1. state'[r] = "ready" /\ failed'[r] = 0
          BY <1>1, <2>2, <3>1 DEF TypeOK
      <4> QED BY <1>1, <1>3, <2>2, <4>1 DEF RowFacts
    <3>2. CASE r # q
      <4>1. failed'[r] = failed[r] /\ owner'[r] = owner[r] /\ state'[r] = state[r]
          BY <1>1, <2>2, <3>2 DEF TypeOK
      <4> QED BY <1>1, <1>3, <2>2, <4>1 DEF RowFacts
    <3> QED BY <3>1, <3>2
  <2>8. \A a \in Actors : WorkFacts(a)'
      BY <1>3, InvParts DEF WorkFacts
  <2> QED BY <2>6, <2>7, <2>8, InvPartsNext
<1>5. CASE ~RearmMatches(note.run)
  <2>1. UNCHANGED <<row, claim>>
      BY <1>5 DEF Rearm
  <2>2. TypeOK'
      BY <1>1, <1>2, <1>3, <2>1 DEF TypeOK, row, claim
  <2> QED BY <1>3, <2>1, <2>2, Aside DEF row, claim
<1> QED BY <1>4, <1>5

-----------------------------------------------------------------------------
(* The induction. *)

LEMMA InitInv == Init => ProjectionInv
<1> SUFFICES ASSUME Init PROVE ProjectionInv
    OBVIOUS
<1>1. TypeOK
  <2>1. Idle \in Work /\ NoNote \in [run : Nat, generation : 0..2]
      BY DEF Idle, Work, NoNote
  <2>2. \A r \in Runs : <<>> \in Seq(Nat)
      OBVIOUS
  <2> QED BY <2>1, <2>2 DEF Init, TypeOK
<1>2. ASSUME NEW r \in Runs PROVE RowFacts(r)
  <2>1. view[r] = <<>> /\ cursor[r] = 0 /\ state[r] = "ready" /\ failed[r] = 0
          /\ accepted[r] \in Nat
      BY DEF Init
  <2>2. <<>> = [i \in 1..0 |-> i]
      OBVIOUS
  <2> QED BY <2>1, <2>2 DEF RowFacts
<1>3. ASSUME NEW a \in Actors PROVE WorkFacts(a)
    BY DEF Init, WorkFacts, Idle
<1> QED BY <1>1, <1>2, <1>3, InvParts

LEMMA StutterInv ==
    ASSUME ProjectionInv, UNCHANGED vars
    PROVE  ProjectionInv'
<1>1. TypeOK'
    BY InvParts DEF TypeOK, vars, row, claim, feed, repair
<1> QED BY <1>1, Aside DEF vars, row, claim, feed

LEMMA StepInv ==
    ASSUME ProjectionInv, NEW b \in Actors, Step(b)
    PROVE  ProjectionInv'
<1>1. CASE PrepareUnavailable(b)
  <2>1. faults' \in Nat
      BY <1>1, FaultsCounted DEF PrepareUnavailable
  <2> QED BY <1>1, <2>1, ForgetInv DEF PrepareUnavailable
<1> QED BY <1>1, ClaimNextInv, ClaimAskedInv, PrepareInv, ApplyInv,
           ApplyStaleInv, FailEventInv, RecordFailureStep DEF Step

LEMMA NextInv == ProjectionInv /\ [Next]_vars => ProjectionInv'
<1> SUFFICES ASSUME ProjectionInv, [Next]_vars PROVE ProjectionInv'
    OBVIOUS
<1>1. ASSUME NEW b \in Actors, LoseConnection(b) \/ Crash(b)
      PROVE  ProjectionInv'
  <2>1. faults' \in Nat
      BY <1>1, FaultsCounted DEF LoseConnection, Crash
  <2> QED BY <1>1, <2>1, ForgetInv DEF LoseConnection, Crash
<1> QED BY <1>1, StutterInv, AcceptInv, TimeInv, BackfillInv, RearmInv,
           StepInv, LookInv, CommitPastDeadlineInv, ShutdownInv DEF Next

(* ProjectionInv holds in every reachable state: one projector row, its    *)
(* claims, and the batches in flight stay consistent.                      *)
THEOREM Safety == Spec => []ProjectionInv
BY InitInv, NextInv, PTL DEF Spec

(* The handler has applied exactly the events up to the cursor, each once  *)
(* and in order (applyClaimedExecutionProjection).                         *)
THEOREM ViewIsCursor == Spec => []ViewFollowsCursor
<1>1. ProjectionInv => ViewFollowsCursor
    BY DEF ProjectionInv
<1> QED BY <1>1, Safety, PTL

(* A recorded failure lies ahead of the cursor and names an accepted event *)
(* (recordProjectionFailure).                                              *)
THEOREM FailureAhead == Spec => []FailureIsAhead
<1>1. ProjectionInv => FailureIsAhead
    BY DEF ProjectionInv
<1> QED BY <1>1, Safety, PTL

(* Only a repair that names the present failure ends a poisoned run's rest *)
(* (rearmExecutionProjection).                                             *)
THEOREM PoisonRests == Spec => PoisonNeedsRepair
<1> DEFINE P == \A r \in Runs :
        (state[r] = "poisoned" /\ state'[r] # "poisoned") =>
            /\ note = [run |-> r, generation |-> generation[r]]
            /\ cursor'[r] = cursor[r]
<1>1. ProjectionInv /\ Next => P
  <2> SUFFICES ASSUME ProjectionInv, Next, NEW r \in Runs,
                      state[r] = "poisoned", state'[r] # "poisoned"
               PROVE  /\ note = [run |-> r, generation |-> generation[r]]
                      /\ cursor'[r] = cursor[r]
      OBVIOUS
  <2>1. ~UNCHANGED row
      BY DEF row
  <2>2. ASSUME NEW b \in Actors PROVE ~Apply(b) /\ ~CommitPastDeadline(b)
    <3>1. ASSUME Apply(b) \/ CommitPastDeadline(b) PROVE FALSE
      <4>1. PICK n \in Prefixes(b) : Commit(b, n)
          BY <3>1 DEF Apply, CommitPastDeadline
      <4>2. actor[b].at = "prepared" /\ Current(b) /\ accepted' = accepted
          BY <3>1 DEF Apply, CommitPastDeadline, feed
      <4> QED BY <4>1, <4>2, CommitStep
    <3> QED BY <3>1
  <2>3. ASSUME NEW b \in Actors PROVE ~RecordFailure(b)
      BY RecordFailureStep
  <2>4. ASSUME NEW q \in Runs PROVE ~RetryDue(q)
      BY DEF RetryDue
  <2>5. Rearm
      BY <2>1, <2>2, <2>3, <2>4
      DEF Next, Step, Accept, Expire, Pause, Observe, Backfill, ClaimNext,
          ClaimAsked, Prepare, PrepareUnavailable, ApplyStale, FailEvent,
          Look, LoseConnection, Shutdown, Crash
  <2>6. RearmMatches(note.run)
      BY <2>1, <2>5 DEF Rearm
  <2>7. state \in [Runs -> {"ready", "retrying", "poisoned"}]
          /\ note \in [run : Nat, generation : 0..2]
      BY InvParts DEF TypeOK
  <2>8. r = note.run /\ cursor' = cursor
      BY <2>5, <2>6, <2>7 DEF Rearm
  <2>9. generation[r] = note.generation
      BY <2>6, <2>8 DEF RearmMatches
  <2>10. note = [run |-> note.run, generation |-> note.generation]
      BY <2>7
  <2> QED BY <2>8, <2>9, <2>10
<1>2. ProjectionInv /\ [Next]_vars => [P]_vars
    BY <1>1
<1> QED BY <1>2, Safety, PTL DEF Spec, PoisonNeedsRepair

=============================================================================
