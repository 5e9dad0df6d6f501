-------------------- MODULE RecommendationSessions_proofs --------------------
(***************************************************************************)
(* Theorems about the sessions that move recommendations, for every finite *)
(* set of plans, every set of users and every bound: the rows are locked   *)
(* as READ COMMITTED locks them, a plan that reads as finished has its     *)
(* outcome recorded, a request commits only a move the table allows, and   *)
(* one ending is counted once.                                             *)
(***************************************************************************)
EXTENDS RecommendationSessions, FiniteSetTheorems, WellFoundedInduction, TLAPS

(* Where a session can be. *)
Pcs == {"idle", "next", "lock", "decide", "record", "count", "commit"}
(* What a session keeps. *)
SessionState ==
  [pc : Pcs, todo : SUBSET Plans, at : Plans \cup {None}, new : Status \cup {None},
   copy : [Plans -> Status \cup {None}], count : Nat \cup {None}, runs : Nat]

(* A status is open or terminal, never both. *)
LEMMA StatusFacts ==
  /\ Terminal \subseteq Status /\ Open \subseteq Status
  /\ \A s \in Status : s \in Open <=> s \notin Terminal
  /\ {"READY", "WAITING_CONFIRMATION"} \subseteq Open
BY DEF Status, Open, Terminal, Transitions

(* None is no value of the model and a user is no job. *)
LEMMA NoneFacts ==
  /\ None \notin Status /\ None \notin Int /\ None \notin Sessions /\ None \notin Nat
  /\ \A u \in Users : u # "tracker" /\ u # "sweep"
BY UsersAssumption, NoneAssumption DEF Sessions, Jobs

(* A transaction that has not begun has the type of a session. *)
LEMMA IdleType == \A n \in Nat : Idle(n) \in SessionState
BY DEF Idle, SessionState, Pcs

(* The statistics row of the bucket. *)
Stats == [committed : Nat \cup {None}, latest : Nat \cup {None}]

(* The type invariant by its parts. *)
Typed ==
  /\ committed \in [Plans -> PlanRow] /\ row \in [Plans -> PlanRow] /\ stats \in Stats
  /\ owner \in [Resources -> Sessions \cup {None}]
  /\ session \in [Sessions -> SessionState]

(* It is the type invariant the runs check. *)
LEMMA TypedIsTypeOK == Typed <=> TypeOK
BY DEF Typed, TypeOK, Stats, SessionState, Pcs

(* What the row locks give: a row nobody holds reads as committed, a session that has not *)
(* begun or waits for its first row holds nothing, and one that decides or records holds  *)
(* the plan it is at.                                                                     *)
Locking ==
  /\ \A p \in Plans : owner[p] = None => row[p] = committed[p]
  /\ owner[Bucket] = None => stats.latest = stats.committed
  /\ \A s \in Sessions :
       /\ session[s].pc \in {"idle", "lock"} => \A r \in Resources : owner[r] # s
       /\ session[s].pc \in {"decide", "record", "count"} =>
            session[s].at \in Plans /\ owner[session[s].at] = s
       /\ session[s].pc = "record" => session[s].new \in Terminal
       /\ session[s].pc = "lock" => session[s].at \in Plans /\ session[s].new \in Status
       /\ s \in Jobs => session[s].pc \notin {"lock", "commit"}
       /\ s \in Users => session[s].pc \notin {"next", "decide"}

(* The end of a transaction frees its locks, leaves the session idle and touches no *)
(* other.                                                                           *)
LEMMA EndedFacts ==
  ASSUME Typed, NEW s \in Sessions, Ended(s)
  PROVE  /\ owner' \in [Resources -> Sessions \cup {None}]
         /\ \A r \in Resources : owner'[r] = IF owner[r] = s THEN None ELSE owner[r]
         /\ session' \in [Sessions -> SessionState]
         /\ session'[s] = Idle(session[s].runs) /\ session'[s].pc = "idle"
         /\ \A t \in Sessions \ {s} : session'[t] = session[t]
<1>1. session[s].runs \in Nat /\ session \in [Sessions -> SessionState]
  BY DEF Typed, SessionState
<1>2. Idle(session[s].runs) \in SessionState /\ Idle(session[s].runs).pc = "idle"
  BY <1>1, IdleType DEF Idle
<1>3. owner' = [r \in Resources |-> IF owner[r] = s THEN None ELSE owner[r]]
      /\ session' = [session EXCEPT ![s] = Idle(session[s].runs)]
  BY DEF Ended
<1> QED
  BY <1>1, <1>2, <1>3 DEF Typed

(* The statistics row is a resource of its own. *)
LEMMA BucketIsNoPlan == Bucket \in Resources /\ Plans \subseteq Resources /\ Bucket \notin Plans
BY BucketAssumption DEF Resources

(* A commit keeps types and locking. *)
LEMMA CommitFacts ==
  ASSUME Typed, Locking, NEW s \in Sessions, Commit(s)
  PROVE  Typed' /\ Locking'
<1>1. /\ committed' = [p \in Plans |-> IF owner[p] = s THEN row[p] ELSE committed[p]]
      /\ stats' = [stats EXCEPT !.committed = IF owner[Bucket] = s THEN stats.latest ELSE @]
      /\ row' = row /\ Ended(s)
  BY DEF Commit
<1>2. Typed'
  BY <1>1, EndedFacts DEF Typed, Stats
<1>3. stats'.latest = stats.latest
      /\ stats'.committed = IF owner[Bucket] = s THEN stats.latest ELSE stats.committed
  BY <1>1 DEF Typed, Stats
<1>4. Locking'
  BY <1>1, <1>3, EndedFacts, BucketIsNoPlan, NoneFacts DEF Locking, Typed
<1> QED
  BY <1>2, <1>4

(* So does a rollback. *)
LEMMA RollbackFacts ==
  ASSUME Typed, Locking, NEW s \in Sessions, Rollback(s)
  PROVE  Typed' /\ Locking'
<1>1. /\ row' = [p \in Plans |-> IF owner[p] = s THEN committed[p] ELSE row[p]]
      /\ stats' = [stats EXCEPT !.latest = IF owner[Bucket] = s THEN stats.committed ELSE @]
      /\ committed' = committed /\ Ended(s)
  BY DEF Rollback
<1>2. Typed'
  BY <1>1, EndedFacts DEF Typed, Stats
<1>3. stats'.committed = stats.committed
      /\ stats'.latest = IF owner[Bucket] = s THEN stats.committed ELSE stats.latest
  BY <1>1 DEF Typed, Stats
<1>4. Locking'
  BY <1>1, <1>3, EndedFacts, BucketIsNoPlan, NoneFacts DEF Locking, Typed
<1> QED
  BY <1>2, <1>4

(* Only this session changes where it is. *)
Alone(s) ==
  /\ session' \in [Sessions -> SessionState]
  /\ \A t \in Sessions \ {s} : session'[t] = session[t]

(* A session that works only on rows it holds keeps types and locking. *)
LEMMA OneMoves ==
  ASSUME Typed, Locking, NEW s \in Sessions, Alone(s),
         UNCHANGED <<committed, stats, owner>>, row' \in [Plans -> PlanRow],
         \A p \in Plans : owner[p] # s => row'[p] = row[p],
         session[s].pc \notin {"idle", "lock"}, session'[s].pc \notin {"idle", "lock"},
         session'[s].pc \in {"decide", "record", "count"} =>
           session'[s].at \in Plans /\ owner[session'[s].at] = s,
         session'[s].pc = "record" => session'[s].new \in Terminal,
         s \in Jobs => session'[s].pc # "commit",
         s \in Users => session'[s].pc \notin {"next", "decide"}
  PROVE  Typed' /\ Locking'
<1>1. Typed'
  BY DEF Typed, Alone
<1>2. Locking'
  BY NoneFacts DEF Locking, Typed, Alone
<1> QED
  BY <1>1, <1>2

(* The learning hook writes the outcome of the plan the session holds, once, and reads *)
(* the count.                                                                          *)
LEMMA RecordFacts ==
  ASSUME Typed, Locking, NEW s \in Sessions, Record(s)
  PROVE  LET p == session[s].at
         IN  /\ Typed' /\ Locking' /\ Alone(s) /\ UNCHANGED <<committed, stats, owner>>
             /\ p \in Plans /\ owner[p] = s
             /\ \A q \in Plans \ {p} : row'[q] = row[q]
             /\ IF row[p].outcome = None
                THEN /\ row'[p] = [row[p] EXCEPT !.outcome = session[s].new]
                     /\ row'[p].outcome # None /\ row'[p].status = row[p].status
                     /\ session'[s].pc = "count" /\ session'[s].count = VisibleCount(s)
                ELSE row'[p] = row[p] /\ session'[s].pc = Onward(s)
<1> DEFINE p == session[s].at
<1>1. /\ session[s].pc = "record" /\ p \in Plans /\ owner[p] = s
      /\ session[s].new \in Terminal /\ session[s].new # None
      /\ session[s] \in SessionState /\ row[p] \in PlanRow
      /\ UNCHANGED <<committed, stats, owner>>
  BY StatusFacts, NoneFacts DEF Record, At, Locking, Typed
<1>2. VisibleCount(s) \in Nat \cup {None} /\ Onward(s) \in Pcs
  BY DEF VisibleCount, Onward, Pcs, Typed, Stats
<1>3. CASE row[p].outcome = None
  <2>1. /\ row' = [row EXCEPT ![p].outcome = session[s].new]
        /\ session' = [session EXCEPT ![s].pc = "count", ![s].count = VisibleCount(s)]
    BY <1>3 DEF Record
  <2>2. /\ row' \in [Plans -> PlanRow] /\ row'[p] = [row[p] EXCEPT !.outcome = session[s].new]
        /\ \A q \in Plans \ {p} : row'[q] = row[q]
    BY <1>1, <2>1 DEF Typed, PlanRow
  <2>3. row'[p].outcome = session[s].new /\ row'[p].status = row[p].status
    BY <1>1, <2>2 DEF PlanRow
  <2>4. /\ Alone(s) /\ session'[s].pc = "count" /\ session'[s].count = VisibleCount(s)
        /\ session'[s].at = p
    BY <1>1, <1>2, <2>1 DEF Alone, Typed, SessionState, Pcs
  <2>5. Typed' /\ Locking'
    BY <1>1, <2>2, <2>4, OneMoves
  <2> QED
    BY <1>1, <1>3, <2>2, <2>3, <2>4, <2>5
<1>4. CASE row[p].outcome # None
  <2>1. row' = row /\ session' = [session EXCEPT ![s].pc = Onward(s)]
    BY <1>4 DEF Record
  <2>2. Alone(s) /\ session'[s].pc = Onward(s)
    BY <1>1, <1>2, <2>1 DEF Alone, Typed, SessionState
  <2>3. Onward(s) \in {"next", "commit"} /\ (s \in Jobs => Onward(s) = "next")
        /\ (s \in Users => Onward(s) = "commit")
    BY NoneFacts DEF Onward, Jobs
  <2>4. Typed' /\ Locking'
    BY <1>1, <2>1, <2>2, <2>3, OneMoves DEF Typed
  <2> QED
    BY <1>1, <1>4, <2>1, <2>2, <2>4
<1> QED
  BY <1>3, <1>4

(* The flush of the count takes the statistics row and moves no plan. *)
LEMMA CountFacts ==
  ASSUME Typed, Locking, NEW s \in Sessions, Count(s), ~Rollback(s)
  PROVE  /\ Typed' /\ Locking' /\ Alone(s) /\ UNCHANGED <<committed, row>>
         /\ session[s].pc = "count" /\ session'[s].pc = Onward(s)
         /\ stats'.committed = stats.committed
         /\ stats'.latest = (IF session[s].count = None THEN 0 ELSE session[s].count) + 1
         /\ owner' = [owner EXCEPT ![Bucket] = s]
<1>1. /\ session[s].pc = "count" /\ session[s] \in SessionState
      /\ stats' = [stats EXCEPT !.latest =
                             (IF session[s].count = None THEN 0 ELSE session[s].count) + 1]
      /\ owner' = [owner EXCEPT ![Bucket] = s] /\ Free(Bucket, s)
      /\ session' = [session EXCEPT ![s].pc = Onward(s)]
      /\ UNCHANGED <<committed, row>>
  BY DEF Count, At, Typed
<1>2. Onward(s) \in {"next", "commit"} /\ (s \in Jobs => Onward(s) = "next")
      /\ (s \in Users => Onward(s) = "commit")
  BY NoneFacts DEF Onward, Jobs
<1>3. Alone(s) /\ session'[s].pc = Onward(s)
  BY <1>1, <1>2 DEF Alone, Typed, SessionState, Pcs
<1>4. /\ stats' \in Stats /\ stats'.committed = stats.committed
      /\ stats'.latest = (IF session[s].count = None THEN 0 ELSE session[s].count) + 1
  BY <1>1 DEF Typed, Stats, SessionState
<1>5. /\ owner' \in [Resources -> Sessions \cup {None}] /\ owner'[Bucket] = s
      /\ \A r \in Resources \ {Bucket} : owner'[r] = owner[r]
      /\ owner[Bucket] \in {None, s}
  BY <1>1, BucketIsNoPlan DEF Typed, Free
<1>6. Typed'
  BY <1>1, <1>3, <1>4, <1>5 DEF Typed, Alone
<1>7. Locking'
  BY <1>1, <1>2, <1>3, <1>5, BucketIsNoPlan, NoneFacts DEF Locking, Alone, Typed
<1> QED
  BY <1>1, <1>3, <1>4, <1>6, <1>7

(* A plan the sweep passes over is left as it is. *)
LEMMA SkipFacts ==
  ASSUME Typed, Locking, SweepSkips
  PROVE  Typed' /\ Locking' /\ Alone("sweep") /\ UNCHANGED <<committed, row, stats, owner>>
         /\ session["sweep"].pc = "next" /\ session'["sweep"].pc = "next"
<1>1. /\ "sweep" \in Sessions /\ "sweep" \in Jobs /\ "sweep" \notin Users
      /\ session["sweep"] \in SessionState
      /\ session["sweep"].pc = "next" /\ UNCHANGED <<committed, row, stats, owner>>
      /\ session' = [session EXCEPT !["sweep"].todo = @ \ {Newest(@)}]
  BY NoneFacts DEF SweepSkips, At, Sessions, Jobs, Typed
<1>2. Alone("sweep") /\ session'["sweep"].pc = "next"
  BY <1>1 DEF Alone, Typed, SessionState
<1> QED
  BY <1>1, <1>2, OneMoves DEF Typed

(* The tracker moves its plan to an open status, or to an ending it goes on to record. *)
LEMMA TrackerFacts ==
  ASSUME Typed, Locking, NEW new \in Terminal \cup {"READY", None}, TrackerDecides(new)
  PROVE  LET s == "tracker"
             p == session[s].at
         IN  /\ Typed' /\ Locking' /\ Alone(s) /\ UNCHANGED <<committed, stats, owner>>
             /\ s \in Jobs /\ s \in Sessions
             /\ session[s].pc = "decide" /\ p \in Plans /\ owner[p] = s
             /\ \A q \in Plans \ {p} : row'[q] = row[q]
             /\ \/ row'[p] = row[p] /\ session'[s].pc = "next"
                \/ /\ row'[p].outcome = row[p].outcome
                   /\ \/ row'[p].status \notin Terminal /\ session'[s].pc = "next"
                      \/ session'[s].pc = "record" /\ session'[s].at = p
<1> DEFINE s == "tracker"
           p == session[s].at
           cur == session[s].copy[p]
<1>1. /\ s \in Sessions /\ s \in Jobs /\ s \notin Users /\ session[s] \in SessionState
      /\ session[s].pc = "decide" /\ UNCHANGED <<committed, stats, owner>>
      /\ p \in Plans /\ owner[p] = s /\ row[p] \in PlanRow
  BY NoneFacts DEF TrackerDecides, At, Sessions, Jobs, Typed, Locking
<1>2. CASE new # None /\ Legal(cur, new)
  <2>1. /\ row' = [row EXCEPT ![p].status = new, ![p].revisions = @ + 1]
        /\ session' = [session EXCEPT
             ![s] = [@ EXCEPT !.new = new, !.copy[p] = new,
                !.pc = IF new \in Terminal THEN "record" ELSE "next"]]
    BY <1>2 DEF TrackerDecides
  <2>2. new \in Status
    BY <1>2, StatusFacts
  <2>3. /\ row' \in [Plans -> PlanRow] /\ row'[p].status = new /\ row'[p].outcome = row[p].outcome
        /\ \A q \in Plans \ {p} : row'[q] = row[q]
    BY <1>1, <2>1, <2>2 DEF Typed, PlanRow
  <2>4. /\ Alone(s) /\ session'[s].at = p /\ session'[s].new = new
        /\ session'[s].pc = IF new \in Terminal THEN "record" ELSE "next"
    BY <1>1, <2>1, <2>2 DEF Alone, Typed, SessionState, Pcs
  <2>5. Typed' /\ Locking'
    BY <1>1, <2>3, <2>4, OneMoves
  <2> QED
    BY <1>1, <2>3, <2>4, <2>5
<1>3. CASE ~(new # None /\ Legal(cur, new))
  <2>1. row' = row /\ session' = [session EXCEPT ![s].pc = "next"]
    BY <1>3 DEF TrackerDecides
  <2>2. Alone(s) /\ session'[s].pc = "next"
    BY <1>1, <2>1 DEF Alone, Typed, SessionState, Pcs
  <2>3. Typed' /\ Locking'
    BY <1>1, <2>1, <2>2, OneMoves DEF Typed
  <2> QED
    BY <1>1, <2>1, <2>2, <2>3
<1> QED
  BY <1>2, <1>3

(* The sweep moves neither the status nor the outcome of its plan. *)
LEMMA SweepFacts ==
  ASSUME Typed, Locking, NEW verdict \in {"skipped", "confirmed", "revised"}, SweepDecides(verdict)
  PROVE  LET s == "sweep"
             p == session[s].at
         IN  /\ Typed' /\ Locking' /\ Alone(s) /\ UNCHANGED <<committed, stats, owner>>
             /\ s \in Jobs /\ s \in Sessions
             /\ session[s].pc = "decide" /\ p \in Plans /\ owner[p] = s
             /\ \A q \in Plans \ {p} : row'[q] = row[q]
             /\ row'[p].outcome = row[p].outcome /\ row'[p].status = row[p].status
             /\ session'[s].pc = "next"
<1> DEFINE s == "sweep"
           p == session[s].at
<1>1. /\ s \in Sessions /\ s \in Jobs /\ s \notin Users /\ session[s] \in SessionState
      /\ session[s].pc = "decide" /\ UNCHANGED <<committed, stats, owner>>
      /\ p \in Plans /\ owner[p] = s /\ row[p] \in PlanRow
  BY NoneFacts DEF SweepDecides, At, Sessions, Jobs, Typed, Locking
<1>2. /\ row' = [row EXCEPT ![p].revisions = IF verdict = "skipped" THEN @ ELSE @ + 1,
                            ![p].levels = IF verdict = "revised" THEN @ + 1 ELSE @]
      /\ session' = [session EXCEPT ![s].pc = "next"]
  BY DEF SweepDecides
<1>3. /\ row' \in [Plans -> PlanRow] /\ row'[p].status = row[p].status
      /\ row'[p].outcome = row[p].outcome
      /\ \A q \in Plans \ {p} : row'[q] = row[q]
  <2> DEFINE revisions == IF verdict = "skipped" THEN row[p].revisions ELSE row[p].revisions + 1
             levels == IF verdict = "revised" THEN row[p].levels + 1 ELSE row[p].levels
  <2>1. row \in [Plans -> PlanRow] /\ row[p].revisions \in Nat /\ row[p].levels \in Nat
    BY <1>1 DEF Typed, PlanRow
  <2>2. revisions \in Nat /\ levels \in Nat
    BY <2>1
  <2>3. row' = [row EXCEPT ![p].revisions = revisions, ![p].levels = levels]
    BY <1>2
  <2> HIDE DEF revisions, levels
  <2>4. /\ row'[p] = [row[p] EXCEPT !.revisions = revisions, !.levels = levels]
        /\ row' = [row EXCEPT ![p] = row'[p]]
    BY <1>1, <2>1, <2>3
  <2>5. row'[p] \in PlanRow /\ row'[p].status = row[p].status /\ row'[p].outcome = row[p].outcome
    BY <1>1, <2>2, <2>4 DEF PlanRow
  <2> QED
    BY <1>1, <2>1, <2>4, <2>5
<1>4. Alone(s) /\ session'[s].pc = "next"
  BY <1>1, <1>2 DEF Alone, Typed, SessionState, Pcs
<1>5. Typed' /\ Locking'
  BY <1>1, <1>3, <1>4, OneMoves
<1> QED
  BY <1>1, <1>3, <1>4, <1>5

(* A job that starts has locked nothing. *)
LEMMA StartFacts ==
  ASSUME Typed, Locking, NEW s \in Jobs, StartJob(s)
  PROVE  /\ Typed' /\ Locking' /\ Alone(s) /\ UNCHANGED <<committed, row, stats, owner>>
         /\ session[s].pc = "idle" /\ session'[s].pc = "next"
<1>1. /\ s \in Sessions /\ s \notin Users /\ session[s] \in SessionState /\ session[s].pc = "idle"
      /\ UNCHANGED <<committed, row, stats, owner>>
      /\ session' = [session EXCEPT
           ![s] = [@ EXCEPT !.pc = "next", !.runs = session[s].runs + 1,
                            !.todo = {p \in Plans : committed[p].status \in Open},
                            !.copy = [p \in Plans |-> committed[p].status]]]
  BY NoneFacts DEF StartJob, At, Sessions, Jobs, Typed
<1> DEFINE all == {p \in Plans : committed[p].status \in Open}
           loaded == [p \in Plans |-> committed[p].status]
<1>2. all \in SUBSET Plans /\ loaded \in [Plans -> Status \cup {None}]
  BY DEF Typed, PlanRow
<1>3. session' = [session EXCEPT
        ![s] = [@ EXCEPT !.pc = "next", !.runs = session[s].runs + 1,
                         !.todo = all, !.copy = loaded]]
  BY <1>1
<1> HIDE DEF all, loaded
<1>4. session'[s] = [session[s] EXCEPT !.pc = "next", !.runs = session[s].runs + 1,
                                       !.todo = all, !.copy = loaded]
  BY <1>1, <1>3 DEF Typed
<1>5. session[s] \in SessionState /\ session[s].runs + 1 \in Nat /\ "next" \in Pcs
  BY <1>1 DEF SessionState, Pcs
<1>6. session'[s] \in SessionState /\ session'[s].pc = "next"
  BY <1>2, <1>4, <1>5 DEF SessionState
<1>7. Alone(s) /\ session'[s].pc = "next"
  BY <1>1, <1>3, <1>6 DEF Alone, Typed
<1>8. Typed' /\ Locking'
  BY <1>1, <1>7, NoneFacts DEF Typed, Locking, Alone
<1> QED
  BY <1>1, <1>7, <1>8

(* A set of plans that is not empty has a newest one: the smallest counterexample would *)
(* lose an element and still be one.                                                    *)
LEMMA SomeNewest ==
  ASSUME NEW S, S \subseteq Plans, S # {}
  PROVE  \E p \in S : \A q \in S : q <= p
<1> DEFINE Best(X) == \E p \in X : \A q \in X : q <= p
           T == {n \in Nat : \E X \in SUBSET Plans : X # {} /\ Cardinality(X) = n /\ ~Best(X)}
<1>1. \A X \in SUBSET Plans : IsFiniteSet(X) /\ X \subseteq Nat /\ Cardinality(X) \in Nat
  BY PlansAssumption, FS_Subset, FS_CardinalityType
<1>2. SUFFICES ASSUME ~Best(S) PROVE FALSE
  OBVIOUS
<1>3. T # {} /\ T \subseteq Nat
  BY <1>1, <1>2
<1>4. PICK n \in T : \A m \in T : ~(<<m, n>> \in OpToRel(<, Nat))
  BY <1>3, WFMin, NatLessThanWellFounded
<1>5. \A m \in T : ~(m < n)
  BY <1>3, <1>4 DEF OpToRel
<1>6. PICK X \in SUBSET Plans : X # {} /\ Cardinality(X) = n /\ ~Best(X)
  OBVIOUS
<1>7. PICK x \in X : TRUE
  BY <1>6
<1>8. X \ {x} \in SUBSET Plans /\ Cardinality(X \ {x}) = n - 1 /\ Cardinality(X \ {x}) \in Nat
  BY <1>1, <1>6, FS_RemoveElement
<1>9. X \ {x} # {}
  BY <1>1, <1>6
<1>10. n - 1 \notin T
  BY <1>3, <1>5, <1>8
<1>11. PICK p \in X \ {x} : \A q \in X \ {x} : q <= p
  BY <1>8, <1>9, <1>10
<1>12. p \in Nat /\ x \in Nat /\ X \subseteq Nat
  BY <1>1
<1>13. CASE x <= p
  <2>1. \A q \in X : q <= p
    BY <1>11, <1>13
  <2> QED
    BY <1>6, <2>1
<1>14. CASE p <= x
  <2>1. \A q \in X : q <= x
    BY <1>11, <1>12, <1>14
  <2> QED
    BY <1>6, <2>1
<1> QED
  BY <1>12, <1>13, <1>14

(* So the next plan of a job is one it has to do. *)
LEMMA NewestIsMember ==
  ASSUME NEW S, S \subseteq Plans, S # {}
  PROVE  Newest(S) \in S
BY SomeNewest DEF Newest

(* A job locks a plan nobody else holds. *)
LEMMA LockFacts ==
  ASSUME Typed, Locking, NEW s \in Jobs, LockNext(s)
  PROVE  LET p == session'[s].at
         IN  /\ Typed' /\ Locking' /\ Alone(s) /\ UNCHANGED <<committed, row, stats>>
             /\ session[s].pc = "next" /\ session'[s].pc = "decide"
             /\ p \in Plans /\ owner[p] \in {None, s} /\ owner' = [owner EXCEPT ![p] = s]
<1> DEFINE p == Newest(session[s].todo)
<1>1. /\ s \in Sessions /\ s \notin Users /\ session[s] \in SessionState /\ session[s].pc = "next"
      /\ UNCHANGED <<committed, row, stats>> /\ session[s].todo # {}
      /\ owner' = [owner EXCEPT ![p] = s] /\ owner[p] \in {None, s}
      /\ session' = [session EXCEPT ![s] =
             [@ EXCEPT !.pc = "decide", !.at = p, !.todo = session[s].todo \ {p}]]
  BY NoneFacts DEF LockNext, At, Sessions, Jobs, Typed, Free
<1>2. p \in Plans
  BY <1>1, NewestIsMember DEF SessionState
<1> DEFINE rest == session[s].todo \ {p}
<1>3. rest \in SUBSET Plans
  BY <1>1 DEF SessionState
<1>4. session' = [session EXCEPT ![s] = [@ EXCEPT !.pc = "decide", !.at = p, !.todo = rest]]
  BY <1>1
<1> HIDE DEF p, rest
<1>5. session'[s] = [session[s] EXCEPT !.pc = "decide", !.at = p, !.todo = rest]
  BY <1>1, <1>4 DEF Typed
<1>6. session[s] \in SessionState /\ "decide" \in Pcs
  BY <1>1 DEF Pcs
<1>7. session'[s] \in SessionState /\ session'[s].pc = "decide" /\ session'[s].at = p
  BY <1>3, <1>5, <1>6, <1>2 DEF SessionState
<1>8. Alone(s) /\ session'[s].pc = "decide" /\ session'[s].at = p
  BY <1>1, <1>4, <1>7 DEF Alone, Typed
<1>9. /\ owner' \in [Resources -> Sessions \cup {None}] /\ owner'[p] = s
      /\ \A r \in Resources \ {p} : owner'[r] = owner[r]
  BY <1>1, <1>2, BucketIsNoPlan DEF Typed
<1>10. Typed'
  BY <1>1, <1>8, <1>9 DEF Typed, Alone
<1>11. Locking'
  BY <1>1, <1>2, <1>8, <1>9, BucketIsNoPlan, NoneFacts DEF Locking, Alone, Typed
<1> QED
  BY <1>1, <1>2, <1>8, <1>10, <1>11

(* A request that loads its plan has locked nothing. *)
LEMMA RequestFacts ==
  ASSUME Typed, Locking, NEW u \in Users, NEW p \in Plans, NEW new \in Asked, Request(u, p, new)
  PROVE  /\ Typed' /\ Locking' /\ Alone(u) /\ UNCHANGED <<committed, row, stats, owner>>
         /\ session[u].pc = "idle" /\ session'[u].pc = "lock"
<1>1. /\ u \in Sessions /\ u \notin Jobs /\ session[u] \in SessionState /\ session[u].pc = "idle"
      /\ UNCHANGED <<committed, row, stats, owner>>
      /\ session' = [session EXCEPT
           ![u] = [@ EXCEPT !.pc = "lock", !.runs = 1, !.at = p, !.new = new,
                            !.copy[p] = committed[p].status]]
  BY NoneFacts DEF Request, At, Sessions, Jobs, Typed
<1>2. committed[p].status \in Status /\ new \in Status
  BY StatusAssumption DEF Typed, PlanRow
<1>3. Alone(u) /\ session'[u].pc = "lock" /\ session'[u].at = p /\ session'[u].new = new
  BY <1>1, <1>2 DEF Alone, Typed, SessionState, Pcs
<1>4. Typed' /\ Locking'
  BY <1>1, <1>2, <1>3, NoneFacts DEF Typed, Locking, Alone
<1> QED
  BY <1>1, <1>3, <1>4

(* Under the lock a request refuses, or moves an open plan the way the table allows. *)
LEMMA UserFacts ==
  ASSUME Typed, Locking, NEW u \in Users, UserDecides(u)
  PROVE  LET p == session[u].at
             new == session[u].new
         IN  /\ Typed' /\ Locking' /\ Alone(u) /\ UNCHANGED <<committed, stats>>
             /\ session[u].pc = "lock" /\ p \in Plans
             /\ \/ row' = row /\ owner' = owner /\ session'[u].pc = "idle"
                \/ /\ owner[p] = None /\ owner' = [owner EXCEPT ![p] = u]
                   /\ row[p].status \notin Terminal /\ Legal(row[p].status, new)
                   /\ row'[p].status = new /\ row'[p].outcome = row[p].outcome
                   /\ \A q \in Plans \ {p} : row'[q] = row[q]
                   /\ session'[u].at = p
                   /\ session'[u].pc = IF new \in Terminal THEN "record" ELSE "commit"
<1> DEFINE p == session[u].at
           new == session[u].new
<1>1. /\ u \in Sessions /\ u \notin Jobs /\ session[u] \in SessionState /\ session[u].pc = "lock"
      /\ UNCHANGED <<committed, stats>> /\ p \in Plans /\ new \in Status /\ row[p] \in PlanRow
      /\ owner[p] = None /\ \A r \in Resources : owner[r] # u
  BY BucketIsNoPlan, NoneFacts DEF UserDecides, At, Sessions, Jobs, Typed, Free, Locking
<1>2. CASE Judged(u, p) \in Terminal \/ ~Legal(Judged(u, p), new)
  <2>1. row' = row /\ owner' = owner /\ session' = [session EXCEPT ![u] = Idle(1)]
    BY <1>2 DEF UserDecides
  <2>2. Alone(u) /\ session'[u].pc = "idle"
    BY <1>1, <2>1, IdleType DEF Alone, Typed, Idle
  <2>3. Typed' /\ Locking'
    BY <1>1, <2>1, <2>2, NoneFacts DEF Typed, Locking, Alone
  <2> QED
    BY <1>1, <2>1, <2>2, <2>3
<1>3. CASE Judged(u, p) \notin Terminal /\ Legal(Judged(u, p), new)
  <2>1. /\ owner' = [owner EXCEPT ![p] = u] /\ row' = [row EXCEPT ![p].status = new]
        /\ session' = [session EXCEPT ![u].pc = IF new \in Terminal THEN "record" ELSE "commit"]
        /\ row[p].status \notin Terminal /\ Legal(row[p].status, new)
    BY <1>3 DEF UserDecides, Judged
  <2>2. /\ row' \in [Plans -> PlanRow] /\ row'[p].status = new /\ row'[p].outcome = row[p].outcome
        /\ \A q \in Plans \ {p} : row'[q] = row[q]
    BY <1>1, <2>1 DEF Typed, PlanRow
  <2>3. /\ Alone(u) /\ session'[u].at = p /\ session'[u].new = new
        /\ session'[u].pc = IF new \in Terminal THEN "record" ELSE "commit"
    BY <1>1, <2>1 DEF Alone, Typed, SessionState, Pcs
  <2>4. /\ owner' \in [Resources -> Sessions \cup {None}] /\ owner'[p] = u
        /\ \A r \in Resources \ {p} : owner'[r] = owner[r]
    BY <1>1, <2>1, BucketIsNoPlan DEF Typed
  <2>5. Typed'
    BY <1>1, <2>2, <2>3, <2>4 DEF Typed, Alone
  <2>6. Locking'
    BY <1>1, <2>2, <2>3, <2>4, BucketIsNoPlan, NoneFacts DEF Locking, Alone, Typed
  <2> QED
    BY <1>1, <2>1, <2>2, <2>3, <2>5, <2>6
<1> QED
  BY <1>2, <1>3 DEF UserDecides

(* At the beginning no row is locked. *)
LEMMA InitLocking == Init => Typed /\ Locking
<1> SUFFICES ASSUME Init PROVE Typed /\ Locking
  OBVIOUS
<1>1. committed \in [Plans -> PlanRow] /\ row = committed
  BY StatusFacts, StatusAssumption DEF Init, PlanRow
<1>2. stats \in Stats /\ stats.committed = stats.latest
  BY DEF Init, Stats
<1>3. owner \in [Resources -> Sessions \cup {None}] /\ \A r \in Resources : owner[r] = None
  BY DEF Init
<1>4. session \in [Sessions -> SessionState] /\ \A s \in Sessions : session[s].pc = "idle"
  BY IdleType DEF Init, Idle
<1> QED
  BY <1>1, <1>2, <1>3, <1>4, NoneFacts DEF Typed, Locking

(* A step is one of these; the victim of a deadlock and a failed session roll back. *)
LEMMA Kinds ==
  ASSUME [Next]_vars
  PROVE  \/ UNCHANGED vars
         \/ \E s \in Sessions : Commit(s) \/ Rollback(s) \/ Record(s) \/ (Count(s) /\ ~Rollback(s))
         \/ \E s \in Jobs : LockNext(s) \/ StartJob(s)
         \/ \E new \in Terminal \cup {"READY", None} : TrackerDecides(new)
         \/ SweepSkips \/ \E v \in {"skipped", "confirmed", "revised"} : SweepDecides(v)
         \/ \E u \in Users : UserDecides(u)
         \/ \E u \in Users, p \in Plans, new \in Asked : Request(u, p, new)
BY DEF Next, Work, Fail, DeadlockVictim

(* Every step keeps types and locking. *)
LEMMA LockingStep == Typed /\ Locking /\ [Next]_vars => Typed' /\ Locking'
<1> SUFFICES ASSUME Typed, Locking, [Next]_vars PROVE Typed' /\ Locking'
  OBVIOUS
<1>1. CASE UNCHANGED vars
  BY <1>1 DEF vars, Typed, Locking
<1>2. ASSUME NEW s \in Sessions, Commit(s) \/ Rollback(s) \/ Record(s) \/ (Count(s) /\ ~Rollback(s))
      PROVE  Typed' /\ Locking'
  BY <1>2, CommitFacts, RollbackFacts, RecordFacts, CountFacts
<1>3. ASSUME NEW s \in Jobs, LockNext(s) \/ StartJob(s)
      PROVE  Typed' /\ Locking'
  BY <1>3, LockFacts, StartFacts
<1>4. CASE \/ \E new \in Terminal \cup {"READY", None} : TrackerDecides(new)
           \/ SweepSkips \/ \E v \in {"skipped", "confirmed", "revised"} : SweepDecides(v)
  BY <1>4, TrackerFacts, SkipFacts, SweepFacts
<1>5. CASE \E u \in Users : UserDecides(u)
  BY <1>5, UserFacts
<1>6. CASE \E u \in Users, p \in Plans, new \in Asked : Request(u, p, new)
  BY <1>6, RequestFacts
<1> QED
  BY <1>1, <1>2, <1>3, <1>4, <1>5, <1>6, Kinds

(* Every session, row and lock keeps its type (TypeOK): lock_recommendation and the *)
(* transaction ends leave no row without an owner or a version it could have.       *)
THEOREM SessionTypes == Spec => []TypeOK
<1>1. Typed /\ Locking => TypeOK
  BY TypedIsTypeOK
<1> QED
  BY <1>1, InitLocking, LockingStep, PTL DEF Spec

(* What lock_recommendation is for: a row that is free reads as committed, and whoever *)
(* decides or records about a plan holds its row.                                      *)
THEOREM RowsAreLocked == Spec => []Locking
<1> QED
  BY InitLocking, LockingStep, PTL DEF Spec
-----------------------------------------------------------------------------
(* A finished row has its outcome, or its owner is about to write it. *)
Recorded ==
  /\ FinishedPlanIsRecorded
  /\ \A p \in Plans : row[p].status \in Terminal =>
       \/ row[p].outcome # None
       \/ owner[p] \in Sessions /\ session[owner[p]].pc = "record" /\ session[owner[p]].at = p

(* What commit and rollback have in common. *)
LEMMA EndingFacts ==
  ASSUME Typed, Locking, NEW s \in Sessions, Commit(s) \/ Rollback(s)
  PROVE  /\ \A p \in Plans : owner'[p] = IF owner[p] = s THEN None ELSE owner[p]
         /\ session'[s].pc = "idle" /\ \A t \in Sessions \ {s} : session'[t] = session[t]
         /\ owner'[Bucket] = IF owner[Bucket] = s THEN None ELSE owner[Bucket]
<1>1. Ended(s)
  BY DEF Commit, Rollback
<1> QED
  BY <1>1, EndedFacts, BucketIsNoPlan

(* Every step keeps it: only the tracker and a request set an ending, and both go to the *)
(* hook before they can commit.                                                          *)
LEMMA RecordedStep ==
  ASSUME Typed, Locking, Recorded, [Next]_vars
  PROVE  Recorded'
<1>1. CASE UNCHANGED vars
  BY <1>1 DEF vars, Recorded, FinishedPlanIsRecorded
<1>2. ASSUME NEW s \in Sessions, Commit(s)
      PROVE  Recorded'
  <2>1. /\ committed' = [p \in Plans |-> IF owner[p] = s THEN row[p] ELSE committed[p]]
        /\ row' = row /\ session[s].pc # "record"
    BY <1>2 DEF Commit, At
  <2>2. /\ \A p \in Plans : owner'[p] = IF owner[p] = s THEN None ELSE owner[p]
        /\ \A t \in Sessions \ {s} : session'[t] = session[t]
    BY <1>2, EndingFacts
  <2> QED
    BY <2>1, <2>2, NoneFacts DEF Recorded, FinishedPlanIsRecorded, Typed
<1>3. ASSUME NEW s \in Sessions, Rollback(s)
      PROVE  Recorded'
  <2>1. /\ row' = [p \in Plans |-> IF owner[p] = s THEN committed[p] ELSE row[p]]
        /\ committed' = committed
    BY <1>3 DEF Rollback
  <2>2. /\ \A p \in Plans : owner'[p] = IF owner[p] = s THEN None ELSE owner[p]
        /\ \A t \in Sessions \ {s} : session'[t] = session[t]
    BY <1>3, EndingFacts
  <2> QED
    BY <2>1, <2>2, NoneFacts DEF Recorded, FinishedPlanIsRecorded, Typed
<1>4. ASSUME NEW s \in Sessions, Record(s)
      PROVE  Recorded'
  <2> DEFINE p == session[s].at
  <2>1. /\ Alone(s) /\ UNCHANGED <<committed, stats, owner>> /\ p \in Plans /\ owner[p] = s
        /\ \A q \in Plans \ {p} : row'[q] = row[q]
        /\ row'[p].outcome # None
    BY <1>4, RecordFacts
  <2> QED
    BY <2>1 DEF Recorded, FinishedPlanIsRecorded, Alone, Typed
<1>5. ASSUME NEW s \in Sessions, Count(s), ~Rollback(s)
      PROVE  Recorded'
  <2>1. /\ Alone(s) /\ UNCHANGED <<committed, row>> /\ session[s].pc = "count"
        /\ owner' = [owner EXCEPT ![Bucket] = s]
    BY <1>5, CountFacts
  <2>2. \A p \in Plans : owner'[p] = owner[p]
    BY <2>1, BucketIsNoPlan DEF Typed
  <2> QED
    BY <2>1, <2>2 DEF Recorded, FinishedPlanIsRecorded, Alone, Typed
<1>6. ASSUME NEW s \in Jobs, LockNext(s)
      PROVE  Recorded'
  <2> DEFINE p == session'[s].at
  <2>1. /\ Alone(s) /\ UNCHANGED <<committed, row>> /\ session[s].pc = "next"
        /\ p \in Plans /\ owner[p] \in {None, s} /\ owner' = [owner EXCEPT ![p] = s]
    BY <1>6, LockFacts
  <2>2. \A q \in Plans \ {p} : owner'[q] = owner[q]
    BY <2>1, BucketIsNoPlan DEF Typed
  <2>3. row[p].status \in Terminal => row[p].outcome # None
    BY <2>1, NoneFacts DEF Recorded
  <2> QED
    BY <2>1, <2>2, <2>3 DEF Recorded, FinishedPlanIsRecorded, Alone, Typed
<1>7. ASSUME NEW s \in Jobs, StartJob(s)
      PROVE  Recorded'
  BY <1>7, StartFacts DEF Recorded, FinishedPlanIsRecorded, Alone, Typed
<1>8. ASSUME NEW new \in Terminal \cup {"READY", None}, TrackerDecides(new)
      PROVE  Recorded'
  <2> DEFINE s == "tracker"
             p == session[s].at
  <2>1. /\ Alone(s) /\ UNCHANGED <<committed, stats, owner>>
        /\ s \in Sessions /\ session[s].pc = "decide" /\ p \in Plans /\ owner[p] = s
        /\ \A q \in Plans \ {p} : row'[q] = row[q]
        /\ \/ row'[p] = row[p] /\ session'[s].pc = "next"
           \/ /\ row'[p].outcome = row[p].outcome
              /\ \/ row'[p].status \notin Terminal /\ session'[s].pc = "next"
                 \/ session'[s].pc = "record" /\ session'[s].at = p
    BY <1>8, TrackerFacts
  <2> QED
    BY <2>1 DEF Recorded, FinishedPlanIsRecorded, Alone, Typed
<1>9. CASE SweepSkips
  BY <1>9, SkipFacts DEF Recorded, FinishedPlanIsRecorded, Alone, Typed
<1>10. ASSUME NEW v \in {"skipped", "confirmed", "revised"}, SweepDecides(v)
       PROVE  Recorded'
  <2> DEFINE s == "sweep"
             p == session[s].at
  <2>1. /\ Alone(s) /\ UNCHANGED <<committed, stats, owner>>
        /\ s \in Sessions /\ session[s].pc = "decide" /\ p \in Plans /\ owner[p] = s
        /\ \A q \in Plans \ {p} : row'[q] = row[q]
        /\ row'[p].outcome = row[p].outcome /\ row'[p].status = row[p].status
    BY <1>10, SweepFacts
  <2> QED
    BY <2>1 DEF Recorded, FinishedPlanIsRecorded, Alone, Typed
<1>11. ASSUME NEW u \in Users, UserDecides(u)
       PROVE  Recorded'
  <2> DEFINE p == session[u].at
             new == session[u].new
  <2>1. /\ Alone(u) /\ UNCHANGED <<committed, stats>> /\ session[u].pc = "lock" /\ p \in Plans
        /\ u \in Sessions
        /\ \/ row' = row /\ owner' = owner
           \/ /\ owner[p] = None /\ owner' = [owner EXCEPT ![p] = u]
              /\ row[p].status \notin Terminal
              /\ row'[p].status = new /\ row'[p].outcome = row[p].outcome
              /\ \A q \in Plans \ {p} : row'[q] = row[q]
              /\ session'[u].at = p
              /\ session'[u].pc = IF new \in Terminal THEN "record" ELSE "commit"
    BY <1>11, UserFacts DEF Sessions
  <2>2. CASE row' = row /\ owner' = owner
    BY <2>1, <2>2 DEF Recorded, FinishedPlanIsRecorded, Alone, Typed
  <2>3. CASE ~(row' = row /\ owner' = owner)
    <3>1. owner'[p] = u /\ \A q \in Plans \ {p} : owner'[q] = owner[q]
      BY <2>1, <2>3, BucketIsNoPlan DEF Typed
    <3> QED
      BY <2>1, <2>3, <3>1 DEF Recorded, FinishedPlanIsRecorded, Alone, Typed
  <2> QED
    BY <2>2, <2>3
<1>12. ASSUME NEW u \in Users, NEW p \in Plans, NEW new \in Asked, Request(u, p, new)
       PROVE  Recorded'
  BY <1>12, RequestFacts DEF Recorded, FinishedPlanIsRecorded, Alone, Typed
<1> QED
  BY <1>1, <1>2, <1>3, <1>4, <1>5, <1>6, <1>7, <1>8, <1>9, <1>10, <1>11, <1>12, Kinds

(* A plan that reads as finished has its outcome recorded (FinishedPlanIsRecorded): the  *)
(* status and the learning hook, on_recommendation_terminal_status, are one transaction, *)
(* whatever fails between them.                                                          *)
THEOREM FinishedIsRecorded == Spec => []FinishedPlanIsRecorded
<1>1. Init => Recorded
  <2> SUFFICES ASSUME Init PROVE Recorded
    OBVIOUS
  <2>1. \A p \in Plans : committed[p].status \in Open /\ row = committed
    BY StatusAssumption DEF Init
  <2> QED
    BY <2>1, StatusFacts DEF Recorded, FinishedPlanIsRecorded
<1>2. Recorded => FinishedPlanIsRecorded
  BY DEF Recorded
<1>3. Typed /\ Locking /\ Recorded /\ [Next]_vars => Recorded'
  BY RecordedStep
<1> QED
  BY <1>1, <1>2, <1>3, InitLocking, LockingStep, PTL DEF Spec
-----------------------------------------------------------------------------
(* What a request has changed and not yet published is a legal move from the committed *)
(* status.                                                                             *)
Moves ==
  \A u \in Users, p \in Plans : owner[p] = u =>
    committed[p].status \in Open /\ Legal(committed[p].status, row[p].status)

(* Every step keeps it: nobody else commits a row a request holds. *)
LEMMA MovesStep ==
  ASSUME Typed, Locking, Moves, [Next]_vars
  PROVE  Moves'
<1>1. CASE UNCHANGED vars
  BY <1>1 DEF vars, Moves
<1>2. ASSUME NEW s \in Sessions, Commit(s) \/ Rollback(s)
      PROVE  Moves'
  <2>1. \A p \in Plans : owner'[p] = IF owner[p] = s THEN None ELSE owner[p]
    BY <1>2, EndingFacts
  <2>2. \A p \in Plans : owner[p] # s => committed'[p] = committed[p] /\ row'[p] = row[p]
    BY <1>2 DEF Commit, Rollback, Typed
  <2> QED
    BY <2>1, <2>2, NoneFacts DEF Moves, Sessions
<1>3. ASSUME NEW s \in Sessions, Record(s)
      PROVE  Moves'
  <2> DEFINE p == session[s].at
  <2>1. /\ UNCHANGED <<committed, stats, owner>> /\ p \in Plans
        /\ \A q \in Plans : row'[q].status = row[q].status
    BY <1>3, RecordFacts
  <2> QED
    BY <2>1 DEF Moves
<1>4. ASSUME NEW s \in Sessions, Count(s), ~Rollback(s)
      PROVE  Moves'
  <2>1. UNCHANGED <<committed, row>> /\ owner' = [owner EXCEPT ![Bucket] = s]
    BY <1>4, CountFacts
  <2>2. \A p \in Plans : owner'[p] = owner[p]
    BY <2>1, BucketIsNoPlan DEF Typed
  <2> QED
    BY <2>1, <2>2 DEF Moves
<1>5. ASSUME NEW s \in Jobs, LockNext(s)
      PROVE  Moves'
  <2> DEFINE p == session'[s].at
  <2>1. UNCHANGED <<committed, row>> /\ p \in Plans /\ owner' = [owner EXCEPT ![p] = s]
    BY <1>5, LockFacts
  <2>2. owner'[p] = s /\ s \notin Users /\ \A q \in Plans \ {p} : owner'[q] = owner[q]
    BY <2>1, BucketIsNoPlan, NoneFacts DEF Typed, Jobs
  <2> QED
    BY <2>1, <2>2 DEF Moves
<1>6. ASSUME NEW s \in Jobs, StartJob(s)
      PROVE  Moves'
  BY <1>6, StartFacts DEF Moves
<1>7. ASSUME NEW new \in Terminal \cup {"READY", None}, TrackerDecides(new)
      PROVE  Moves'
  <2>1. UNCHANGED <<committed, owner>> /\ \A q \in Plans : owner[q] # "tracker" => row'[q] = row[q]
    BY <1>7, TrackerFacts
  <2> QED
    BY <2>1, NoneFacts DEF Moves
<1>8. CASE SweepSkips
  BY <1>8, SkipFacts DEF Moves
<1>9. ASSUME NEW v \in {"skipped", "confirmed", "revised"}, SweepDecides(v)
      PROVE  Moves'
  <2>1. UNCHANGED <<committed, owner>> /\ \A q \in Plans : owner[q] # "sweep" => row'[q] = row[q]
    BY <1>9, SweepFacts
  <2> QED
    BY <2>1, NoneFacts DEF Moves
<1>10. ASSUME NEW u \in Users, UserDecides(u)
       PROVE  Moves'
  <2> DEFINE p == session[u].at
             new == session[u].new
  <2>1. CASE row' = row /\ owner' = owner
    BY <1>10, <2>1, UserFacts DEF Moves
  <2>2. CASE ~(row' = row /\ owner' = owner)
    <3>1. /\ committed' = committed /\ p \in Plans
          /\ owner[p] = None /\ owner' = [owner EXCEPT ![p] = u]
          /\ row[p].status \notin Terminal /\ Legal(row[p].status, new)
          /\ row'[p].status = new /\ \A q \in Plans \ {p} : row'[q] = row[q]
      BY <1>10, <2>2, UserFacts
    <3>2. row[p] = committed[p] /\ committed[p].status \in Open
      BY <3>1, StatusFacts DEF Locking, Typed, PlanRow
    <3>3. \A q \in Plans \ {p} : owner'[q] = owner[q]
      BY <3>1, BucketIsNoPlan DEF Typed
    <3> QED
      BY <3>1, <3>2, <3>3 DEF Moves
  <2> QED
    BY <2>1, <2>2
<1>11. ASSUME NEW u \in Users, NEW p \in Plans, NEW new \in Asked, Request(u, p, new)
       PROVE  Moves'
  BY <1>11, RequestFacts DEF Moves
<1> QED
  BY <1>1, <1>2, <1>3, <1>4, <1>5, <1>6, <1>7, <1>8, <1>9, <1>10, <1>11, Kinds

(* The step the action property speaks of. *)
LegalCommits ==
  \A u \in Users, p \in Plans :
    At(u, "commit") /\ session'[u].pc = "idle" /\ committed'[p] # committed[p]
      => /\ committed[p].status \in Open
         /\ Legal(committed[p].status, committed'[p].status)

(* Only a commit changes what others read. *)
LEMMA OnlyCommitPublishes ==
  ASSUME Typed, Locking, [Next]_vars, committed' # committed
  PROVE  \E s \in Sessions : Commit(s)
<1>1. ~(UNCHANGED vars)
  BY DEF vars
<1>2. \A s \in Sessions : Rollback(s) => committed' = committed
  BY DEF Rollback
<1> QED
  BY <1>1, <1>2, Kinds, RecordFacts, CountFacts, LockFacts, StartFacts, TrackerFacts, SkipFacts,
     SweepFacts, UserFacts, RequestFacts

(* So what a request publishes is a legal move. *)
LEMMA LegalCommitsStep ==
  ASSUME Typed, Locking, Moves, [Next]_vars
  PROVE  LegalCommits
<1> SUFFICES ASSUME NEW u \in Users, NEW p \in Plans, At(u, "commit"), session'[u].pc = "idle",
                    committed'[p] # committed[p]
             PROVE  committed[p].status \in Open /\ Legal(committed[p].status, committed'[p].status)
  BY DEF LegalCommits
<1>1. PICK s \in Sessions : Commit(s)
  BY OnlyCommitPublishes
<1>2. \A t \in Sessions \ {s} : session'[t] = session[t]
  BY <1>1, EndingFacts
<1>3. s = u
  BY <1>2 DEF At, Sessions
<1>4. committed'[p] = IF owner[p] = u THEN row[p] ELSE committed[p]
  BY <1>1, <1>3 DEF Commit
<1> QED
  BY <1>4 DEF Moves

(* A request commits only a move the table allows from the status committed just before *)
(* (RequestsMoveLegally): transition_recommendation_status refreshes under the lock.    *)
THEOREM RequestsCommitLegally == Spec => RequestsMoveLegally
<1>1. Init => Moves
  BY NoneFacts DEF Init, Moves, Resources, Sessions
<1>2. Typed /\ Locking /\ Moves /\ [Next]_vars => Moves'
  BY MovesStep
<1>3. Typed /\ Locking /\ Moves /\ [Next]_vars => [LegalCommits]_vars
  BY LegalCommitsStep
<1>4. [][LegalCommits]_vars => RequestsMoveLegally
  BY PTL DEF RequestsMoveLegally, LegalCommits
<1> QED
  BY <1>1, <1>2, <1>3, <1>4, InitLocking, LockingStep, PTL DEF Spec
-----------------------------------------------------------------------------
(* The plans with a committed outcome. *)
Noted == {p \in Plans : committed[p].outcome # None}
(* And the ones whose outcome this session has written and not committed. *)
SeenBy(s) == Noted \cup {p \in Plans : owner[p] = s /\ row[p].outcome # None}
(* The number a session is about to write is no more than the outcomes it sees. *)
Bound(s) == (IF session[s].count = None THEN 0 ELSE session[s].count) + 1 <= Cardinality(SeenBy(s))

(* What the proof of the counting rests on: outcomes are never taken back by their owner, *)
(* and each version of the count is covered by the outcomes of its writer.                *)
Votes ==
  /\ \A p \in Plans : committed[p].outcome # None => row[p].outcome # None
  /\ stats.committed # None => stats.committed <= Cardinality(Noted)
  /\ \A s \in Sessions : owner[Bucket] = s /\ stats.latest # None =>
       stats.latest <= Cardinality(SeenBy(s))
  /\ \A s \in Sessions : session[s].pc = "count" => Bound(s)

(* A larger set of plans has no fewer members. *)
LEMMA Larger ==
  ASSUME NEW S, NEW T, S \subseteq T, T \subseteq Plans
  PROVE  Cardinality(S) \in Nat /\ Cardinality(T) \in Nat /\ Cardinality(S) <= Cardinality(T)
<1>1. IsFiniteSet(T) /\ IsFiniteSet(S)
  BY PlansAssumption, FS_Subset
<1> QED
  BY <1>1, FS_Subset, FS_CardinalityType

(* A step of one session that leaves the count alone and takes no outcome back keeps it. *)
LEMMA Quiet ==
  ASSUME Typed, Typed', Votes, NEW s \in Sessions, Alone(s), UNCHANGED <<committed, stats>>,
         owner'[Bucket] = owner[Bucket],
         \A p \in Plans : row[p].outcome # None => row'[p].outcome # None,
         \A p \in Plans : owner[p] \in Sessions => owner'[p] = owner[p],
         session'[s].pc = "count" => Bound(s)'
  PROVE  Votes'
<1>1. Noted' = Noted /\ Noted \subseteq Plans
  BY DEF Noted
<1>2. \A t \in Sessions : SeenBy(t) \subseteq SeenBy(t)' /\ SeenBy(t)' \subseteq Plans
  BY DEF SeenBy, Noted
<1>3. \A t \in Sessions : /\ Cardinality(SeenBy(t)) \in Nat /\ Cardinality(SeenBy(t)') \in Nat
                          /\ Cardinality(SeenBy(t)) <= Cardinality(SeenBy(t)')
  BY <1>2, Larger
<1>4. \A p \in Plans : committed'[p].outcome # None => row'[p].outcome # None
  BY DEF Votes
<1>5. stats'.committed # None => stats'.committed <= Cardinality(Noted')
  BY <1>1 DEF Votes
<1>6. ASSUME NEW t \in Sessions, owner'[Bucket] = t, stats'.latest # None
      PROVE  stats'.latest <= Cardinality(SeenBy(t)')
  BY <1>3, <1>6 DEF Votes, Typed, Stats
<1>7. ASSUME NEW t \in Sessions, session'[t].pc = "count"
      PROVE  Bound(t)'
  <2>1. CASE t # s
    <3>1. session'[t] = session[t] /\ session[t] \in SessionState
      BY <2>1 DEF Alone, Typed
    <3> QED
      BY <1>3, <1>7, <3>1 DEF Votes, Bound, SessionState
  <2> QED
    BY <1>7, <2>1
<1> QED
  BY <1>4, <1>5, <1>6, <1>7 DEF Votes

(* Every step keeps it; the outcome a session adds is one it did not see before. *)
LEMMA VotesStep ==
  ASSUME Typed, Typed', Locking, Votes, [Next]_vars
  PROVE  Votes'
<1>1. CASE UNCHANGED vars
  BY <1>1 DEF vars, Votes, Bound, SeenBy, Noted
<1>2. ASSUME NEW s \in Sessions, Commit(s) \/ Rollback(s)
      PROVE  Votes'
  <2>1. /\ \A p \in Plans : owner'[p] = IF owner[p] = s THEN None ELSE owner[p]
        /\ session'[s].pc = "idle" /\ \A t \in Sessions \ {s} : session'[t] = session[t]
        /\ owner'[Bucket] = IF owner[Bucket] = s THEN None ELSE owner[Bucket]
    BY <1>2, EndingFacts
  <2>2. /\ \A p \in Plans :
             committed'[p] = row'[p] \/ (committed'[p] = committed[p] /\ row'[p] = row[p])
        /\ \A p \in Plans : owner[p] # s => committed'[p] = committed[p] /\ row'[p] = row[p]
        /\ \A p \in Plans : committed'[p] = committed[p] \/ (committed'[p] = row[p] /\ owner[p] = s)
    BY <1>2 DEF Commit, Rollback, Typed
  <2>3. \A p \in Plans : committed'[p].outcome # None => row'[p].outcome # None
    BY <2>2 DEF Votes
  <2>4. Noted \subseteq Noted' /\ Noted' \subseteq Plans
    BY <2>2 DEF Noted, Votes
  <2>5. \A t \in Sessions \ {s} : SeenBy(t) \subseteq SeenBy(t)' /\ SeenBy(t)' \subseteq Plans
    BY <2>1, <2>2, <2>4 DEF SeenBy, Noted
  <2>6. /\ Cardinality(Noted) \in Nat /\ Cardinality(Noted') \in Nat
        /\ Cardinality(Noted) <= Cardinality(Noted')
    BY <2>4, Larger
  <2>7. \A t \in Sessions \ {s} :
          /\ Cardinality(SeenBy(t)) \in Nat /\ Cardinality(SeenBy(t)') \in Nat
          /\ Cardinality(SeenBy(t)) <= Cardinality(SeenBy(t)')
    BY <2>5, Larger
  <2>8. stats'.committed # None => stats'.committed <= Cardinality(Noted')
    <3>1. CASE Commit(s)
      <4>1. stats'.committed = IF owner[Bucket] = s THEN stats.latest ELSE stats.committed
        BY <3>1 DEF Commit, Typed, Stats
      <4>2. Noted' = SeenBy(s)
        BY <3>1 DEF Noted, SeenBy, Votes, Commit
      <4> QED
        BY <4>1, <4>2, <2>6 DEF Votes, Typed, Stats
    <3>2. CASE Rollback(s)
      <4>1. stats'.committed = stats.committed
        BY <3>2 DEF Rollback, Typed, Stats
      <4> QED
        BY <4>1, <2>6 DEF Votes, Typed, Stats
    <3> QED
      BY <1>2, <3>1, <3>2
  <2>9. ASSUME NEW t \in Sessions, owner'[Bucket] = t, stats'.latest # None
        PROVE  stats'.latest <= Cardinality(SeenBy(t)')
    <3>1. t # s /\ owner[Bucket] = t
      BY <2>1, <2>9, NoneFacts
    <3>2. stats'.latest = stats.latest
      BY <1>2, <3>1 DEF Commit, Rollback, Typed, Stats
    <3> QED
      BY <2>7, <2>9, <3>1, <3>2 DEF Votes, Typed, Stats
  <2>10. ASSUME NEW t \in Sessions, session'[t].pc = "count"
         PROVE  Bound(t)'
    <3>1. t # s /\ session'[t] = session[t] /\ session[t] \in SessionState
      BY <2>1, <2>10 DEF Typed
    <3> QED
      BY <2>7, <2>10, <3>1 DEF Votes, Bound, SessionState
  <2> QED
    BY <2>3, <2>8, <2>9, <2>10 DEF Votes
<1>3. ASSUME NEW s \in Sessions, Record(s)
      PROVE  Votes'
  <2> DEFINE p == session[s].at
  <2>1. /\ Alone(s) /\ UNCHANGED <<committed, stats, owner>> /\ p \in Plans /\ owner[p] = s
        /\ \A q \in Plans \ {p} : row'[q] = row[q]
        /\ IF row[p].outcome = None
           THEN /\ row'[p].outcome # None
                /\ session'[s].pc = "count" /\ session'[s].count = VisibleCount(s)
           ELSE row'[p] = row[p] /\ session'[s].pc = Onward(s)
    BY <1>3, RecordFacts
  <2>2. session'[s].pc = "count" => Bound(s)'
    <3>1. SUFFICES ASSUME row[p].outcome = None PROVE Bound(s)'
      BY <2>1 DEF Onward
    <3>2. /\ p \notin SeenBy(s) /\ SeenBy(s) \subseteq Plans /\ Noted \subseteq SeenBy(s)
          /\ SeenBy(s)' = SeenBy(s) \cup {p}
      BY <2>1, <3>1 DEF SeenBy, Noted, Votes
    <3>3. IsFiniteSet(SeenBy(s)) /\ Cardinality(SeenBy(s)) \in Nat
      BY <3>2, PlansAssumption, FS_Subset, FS_CardinalityType
    <3>4. /\ IsFiniteSet(SeenBy(s) \cup {p})
          /\ Cardinality(SeenBy(s) \cup {p}) =
               IF p \in SeenBy(s) THEN Cardinality(SeenBy(s)) ELSE Cardinality(SeenBy(s)) + 1
      BY <3>3, FS_AddElement
    <3>5. Cardinality(SeenBy(s)') = Cardinality(SeenBy(s)) + 1
      BY <3>2, <3>4
    <3>6. Cardinality(Noted) \in Nat /\ Cardinality(Noted) <= Cardinality(SeenBy(s))
      BY <3>2, Larger
    <3>7. VisibleCount(s) # None =>
             VisibleCount(s) \in Nat /\ VisibleCount(s) <= Cardinality(SeenBy(s))
      BY <3>3, <3>6 DEF VisibleCount, Votes, Typed, Stats
    <3>8. session'[s].count = VisibleCount(s)
      BY <2>1, <3>1
    <3> QED
      BY <3>3, <3>5, <3>7, <3>8 DEF Bound
  <2> QED
    BY <2>1, <2>2, Quiet
<1>4. ASSUME NEW s \in Sessions, Count(s), ~Rollback(s)
      PROVE  Votes'
  <2>1. /\ Alone(s) /\ UNCHANGED <<committed, row>>
        /\ session[s].pc = "count" /\ session'[s].pc = Onward(s)
        /\ stats'.committed = stats.committed
        /\ stats'.latest = (IF session[s].count = None THEN 0 ELSE session[s].count) + 1
        /\ owner' = [owner EXCEPT ![Bucket] = s]
    BY <1>4, CountFacts
  <2>2. owner'[Bucket] = s /\ \A p \in Plans : owner'[p] = owner[p]
    BY <2>1, BucketIsNoPlan DEF Typed
  <2>3. Noted' = Noted /\ \A t \in Sessions : SeenBy(t)' = SeenBy(t)
    BY <2>1, <2>2 DEF Noted, SeenBy
  <2>4. stats'.latest <= Cardinality(SeenBy(s)')
    BY <2>1, <2>3 DEF Votes, Bound
  <2>5. ASSUME NEW t \in Sessions, session'[t].pc = "count"
        PROVE  Bound(t)'
    <3>1. t # s
      BY <2>1, <2>5 DEF Onward
    <3>2. session'[t] = session[t]
      BY <2>1, <3>1 DEF Alone
    <3> QED
      BY <2>3, <2>5, <3>2 DEF Votes, Bound
  <2> QED
    BY <2>1, <2>2, <2>3, <2>4, <2>5 DEF Votes
<1>5. ASSUME NEW s \in Jobs, LockNext(s)
      PROVE  Votes'
  <2> DEFINE p == session'[s].at
  <2>1. /\ s \in Sessions /\ Alone(s) /\ UNCHANGED <<committed, row, stats>>
        /\ session'[s].pc = "decide"
        /\ p \in Plans /\ owner[p] \in {None, s} /\ owner' = [owner EXCEPT ![p] = s]
    BY <1>5, LockFacts DEF Sessions
  <2>2. /\ owner'[Bucket] = owner[Bucket]
        /\ \A q \in Plans : owner[q] \in Sessions => owner'[q] = owner[q]
    BY <2>1, BucketIsNoPlan, NoneFacts DEF Typed
  <2> QED
    BY <2>1, <2>2, Quiet
<1>6. ASSUME NEW s \in Jobs, StartJob(s)
      PROVE  Votes'
  <2>1. /\ s \in Sessions /\ Alone(s) /\ UNCHANGED <<committed, row, stats, owner>>
        /\ session'[s].pc = "next"
    BY <1>6, StartFacts DEF Sessions
  <2> QED
    BY <2>1, Quiet
<1>7. ASSUME NEW new \in Terminal \cup {"READY", None}, TrackerDecides(new)
      PROVE  Votes'
  <2> DEFINE s == "tracker"
  <2>1. /\ s \in Sessions /\ Alone(s) /\ UNCHANGED <<committed, stats, owner>>
        /\ session'[s].pc # "count"
        /\ \A q \in Plans : row[q].outcome # None => row'[q].outcome # None
    BY <1>7, TrackerFacts
  <2> QED
    BY <2>1, Quiet
<1>8. CASE SweepSkips
  <2>1. "sweep" \in Sessions /\ session'["sweep"].pc = "next" /\ Alone("sweep")
        /\ UNCHANGED <<committed, row, stats, owner>>
    BY <1>8, SkipFacts DEF Sessions, Jobs
  <2> QED
    BY <2>1, Quiet
<1>9. ASSUME NEW v \in {"skipped", "confirmed", "revised"}, SweepDecides(v)
      PROVE  Votes'
  <2> DEFINE s == "sweep"
  <2>1. /\ s \in Sessions /\ Alone(s) /\ UNCHANGED <<committed, stats, owner>>
        /\ session'[s].pc # "count"
        /\ \A q \in Plans : row[q].outcome # None => row'[q].outcome # None
    BY <1>9, SweepFacts
  <2> QED
    BY <2>1, Quiet
<1>10. ASSUME NEW u \in Users, UserDecides(u)
       PROVE  Votes'
  <2> DEFINE p == session[u].at
             new == session[u].new
  <2>1. /\ u \in Sessions /\ Alone(u) /\ UNCHANGED <<committed, stats>> /\ session'[u].pc # "count"
        /\ \A q \in Plans : row[q].outcome # None => row'[q].outcome # None
        /\ p \in Plans
        /\ owner' = owner \/ (owner[p] = None /\ owner' = [owner EXCEPT ![p] = u])
    BY <1>10, UserFacts DEF Sessions
  <2>2. /\ owner'[Bucket] = owner[Bucket]
        /\ \A q \in Plans : owner[q] \in Sessions => owner'[q] = owner[q]
    BY <2>1, BucketIsNoPlan, NoneFacts DEF Typed
  <2> QED
    BY <2>1, <2>2, Quiet
<1>11. ASSUME NEW u \in Users, NEW p \in Plans, NEW new \in Asked, Request(u, p, new)
       PROVE  Votes'
  <2>1. /\ u \in Sessions /\ Alone(u) /\ UNCHANGED <<committed, row, stats, owner>>
        /\ session'[u].pc = "lock"
    BY <1>11, RequestFacts DEF Sessions
  <2> QED
    BY <2>1, Quiet
<1> QED
  BY <1>1, <1>2, <1>3, <1>4, <1>5, <1>6, <1>7, <1>8, <1>9, <1>10, <1>11, Kinds

(* It gives the bound the runs check. *)
LEMMA VotesAreBounded ==
  ASSUME Typed, Locking, Votes
  PROVE  NoSecondVote
<1> DEFINE R == {p \in Plans : row[p].outcome # None}
<1>1. Noted \subseteq R /\ R \subseteq Plans /\ \A s \in Sessions : SeenBy(s) \subseteq R
  BY DEF Noted, SeenBy, Votes
<1>2. /\ Cardinality(R) \in Nat /\ Cardinality(Noted) \in Nat
      /\ Cardinality(Noted) <= Cardinality(R)
      /\ \A s \in Sessions : Cardinality(SeenBy(s)) \in Nat
             /\ Cardinality(SeenBy(s)) <= Cardinality(R)
  BY <1>1, Larger
<1>3. owner[Bucket] = None \/ owner[Bucket] \in Sessions
  BY BucketIsNoPlan DEF Typed
<1>4. stats.latest # None => stats.latest <= Cardinality(R)
  <2>1. CASE owner[Bucket] = None
    BY <1>2, <2>1 DEF Locking, Votes, Typed, Stats
  <2>2. CASE owner[Bucket] \in Sessions
    BY <1>2, <2>2 DEF Votes, Typed, Stats
  <2> QED
    BY <1>3, <2>1, <2>2
<1> QED
  BY <1>4 DEF NoSecondVote, Votes, Noted

(* The statistics never count more endings than there are outcome records (NoSecondVote): *)
(* OutcomeRecorder.record writes once and update_strategy_stats runs only for the writer, *)
(* in the same transaction.                                                               *)
THEOREM VotesAreOnce == Spec => []NoSecondVote
<1>1. Init => Votes
  <2> SUFFICES ASSUME Init PROVE Votes
    OBVIOUS
  <2>1. /\ Noted = {} /\ \A p \in Plans : row[p] = committed[p]
        /\ \A p \in Plans : committed[p].outcome = None
    BY DEF Init, Noted
  <2>2. \A s \in Sessions : session[s].pc = "idle" /\ owner[Bucket] = None
    BY BucketIsNoPlan DEF Init, Idle
  <2>3. stats.committed # None => stats.committed <= Cardinality(Noted)
    BY <2>1, FS_EmptySet DEF Init
  <2> QED
    BY <2>1, <2>2, <2>3, NoneFacts DEF Votes
<1>2. Typed /\ Locking /\ Votes => NoSecondVote
  BY VotesAreBounded
<1>3. Typed /\ Locking /\ (Typed /\ Locking)' /\ Votes /\ [Next]_vars => Votes'
  BY VotesStep
<1> QED
  BY <1>1, <1>2, <1>3, InitLocking, LockingStep, PTL DEF Spec
=============================================================================
