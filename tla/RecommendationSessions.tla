----------------------- MODULE RecommendationSessions -----------------------
(***************************************************************************)
(* The database sessions that move recommendations, interleaved statement  *)
(* by statement: the tracker job, the re-evaluation sweep and the requests *)
(* of users.  PostgreSQL runs them READ COMMITTED: a statement sees what is*)
(* committed, a row that is locked or written stays locked to its session  *)
(* until the end of the transaction, and a session that closes a cycle of  *)
(* waits is aborted.                                                       *)
(***************************************************************************)
EXTENDS Lifecycle, Integers

CONSTANTS
  Plans,      \* recommendations of one workspace and one statistics bucket; newest = largest
  Users,      \* requests PATCH /recommendations/{id}/status
  Starts,     \* bound: the open statuses plans are in at the beginning
  Asked,      \* bound: the statuses a request may ask for
  MaxRuns,    \* bound: runs of each job
  MaxLevels,  \* bound: level rewrites of one plan
  Bucket,     \* the strategy_stats row those plans share
  None        \* no value, no owner

ASSUME PlansAssumption == Plans \subseteq Nat /\ IsFiniteSet(Plans)
ASSUME StatusAssumption == Starts \subseteq Open /\ Asked \subseteq Status
ASSUME BoundsAssumption == MaxRuns \in Nat /\ MaxLevels \in Nat
ASSUME UsersAssumption == {"tracker", "sweep", None} \cap Users = {}
ASSUME NoneAssumption == None \notin Status \cup Int \cup {"tracker", "sweep"}
ASSUME BucketAssumption == Bucket \notin Plans

VARIABLES
  committed,  \* per plan, the committed row with its outcome record
  row,        \* per plan, the latest version: uncommitted while its owner's transaction is open
  stats,      \* strategy_stats.occurrences of the bucket: [committed, latest], None before the row exists
  owner,      \* who holds the lock of each plan row and of the statistics row
  session     \* per session: where it is, what it has loaded, what remains

vars == <<committed, row, stats, owner, session>>

Jobs == {"tracker", "sweep"}
Sessions == Jobs \cup Users
Resources == Plans \cup {Bucket}

PlanRow == [status : Status, levels : Nat, revisions : Nat, outcome : Terminal \cup {None}]

\* A transaction that has not begun: nothing loaded, nothing to do.
Idle(runs) ==
  [pc |-> "idle", todo |-> {}, at |-> None, new |-> None, copy |-> [p \in Plans |-> None],
   count |-> None, runs |-> runs]

Init ==
  /\ committed \in [Plans -> {[status |-> s, levels |-> 0, revisions |-> 0, outcome |-> None] :
                                s \in Starts}]
  /\ row = committed
  /\ \E n \in {None, 0} : stats = [committed |-> n, latest |-> n]
  /\ owner = [r \in Resources |-> None]
  /\ session = [s \in Sessions |-> Idle(0)]
-----------------------------------------------------------------------------
Free(r, s) == owner[r] \in {None, s}
Held(s) == {r \in Resources : owner[r] = s}

\* What a plain SELECT of s sees.
Visible(s, p) == IF owner[p] = s THEN row[p] ELSE committed[p]
VisibleCount(s) == IF owner[Bucket] = s THEN stats.latest ELSE stats.committed

Newest(S) == CHOOSE p \in S : \A q \in S : q <= p

At(s, pc) == session[s].pc = pc
\* Where a session goes when it is done with the plan it was working on.
Onward(s) == IF s \in Jobs THEN "next" ELSE "commit"

\* Slips for the mutant runs, here and below: a transaction that leaves the statistics
\* row locked; a job that sets an ending without the learning hook; an outcome taken from
\* the row as loaded; aggregates moved by a repeat; a request that trusts its first read.
EndedLeavingBucket(s) ==
  /\ owner' = [r \in Resources |-> IF owner[r] = s /\ r # Bucket THEN None ELSE owner[r]]
  /\ session' = [session EXCEPT ![s] = Idle(session[s].runs)]

\* The end of a transaction: s gives up its locks, whether or not it published.
Ended(s) ==
  /\ owner' = [r \in Resources |-> IF owner[r] = s THEN None ELSE owner[r]]
  /\ session' = [session EXCEPT ![s] = Idle(session[s].runs)]

Commit(s) ==
  /\ \/ s \in Jobs /\ At(s, "next") /\ session[s].todo = {}
     \/ At(s, "commit")
  /\ committed' = [p \in Plans |-> IF owner[p] = s THEN row[p] ELSE committed[p]]
  /\ stats' = [stats EXCEPT !.committed = IF owner[Bucket] = s THEN stats.latest ELSE @]
  /\ Ended(s)
  /\ UNCHANGED row

Rollback(s) ==
  /\ row' = [p \in Plans |-> IF owner[p] = s THEN committed[p] ELSE row[p]]
  /\ stats' = [stats EXCEPT !.latest = IF owner[Bucket] = s THEN stats.committed ELSE @]
  /\ Ended(s)
  /\ UNCHANGED committed
-----------------------------------------------------------------------------
\* A job opens its session and list_open loads every open plan at once.
StartJob(s) ==
  /\ At(s, "idle") /\ session[s].runs < MaxRuns
  /\ session' = [session EXCEPT
       ![s] = [@ EXCEPT !.pc = "next", !.runs = session[s].runs + 1,
                        !.todo = {p \in Plans : committed[p].status \in Open},
                        !.copy = [p \in Plans |-> committed[p].status]]]
  /\ UNCHANGED <<committed, row, stats, owner>>

\* lock_recommendation on the next plan: SELECT id ... FOR UPDATE.  It waits for the
\* lock; the attributes loaded by list_open stay as they were.
LockNext(s) ==
  /\ At(s, "next") /\ session[s].todo # {}
  /\ LET p == Newest(session[s].todo)
     IN  /\ Free(p, s)
         /\ owner' = [owner EXCEPT ![p] = s]
         /\ session' = [session EXCEPT
              ![s] = [@ EXCEPT !.pc = "decide", !.at = p,
                               !.todo = session[s].todo \ {p}]]
  /\ UNCHANGED <<committed, row, stats>>

\* No trigger was raised, or none admitted: the sweep passes over the plan.
SweepSkips ==
  /\ At("sweep", "next") /\ session["sweep"].todo # {}
  /\ session' = [session EXCEPT !["sweep"].todo = @ \ {Newest(@)}]
  /\ UNCHANGED <<committed, row, stats, owner>>

TrackerSkipsHook(new) ==
  /\ At("tracker", "decide")
  /\ LET p == session["tracker"].at
         cur == session["tracker"].copy[p]
     IN  /\ new = "READY" => cur = "WAITING_CONFIRMATION"
         /\ IF new # None /\ Legal(cur, new)
              THEN /\ row' = [row EXCEPT ![p].status = new, ![p].revisions = @ + 1]
                   /\ session' = [session EXCEPT !["tracker"].pc = "next"]
              ELSE /\ session' = [session EXCEPT !["tracker"].pc = "next"]
                   /\ UNCHANGED row
  /\ UNCHANGED <<committed, stats, owner>>

\* evaluate_recommendation: the bars give a verdict, judged against the loaded status.
\* A legal move writes the row and a revision; an illegal one is logged.
TrackerDecides(new) ==
  /\ At("tracker", "decide")
  /\ LET p == session["tracker"].at
         cur == session["tracker"].copy[p]
     IN  /\ new = "READY" => cur = "WAITING_CONFIRMATION"
         /\ IF new # None /\ Legal(cur, new)
              THEN /\ row' = [row EXCEPT ![p].status = new, ![p].revisions = @ + 1]
                   /\ session' = [session EXCEPT
                        !["tracker"] = [@ EXCEPT !.new = new, !.copy[p] = new,
                           !.pc = IF new \in Terminal THEN "record" ELSE "next"]]
              ELSE /\ session' = [session EXCEPT !["tracker"].pc = "next"]
                   /\ UNCHANGED row
  /\ UNCHANGED <<committed, stats, owner>>

\* run_reevaluation_cycle after the lock: a plan loaded as finished is skipped; the brain
\* may degrade (nothing), confirm (a revision) or decide anew (_apply and a revision).
SweepDecides(verdict) ==
  /\ At("sweep", "decide")
  /\ LET p == session["sweep"].at
     IN  /\ verdict # "skipped" => session["sweep"].copy[p] \in Open
         /\ verdict = "revised" => row[p].levels < MaxLevels
         /\ row' = [row EXCEPT
              ![p].revisions = IF verdict = "skipped" THEN @ ELSE @ + 1,
              ![p].levels = IF verdict = "revised" THEN @ + 1 ELSE @]
  /\ session' = [session EXCEPT !["sweep"].pc = "next"]
  /\ UNCHANGED <<committed, stats, owner>>

\* A request loads the plan (get_recommendation).  One request per user.
Request(u, p, new) ==
  /\ At(u, "idle") /\ session[u].runs = 0
  /\ session' = [session EXCEPT
       ![u] = [@ EXCEPT !.pc = "lock", !.runs = 1, !.at = p, !.new = new,
                        !.copy[p] = committed[p].status]]
  /\ UNCHANGED <<committed, row, stats, owner>>

JudgedWithoutRefresh(u, p) == session[u].copy[p]

\* The status a request judges: session.refresh reads the row again under the lock.
Judged(u, p) == row[p].status

\* lock_recommendation, session.refresh and the guards of transition_recommendation_status.
\* A finished plan is returned untouched; an illegal move raises and rolls back.
UserDecides(u) ==
  /\ At(u, "lock")
  /\ LET p == session[u].at
         new == session[u].new
     IN  /\ Free(p, u)
         /\ \/ /\ Judged(u, p) \in Terminal \/ ~Legal(Judged(u, p), new)
               /\ session' = [session EXCEPT ![u] = Idle(1)]
               /\ UNCHANGED <<row, owner>>
            \/ /\ Judged(u, p) \notin Terminal /\ Legal(Judged(u, p), new)
               /\ owner' = [owner EXCEPT ![p] = u]
               /\ row' = [row EXCEPT ![p].status = new]
               /\ session' = [session EXCEPT
                    ![u].pc = IF new \in Terminal THEN "record" ELSE "commit"]
  /\ UNCHANGED <<committed, stats>>

RecordsLoadedStatus(s) ==
  /\ At(s, "record")
  /\ LET p == session[s].at
     IN  /\ row' = [row EXCEPT ![p].outcome = committed[p].status]
         /\ session' = [session EXCEPT ![s].pc = "count", ![s].count = VisibleCount(s)]
  /\ UNCHANGED <<committed, stats, owner>>

RecordsRepeat(s) ==
  /\ At(s, "record")
  /\ LET p == session[s].at
     IN  /\ row' = [row EXCEPT ![p].outcome = IF @ = None THEN session[s].new ELSE @]
         /\ session' = [session EXCEPT ![s].pc = "count", ![s].count = VisibleCount(s)]
  /\ UNCHANGED <<committed, stats, owner>>

\* OutcomeRecorder.record: INSERT ... ON CONFLICT DO NOTHING on rec:<id>.  Only the
\* writer goes on to the aggregates, and reads them (update_strategy_stats).
Record(s) ==
  /\ At(s, "record")
  /\ LET p == session[s].at
     IN  IF row[p].outcome = None
           THEN /\ row' = [row EXCEPT ![p].outcome = session[s].new]
                /\ session' = [session EXCEPT ![s].pc = "count", ![s].count = VisibleCount(s)]
           ELSE /\ session' = [session EXCEPT ![s].pc = Onward(s)]
                /\ UNCHANGED row
  /\ UNCHANGED <<committed, stats, owner>>

\* The flush of stat.occurrences += 1, or of a new StrategyStat when none was seen.  It
\* waits for the row; it writes the number computed from what was read.  When another
\* session has created the bucket meanwhile, uq_strategy_stat_bucket rejects the insert.
Count(s) ==
  /\ At(s, "count") /\ Free(Bucket, s)
  /\ IF session[s].count = None /\ stats.latest # None
       THEN Rollback(s)
       ELSE /\ stats' = [stats EXCEPT !.latest =
                           (IF session[s].count = None THEN 0 ELSE session[s].count) + 1]
            /\ owner' = [owner EXCEPT ![Bucket] = s]
            /\ session' = [session EXCEPT ![s].pc = Onward(s)]
            /\ UNCHANGED <<committed, row>>
-----------------------------------------------------------------------------
\* The row a session needs for its next statement, and who keeps it waiting.
Wanted(s) ==
  CASE At(s, "next") /\ session[s].todo # {} -> Newest(session[s].todo)
    [] At(s, "lock")                         -> session[s].at
    [] At(s, "count")                        -> Bucket
    [] OTHER                                 -> None
Blocker(s) ==
  IF Wanted(s) = None \/ Free(Wanted(s), s) THEN None ELSE owner[Wanted(s)]

\* s closes a cycle of waits.
Deadlocked(s) ==
  \E S \in SUBSET Sessions : s \in S /\ {Blocker(t) : t \in S} = S

\* The database aborts one session of a cycle.  A request fails; a job's worker catches
\* the error, rolls its whole session back and has no workspace left.
DeadlockVictim(s) == Deadlocked(s) /\ Rollback(s)

\* A connection is lost, a worker restarts or a job outlives its timeout.
Fail(s) == ~At(s, "idle") /\ Rollback(s)

Work(s) ==
  \/ Commit(s) \/ Record(s) \/ Count(s) \/ DeadlockVictim(s)
  \/ s \in Jobs /\ LockNext(s)
  \/ s = "tracker" /\ \E new \in Terminal \cup {"READY", None} : TrackerDecides(new)
  \/ s = "sweep" /\ (SweepSkips \/ \E v \in {"skipped", "confirmed", "revised"} : SweepDecides(v))
  \/ s \in Users /\ UserDecides(s)

Next ==
  \/ \E s \in Sessions : Work(s) \/ Fail(s)
  \/ \E s \in Jobs : StartJob(s)
  \/ \E u \in Users, p \in Plans, new \in Asked : Request(u, p, new)

Spec == Init /\ [][Next]_vars

\* A session that has begun runs on; nothing forces a job or a request to begin.
FairSpec == Spec /\ \A s \in Sessions : WF_vars(Work(s))
-----------------------------------------------------------------------------
TypeOK ==
  /\ committed \in [Plans -> PlanRow] /\ row \in [Plans -> PlanRow]
  /\ stats \in [committed : Nat \cup {None}, latest : Nat \cup {None}]
  /\ owner \in [Resources -> Sessions \cup {None}]
  /\ session \in [Sessions ->
       [pc : {"idle", "next", "lock", "decide", "record", "count", "commit"},
        todo : SUBSET Plans, at : Plans \cup {None}, new : Status \cup {None},
        copy : [Plans -> Status \cup {None}], count : Nat \cup {None}, runs : Nat]]

(* outcome_recorder.py: a duplicate "is a second vote from one event".  The statistics *)
(* never count more endings than there are outcome records, whoever noticed them, in   *)
(* whatever order, and whatever was rolled back in between.                             *)
NoSecondVote ==
  /\ stats.committed # None =>
       stats.committed <= Cardinality({p \in Plans : committed[p].outcome # None})
  /\ stats.latest # None =>
       stats.latest <= Cardinality({p \in Plans : row[p].outcome # None})

(* A plan that reads as finished has its outcome recorded: the status and the record   *)
(* are committed together or not at all.                                                *)
FinishedPlanIsRecorded ==
  \A p \in Plans : committed[p].status \in Terminal => committed[p].outcome # None

(* transition_recommendation_status locks and reads again, so what a request commits is *)
(* a move the table allows from the status committed just before, whatever the jobs did *)
(* while it waited, and never out of a finished plan.                                   *)
RequestsMoveLegally ==
  [][\A u \in Users, p \in Plans :
       At(u, "commit") /\ session'[u].pc = "idle" /\ committed'[p] # committed[p]
         => /\ committed[p].status \in Open
            /\ Legal(committed[p].status, committed'[p].status)]_vars

(* No wait is for ever: a session that has begun comes to its end, whoever holds the    *)
(* rows it needs.                                                                        *)
SessionsEnd == \A s \in Sessions : ~At(s, "idle") ~> At(s, "idle")
-----------------------------------------------------------------------------
(* Not kept by the code (README, section 6).  revisions.py on the row lock: "without    *)
(* this two of them read the same status, both decide a transition is legal from it,    *)
(* and the second silently overwrites the first".  With it, a committed ending is never *)
(* overwritten.                                                                          *)
EndingIsFinal ==
  [][\A p \in Plans : committed[p].status \in Terminal =>
       committed'[p].status = committed[p].status]_vars
==============================================================================
