-------------------------- MODULE ReevaluationLedger --------------------------
(***************************************************************************)
(* The re-evaluation of one open plan: sweeps notice conditions, claim them*)
(* in the ledger of decision cycles, ask the brain under the plan's lock   *)
(* and write what it concluded.  A sweep is one transaction: it publishes  *)
(* everything at its commit or, when anything fails, nothing.              *)
(***************************************************************************)
EXTENDS Integers, FiniteSets, FiniteSetsExt, SequencesExt

CONSTANTS
  Workers,       \* worker processes that may run a sweep
  Detectable,    \* the reasons a sweep can notice, in the order the detector raises them
  Timed,         \* reasons whose idempotency key holds the cooldown window
  Exempt,        \* reasons the limits do not bind: what the user asked for
  Levels,        \* level sets a decision may carry
  Lifetimes,     \* validity_candles a decision may state, besides none
  Cooldown,      \* COOLDOWN, in ticks of the clock
  MaxAutomatic,  \* MAX_AUTOMATIC_CYCLES
  MaxSweeps,     \* bound: sweeps of one worker
  MaxTime,       \* bound: the clock
  None           \* no value, no owner

Reasons == ToSet(Detectable)

ASSUME ReasonsAssumption ==
  Detectable \in Seq(Reasons) /\ Timed \subseteq Reasons /\ Exempt \subseteq Reasons
ASSUME LimitsAssumption ==
  /\ Lifetimes \subseteq Nat /\ Cooldown \in Nat \ {0}
  /\ MaxAutomatic \in Nat /\ MaxSweeps \in Nat /\ MaxTime \in Nat
ASSUME WorkersAssumption == IsFiniteSet(Workers) /\ Workers # {}
ASSUME NoneAssumption ==
  None \notin Workers /\ None \notin Levels /\ None \notin Reasons /\ None \notin Nat

VARIABLES
  plan,       \* the committed plan
  revisions,  \* committed rows of recommendation_revisions
  ledger,     \* committed rows of recommendation_reevaluations
  lock,       \* the worker whose transaction holds the plan row, or None
  work,       \* per worker, its sweep: what it loaded, decided and wrote so far
  now

vars == <<plan, revisions, ledger, lock, work, now>>

Directions == {"BUY", "SELL"}
Plan == [direction : Directions, levels : Levels, validity : Lifetimes \cup {None}]

\* A ledger row.  dedupe_key is the claim and, for anything but a claim, the outcome; rev
\* is the number of revisions the plan had when the row was written.
Claim == [reason : Reasons, side : Directions \cup {"any"}, window : Nat]
Outcomes == {"requested", "suppressed", "confirmed", "revised"}
Row == [claim : Claim, outcome : Outcomes, raised : Nat, done : BOOLEAN, rev : Nat]
DedupeKey(row) == <<row.claim, row.outcome>>

Asleep(runs) ==
  [pc |-> "idle", todo |-> {}, admitted |-> {}, at |-> None, raised |-> 0, side |-> "any", loaded |-> None,
   used |-> 0, last |-> None, rows |-> {}, draft |-> None, written |-> 0,
   paid |-> {}, runs |-> runs]

Init ==
  /\ plan \in Plan
  /\ revisions = 0 /\ ledger = {} /\ lock = None /\ now = 0
  /\ work = [w \in Workers |-> Asleep(0)]
-----------------------------------------------------------------------------
At(w, pc) == work[w].pc = pc
First(S) == Detectable[Min({i \in DOMAIN Detectable : Detectable[i] \in S})]

\* Slips for the mutant runs: a window start in place of the distance to the last cycle;
\* a claim that does not wait for a writer of the same one; an outage that closes its
\* claim; levels blanked when the decision repeats them.
WithinSameWindow(w) ==
  work[w].last # None /\ work[w].raised \div Cooldown = work[w].last \div Cooldown

WithinCooldown(w) == work[w].last # None /\ work[w].raised - work[w].last < Cooldown

\* claim_key.  revision_seq is never set by the detector, so its base is always 0:
\* the claim of an untimed reason holds the shape it broke to, one per direction.
ClaimOf(w, r) ==
  [reason |-> r,
   side   |-> IF r \in Timed \cup Exempt THEN "any" ELSE work[w].side,
   window |-> CASE r \in Exempt -> work[w].raised
                [] r \in Timed \ Exempt -> work[w].raised \div Cooldown
                [] OTHER -> 0]
SuppressedOf(w, r) == [reason |-> r, side |-> "any", window |-> work[w].raised]

NewRow(w, claim, outcome) ==
  [claim |-> claim, outcome |-> outcome, raised |-> work[w].raised, done |-> outcome # "requested",
   rev |-> revisions]

\* What a SELECT of w sees, and the keys it may not insert before their writer ends.
Visible(w) == ledger \cup work[w].rows
PendingElsewhereSeesNothing(w) == {}
PendingElsewhere(w) ==
  {DedupeKey(row) : row \in UNION {work[v].rows : v \in Workers \ {w}}}

Automatic(rows) == {row \in rows : row.outcome = "requested" /\ row.claim.reason \notin Exempt}
-----------------------------------------------------------------------------
\* run_reevaluation_sweep loads the plan and detects what changed since it was written.
Sweep(w, noticed) ==
  /\ At(w, "idle") /\ work[w].runs < MaxSweeps
  /\ work' = [work EXCEPT ![w] = [Asleep(@.runs + 1) EXCEPT
       !.pc = "history", !.todo = noticed, !.raised = now, !.side = plan.direction, !.loaded = plan]]
  /\ UNCHANGED <<plan, revisions, ledger, lock, now>>

\* _automatic_history: how many automatic cycles were requested, and when the last was.
ReadHistory(w) ==
  /\ At(w, "history")
  /\ LET asked == Automatic(Visible(w))
     IN  work' = [work EXCEPT ![w] = [@ EXCEPT
           !.pc = "admit", !.used = Cardinality(asked),
           !.last = IF asked = {} THEN None ELSE Max({row.raised : row \in asked})]]
  /\ UNCHANGED <<plan, revisions, ledger, lock, now>>

\* The limits of admit_triggers that an exempt reason bypasses.
Limited(w, r) ==
  LET admittedNow == Cardinality(work[w].admitted \ Exempt)
  IN  /\ r \notin Exempt
      /\ work[w].used + admittedNow >= MaxAutomatic \/ WithinCooldown(w) \/ admittedNow >= 1

\* The next trigger is suppressed: INSERT ... ON CONFLICT DO NOTHING, keyed by the moment.
Suppress(w) ==
  /\ At(w, "admit") /\ work[w].todo # {}
  /\ LET r == First(work[w].todo)
         row == NewRow(w, SuppressedOf(w, r), "suppressed")
     IN  /\ Limited(w, r) /\ DedupeKey(row) \notin PendingElsewhere(w)
         /\ work' = [work EXCEPT
              ![w].todo = @ \ {r},
              ![w].rows = IF DedupeKey(row) \in {DedupeKey(x) : x \in Visible(w)}
                            THEN @ ELSE @ \cup {row}]
  /\ UNCHANGED <<plan, revisions, ledger, lock, now>>

\* The next trigger asks for a cycle.  The insert waits for a writer of the same claim;
\* whoever finds it taken reports a duplicate.
Request(w) ==
  /\ At(w, "admit") /\ work[w].todo # {}
  /\ LET r == First(work[w].todo)
         row == NewRow(w, ClaimOf(w, r), "requested")
         taken == DedupeKey(row) \in {DedupeKey(x) : x \in Visible(w)}
     IN  /\ ~Limited(w, r) /\ DedupeKey(row) \notin PendingElsewhere(w)
         /\ work' = [work EXCEPT
              ![w].todo = @ \ {r},
              ![w].rows = IF taken THEN @ ELSE @ \cup {row},
              ![w].admitted = IF taken THEN @ ELSE @ \cup {r}]
  /\ UNCHANGED <<plan, revisions, ledger, lock, now>>

\* run_reevaluation_cycle on an admitted trigger: lock_recommendation.  The plan stays as
\* list_open loaded it, open by its filter, so the test for a finished plan never holds.
LockPlan(w) ==
  /\ At(w, "admit") /\ work[w].todo = {} /\ work[w].admitted # {}
  /\ lock \in {None, w}
  /\ lock' = w
  /\ work' = [work EXCEPT
       ![w].pc = "brain", ![w].at = First(work[w].admitted),
       ![w].admitted = @ \ {First(@)},
       ![w].draft = IF lock = w THEN @ ELSE plan]
  /\ UNCHANGED <<plan, revisions, ledger, now>>

Paid(w) == work[w].paid \cup {ClaimOf(w, work[w].at)}

BrainDegradedCloses(w) ==
  /\ At(w, "brain")
  /\ work' = [work EXCEPT
       ![w].pc = "admit", ![w].paid = Paid(w),
       ![w].rows = {IF x.claim = ClaimOf(w, work[w].at) THEN [x EXCEPT !.done = TRUE] ELSE x :
                      x \in @}]
  /\ UNCHANGED <<plan, revisions, ledger, lock, now>>

\* The brain comes back without a plan: a retryable skip, which writes nothing at all.
BrainDegraded(w) ==
  /\ At(w, "brain")
  /\ work' = [work EXCEPT ![w].pc = "admit", ![w].paid = Paid(w)]
  /\ UNCHANGED <<plan, revisions, ledger, lock, now>>

\* decision_changed: the row keeps no validity, so any decision that states one differs.
Changed(before, after) ==
  \/ before.direction # after.direction \/ before.levels # after.levels
  \/ after.validity # None

AppliedBlank(row, loaded, after) ==
  [row EXCEPT !.levels = IF after.levels = loaded.levels THEN None ELSE after.levels]

\* _apply and the flush: only attributes that differ from what was loaded are written, and
\* the validity the plan was written with stays in its evidence.
Applied(row, loaded, after) ==
  [row EXCEPT !.direction = IF after.direction = loaded.direction THEN @ ELSE after.direction,
              !.levels = IF after.levels = loaded.levels THEN @ ELSE after.levels]

\* The brain decides; the plan is compared, rewritten when it changed, a revision is
\* written either way, and _record_cycle writes the verdict and closes the claim.
BrainDecides(w, after) ==
  /\ At(w, "brain")
  /\ LET claim   == ClaimOf(w, work[w].at)
         changed == Changed(work[w].loaded, after)
         verdict == NewRow(w, claim, IF changed THEN "revised" ELSE "confirmed")
         closed  == {IF x.claim = claim /\ x.outcome = "requested"
                       THEN [x EXCEPT !.done = TRUE] ELSE x : x \in work[w].rows}
     IN  work' = [work EXCEPT
           ![w].pc = "admit", ![w].paid = Paid(w), ![w].written = @ + 1,
           ![w].rows = closed \cup {verdict},
           ![w].draft = IF changed THEN Applied(@, work[w].loaded, after) ELSE @,
           ![w].loaded = IF changed THEN Applied(@, @, after) ELSE @]
  /\ UNCHANGED <<plan, revisions, ledger, lock, now>>
-----------------------------------------------------------------------------
Released(w) == lock' = IF lock = w THEN None ELSE lock

\* The job commits its session once, after the last plan.
Commit(w) ==
  /\ At(w, "admit") /\ work[w].todo = {} /\ work[w].admitted = {}
  /\ ledger' = ledger \cup work[w].rows
  /\ plan' = IF lock = w THEN work[w].draft ELSE plan
  /\ revisions' = revisions + work[w].written
  /\ Released(w)
  /\ work' = [work EXCEPT ![w] = Asleep(@.runs)]
  /\ UNCHANGED now

\* A later plan or workspace fails, the job outlives its timeout, the worker restarts.
Fail(w) ==
  /\ ~At(w, "idle")
  /\ Released(w)
  /\ work' = [work EXCEPT ![w] = Asleep(@.runs)]
  /\ UNCHANGED <<plan, revisions, ledger, now>>

Tick == now < MaxTime /\ now' = now + 1 /\ UNCHANGED <<plan, revisions, ledger, lock, work>>

Next ==
  \/ \E w \in Workers :
       \/ \E noticed \in SUBSET Reasons \ {{}} : Sweep(w, noticed)
       \/ ReadHistory(w) \/ Suppress(w) \/ Request(w) \/ LockPlan(w)
       \/ BrainDegraded(w) \/ \E after \in Plan : BrainDecides(w, after)
       \/ Commit(w) \/ Fail(w)
  \/ Tick

Spec == Init /\ [][Next]_vars
-----------------------------------------------------------------------------
Session ==
  [pc : {"idle", "history", "admit", "brain"}, todo : SUBSET Reasons, admitted : SUBSET Reasons,
   at : Reasons \cup {None}, raised : Nat, side : Directions \cup {"any"}, loaded : Plan \cup {None}, used : Nat,
   last : Nat \cup {None}, rows : SUBSET Row, draft : Plan \cup {None}, written : Nat,
   paid : SUBSET Claim, runs : Nat]

TypeOK ==
  /\ plan \in Plan /\ revisions \in Nat /\ ledger \subseteq Row
  /\ lock \in Workers \cup {None} /\ work \in [Workers -> Session]
  /\ now \in Nat

(* _write_trigger_row: "two overlapping sweeps race to the same key and exactly one of  *)
(* them gets True, so exactly one pays for the model call": no two sweeps under way have *)
(* paid for one claim, and none has paid for a claim another sweep already committed.    *)
ExactlyOnePays ==
  \A w \in Workers :
    /\ \A v \in Workers \ {w} : work[w].paid \cap work[v].paid = {}
    /\ \A row \in ledger : row.outcome = "requested" => row.claim \notin work[w].paid

(* admit_triggers reads committed rows and then decides.  Sweeps one at a time keep the  *)
(* lifetime cap and the cooldown exactly; overlapping ones exceed the cap by at most one  *)
(* cycle per further worker, and put at most one cycle per worker in a cooldown, whatever *)
(* was suppressed, refused or rolled back between them.                                   *)
AutomaticCyclesAreBounded ==
  LET asked == Automatic(ledger)
  IN  /\ Cardinality(asked) <= MaxAutomatic + Cardinality(Workers) - 1
      /\ \A a \in asked :
           Cardinality({b \in asked : b.raised \in a.raised..(a.raised + Cooldown - 1)})
             <= Cardinality(Workers)

(* _record_cycle: "Write what the cycle concluded, and close its claim": a claim is      *)
(* marked answered exactly when the ledger holds a verdict about it.                     *)
ClosedClaimsAreAnswered ==
  \A row \in ledger : row.outcome = "requested" =>
    (row.done <=> \E v \in ledger : v.claim = row.claim /\ v.outcome \in {"confirmed", "revised"})
===============================================================================
