---------------------- MODULE ReevaluationLedger_proofs ----------------------
(***************************************************************************)
(* Theorems about the ledger of decision cycles, for every set of workers, *)
(* every list of reasons and every limit: a claim belongs to one           *)
(* transaction or to the ledger, so one sweep pays for it, and it is       *)
(* marked answered exactly when there is a verdict about it; and the cycles*)
(* the ledger holds, with those the sweeps under way may still add, stay   *)
(* within the cap and the cooldown up to one per further sweep.            *)
(***************************************************************************)
EXTENDS ReevaluationLedger, FiniteSetTheorems, WellFoundedInduction, TLAPS

(* Numbers that are not none have a least one. *)
LEMMA SomeLeast ==
  ASSUME NEW S, S \subseteq Nat, S # {}
  PROVE  \E n \in S : \A m \in S : n <= m
<1>1. PICK n \in S : \A m \in S : ~(<<m, n>> \in OpToRel(<, Nat))
  BY WFMin, NatLessThanWellFounded
<1>2. \A m \in S : ~(m < n)
  BY <1>1 DEF OpToRel
<1> QED
  BY <1>2

(* The next reason of a sweep is one it has to look at. *)
LEMMA FirstIsMember ==
  ASSUME NEW S, S \subseteq Reasons, S # {}
  PROVE  First(S) \in S
<1> DEFINE places == {i \in DOMAIN Detectable : Detectable[i] \in S}
<1>1. DOMAIN Detectable \subseteq Nat
  BY ReasonsAssumption
<1>2. places # {} /\ places \subseteq Nat
  BY <1>1 DEF Reasons, ToSet
<1>3. \E i \in places : \A j \in places : i <= j
  BY <1>2, SomeLeast
<1>4. Min(places) \in places
  BY <1>3 DEF Min
<1> QED
  BY <1>4 DEF First

(* The last of some cycles is one of them, and none is later, when none lies after the clock. *)
LEMMA LatestIsMember ==
  ASSUME NEW S, S \subseteq Nat, S # {}, NEW bound \in Nat, \A x \in S : x <= bound
  PROVE  Max(S) \in S /\ \A x \in S : x <= Max(S)
<1> DEFINE above == {n \in Nat : \A x \in S : x <= n}
<1>1. above # {} /\ above \subseteq Nat
  OBVIOUS
<1>2. PICK n \in above : \A m \in above : n <= m
  BY <1>1, SomeLeast
<1>3. n \in S
  <2> SUFFICES ASSUME n \notin S PROVE FALSE
    OBVIOUS
  <2>1. \A x \in S : x \in Nat /\ x < n
    BY <1>2
  <2>2. n \in Nat /\ n # 0
    <3>1. PICK x \in S : TRUE
      OBVIOUS
    <3>2. n \in Nat
      BY <1>1
    <3> QED
      BY <2>1, <3>1, <3>2
  <2>3. n - 1 \in Nat /\ \A x \in S : x <= n - 1
    BY <2>1, <2>2
  <2>4. n <= n - 1
    BY <1>2, <2>3
  <2> QED
    BY <2>2, <2>4
<1> QED
  BY <1>2, <1>3 DEF Max

(* None is no worker, no number and no reason. *)
LEMMA NoneFacts == None \notin Workers /\ None \notin Nat /\ None \notin Reasons
BY NoneAssumption

(* The type invariant with what it rests on: finitely many rows, none raised after the *)
(* clock, and a sweep that asks the brain holds the plan, has loaded it and drafts it. *)
Sane ==
  /\ TypeOK /\ IsFiniteSet(ledger) /\ \A x \in ledger : x.raised <= now
  /\ \A w \in Workers :
       /\ IsFiniteSet(work[w].rows) /\ \A x \in work[w].rows : x.raised <= now
       /\ work[w].raised <= now
       /\ work[w].pc # "idle" => work[w].loaded \in Plan
       /\ lock = w => work[w].draft \in Plan /\ work[w].pc # "idle"
       /\ work[w].pc = "brain" => work[w].at \in Reasons /\ lock = w

(* claim_key gives a claim, whatever the reason. *)
LEMMA ClaimType ==
  ASSUME TypeOK, NEW w \in Workers, NEW r \in Reasons
  PROVE  ClaimOf(w, r) \in Claim /\ SuppressedOf(w, r) \in Claim
<1>1. work[w] \in Session
  BY DEF TypeOK
<1>2. work[w].raised \in Nat /\ work[w].side \in Directions \cup {"any"}
  BY <1>1 DEF Session
<1>3. work[w].raised \div Cooldown \in Nat
  BY <1>2, LimitsAssumption
<1> QED
  BY <1>2, <1>3 DEF ClaimOf, SuppressedOf, Claim

(* A new row has the fields it was made with, and is open only as a claim. *)
LEMMA RowType ==
  ASSUME TypeOK, NEW w \in Workers, NEW c \in Claim, NEW o \in Outcomes
  PROVE  /\ NewRow(w, c, o) \in Row
         /\ NewRow(w, c, o).claim = c /\ NewRow(w, c, o).outcome = o
         /\ NewRow(w, c, o).raised = work[w].raised
         /\ NewRow(w, c, o).done <=> o # "requested"
<1>1. work[w].raised \in Nat /\ revisions \in Nat
  BY DEF TypeOK, Session
<1> QED
  BY <1>1 DEF NewRow, Row

(* A sweep that is over has loaded, written and paid for nothing. *)
LEMMA AsleepType ==
  ASSUME NEW n \in Nat
  PROVE  /\ Asleep(n) \in Session /\ Asleep(n).pc = "idle" /\ Asleep(n).rows = {}
         /\ Asleep(n).paid = {} /\ Asleep(n).admitted = {} /\ Asleep(n).raised = 0
BY DEF Asleep, Session

(* Only this worker moves. *)
Alone(w) ==
  /\ work' \in [Workers -> Session]
  /\ \A v \in Workers \ {w} : work'[v] = work[v]

(* A sweep that starts has written nothing. *)
LEMMA SweepFacts ==
  ASSUME Sane, NEW w \in Workers, NEW noticed \in SUBSET Reasons, Sweep(w, noticed)
  PROVE  /\ Alone(w) /\ UNCHANGED <<plan, revisions, ledger, lock, now>>
         /\ work[w].pc = "idle" /\ work'[w].pc = "history" /\ work'[w].rows = {}
         /\ work'[w].paid = {} /\ work'[w].admitted = {}
         /\ work'[w].raised = now /\ work'[w].loaded = plan
<1> DEFINE next == [Asleep(work[w].runs + 1) EXCEPT
                      !.pc = "history", !.todo = noticed, !.raised = now,
                      !.side = plan.direction, !.loaded = plan]
<1>1. /\ work' = [work EXCEPT ![w] = next] /\ work[w].pc = "idle"
      /\ UNCHANGED <<plan, revisions, ledger, lock, now>>
  BY DEF Sweep, At
<1>2. /\ plan \in Plan /\ plan.direction \in Directions /\ now \in Nat
      /\ work \in [Workers -> Session] /\ work[w].runs + 1 \in Nat
  BY DEF Sane, TypeOK, Plan, Session
<1>3. /\ next \in Session /\ next.pc = "history" /\ next.rows = {} /\ next.paid = {}
      /\ next.admitted = {} /\ next.raised = now /\ next.loaded = plan
  BY <1>2 DEF Asleep, Session
<1> HIDE DEF next
<1> QED
  BY <1>1, <1>2, <1>3 DEF Alone

(* Reading the history leaves the rows of the sweep alone. *)
LEMMA HistoryFacts ==
  ASSUME Sane, NEW w \in Workers, ReadHistory(w)
  PROVE  /\ Alone(w) /\ UNCHANGED <<plan, revisions, ledger, lock, now>>
         /\ work[w].pc = "history" /\ work'[w].pc = "admit" /\ work'[w].rows = work[w].rows
         /\ work'[w].paid = work[w].paid /\ work'[w].admitted = work[w].admitted
         /\ work'[w].raised = work[w].raised /\ work'[w].side = work[w].side
         /\ work'[w].loaded = work[w].loaded /\ work'[w].draft = work[w].draft
         /\ work'[w].used = Cardinality(Automatic(Visible(w)))
         /\ work'[w].last = None => Automatic(Visible(w)) = {}
         /\ \A x \in Automatic(Visible(w)) : x.raised \in Nat /\ x.raised <= work'[w].last
<1> DEFINE asked == Automatic(Visible(w))
           used == Cardinality(asked)
           last == IF asked = {} THEN None ELSE Max({row.raised : row \in asked})
<1>1. work[w] \in Session /\ work[w].rows \subseteq Row /\ ledger \subseteq Row /\ now \in Nat
  BY DEF Sane, TypeOK, Session
<1>2. asked \subseteq Row /\ IsFiniteSet(asked) /\ \A x \in asked : x.raised \in 0..now
  <2>1. IsFiniteSet(Visible(w)) /\ Visible(w) \subseteq Row /\ \A x \in Visible(w) : x.raised <= now
    BY <1>1, FS_Union DEF Visible, Sane
  <2>2. asked \subseteq Visible(w)
    BY DEF Automatic
  <2>3. \A x \in Row : x.raised \in Nat
    BY DEF Row
  <2> HIDE DEF asked
  <2> QED
    BY <1>1, <2>1, <2>2, <2>3, FS_Subset
<1>3. used \in Nat
  BY <1>2, FS_CardinalityType
<1>4. /\ last \in Nat \cup {None} /\ (last = None => asked = {})
      /\ \A x \in asked : x.raised \in Nat /\ x.raised <= last
  <2>1. SUFFICES ASSUME asked # {}
                 PROVE  /\ Max({row.raised : row \in asked}) \in Nat
                        /\ \A x \in asked : /\ x.raised \in Nat
                                             /\ x.raised <= Max({row.raised : row \in asked})
    BY NoneFacts
  <2> DEFINE S == {row.raised : row \in asked}
  <2>2. S # {} /\ S \subseteq Nat /\ \A x \in S : x <= now
    BY <1>1, <1>2, <2>1
  <2> HIDE DEF S
  <2>3. Max(S) \in S /\ \A n \in S : n <= Max(S)
    BY <1>1, <2>2, LatestIsMember
  <2> QED
    BY <1>2, <2>2, <2>3 DEF S
<1>5. /\ work' = [work EXCEPT ![w] = [@ EXCEPT !.pc = "admit", !.used = used, !.last = last]]
      /\ UNCHANGED <<plan, revisions, ledger, lock, now>> /\ work[w].pc = "history"
  BY DEF ReadHistory, At
<1> HIDE DEF asked, used, last
<1>6. work'[w] = [work[w] EXCEPT !.pc = "admit", !.used = used, !.last = last]
      /\ \A v \in Workers \ {w} : work'[v] = work[v]
  BY <1>5 DEF Sane, TypeOK
<1>7. work'[w] \in Session
  <2>1. [work[w] EXCEPT !.pc = "admit", !.used = used, !.last = last] \in Session
    BY <1>1, <1>3, <1>4 DEF Session
  <2> QED
    BY <1>6, <2>1
<1>8. Alone(w)
  BY <1>5, <1>6, <1>7 DEF Alone, Sane, TypeOK
<1>9. /\ work'[w].pc = "admit" /\ work'[w].rows = work[w].rows
      /\ work'[w].admitted = work[w].admitted /\ work'[w].draft = work[w].draft
      /\ work'[w].paid = work[w].paid
      /\ work'[w].raised = work[w].raised /\ work'[w].side = work[w].side
      /\ work'[w].loaded = work[w].loaded /\ work'[w].used = used /\ work'[w].last = last
  BY <1>1, <1>6 DEF Session
<1> QED
  BY <1>4, <1>5, <1>8, <1>9 DEF asked, used

(* A suppressed trigger adds at most one row, which is no claim. *)
LEMMA SuppressFacts ==
  ASSUME Sane, NEW w \in Workers, Suppress(w)
  PROVE  /\ Alone(w) /\ UNCHANGED <<plan, revisions, ledger, lock, now>>
         /\ work[w].pc = "admit" /\ work'[w].pc = "admit"
         /\ \E x \in Row : /\ x.outcome = "suppressed" /\ x.raised = work[w].raised
                           /\ work'[w].rows = work[w].rows \/ work'[w].rows = work[w].rows \cup {x}
         /\ work'[w].paid = work[w].paid /\ work'[w].admitted = work[w].admitted
         /\ work'[w].raised = work[w].raised /\ work'[w].side = work[w].side
         /\ work'[w].loaded = work[w].loaded /\ work'[w].draft = work[w].draft
         /\ work'[w].used = work[w].used /\ work'[w].last = work[w].last
         /\ work'[w].todo \subseteq work[w].todo
<1> DEFINE r == First(work[w].todo)
           x == NewRow(w, SuppressedOf(w, r), "suppressed")
           todo == work[w].todo \ {r}
           rows == IF DedupeKey(x) \in {DedupeKey(y) : y \in Visible(w)}
                     THEN work[w].rows ELSE work[w].rows \cup {x}
<1>1. work[w] \in Session /\ work[w].rows \subseteq Row /\ work[w].todo \subseteq Reasons
  BY DEF Sane, TypeOK, Session
<1>2. r \in Reasons
  BY <1>1, FirstIsMember DEF Suppress
<1>3. x \in Row /\ x.outcome = "suppressed" /\ x.raised = work[w].raised
  BY <1>2, ClaimType, RowType DEF Sane, Outcomes
<1>4. /\ work' = [work EXCEPT ![w].todo = todo, ![w].rows = rows]
      /\ UNCHANGED <<plan, revisions, ledger, lock, now>> /\ work[w].pc = "admit"
  BY DEF Suppress, At
<1>5. /\ todo \subseteq Reasons /\ todo \subseteq work[w].todo /\ rows \subseteq Row
      /\ rows = work[w].rows \/ rows = work[w].rows \cup {x}
  BY <1>1, <1>3
<1> HIDE DEF r, x, todo, rows
<1>6. work'[w] = [work[w] EXCEPT !.todo = todo, !.rows = rows]
      /\ \A v \in Workers \ {w} : work'[v] = work[v]
  BY <1>4 DEF Sane, TypeOK
<1>7. work'[w] \in Session
  <2>1. /\ work[w] \in Session
        /\ todo \in SUBSET Reasons /\ rows \in SUBSET Row
    BY <1>1, <1>5
  <2>2. [work[w] EXCEPT !.todo = todo, !.rows = rows] \in Session
    BY <2>1 DEF Session
  <2> QED
    BY <1>6, <2>2
<1>8. Alone(w)
  BY <1>4, <1>6, <1>7 DEF Alone, Sane, TypeOK
<1>9. /\ work'[w].pc = work[w].pc /\ work'[w].rows = rows
      /\ work'[w].admitted = work[w].admitted /\ work'[w].draft = work[w].draft
      /\ work'[w].paid = work[w].paid
      /\ work'[w].raised = work[w].raised /\ work'[w].side = work[w].side
      /\ work'[w].loaded = work[w].loaded /\ work'[w].todo = todo
      /\ work'[w].used = work[w].used /\ work'[w].last = work[w].last
  BY <1>1, <1>6 DEF Session
<1> QED
  BY <1>3, <1>4, <1>5, <1>8, <1>9

(* An admitted trigger adds its claim, unless the claim is taken or being written. *)
LEMMA RequestFacts ==
  ASSUME Sane, NEW w \in Workers, Request(w)
  PROVE  /\ Alone(w) /\ UNCHANGED <<plan, revisions, ledger, lock, now>>
         /\ work[w].pc = "admit" /\ work'[w].pc = "admit"
         /\ \E x \in Row, r \in Reasons :
              /\ x.outcome = "requested" /\ ~x.done /\ x.raised = work[w].raised
              /\ x.claim = ClaimOf(w, r) /\ ~Limited(w, r)
              /\ \/ /\ work'[w].rows = work[w].rows /\ work'[w].admitted = work[w].admitted
                 \/ /\ work'[w].rows = work[w].rows \cup {x}
                    /\ work'[w].admitted = work[w].admitted \cup {r}
                    /\ DedupeKey(x) \notin PendingElsewhere(w)
                    /\ \A y \in Visible(w) : DedupeKey(y) # DedupeKey(x)
         /\ work'[w].paid = work[w].paid
         /\ work'[w].raised = work[w].raised /\ work'[w].side = work[w].side
         /\ work'[w].loaded = work[w].loaded /\ work'[w].draft = work[w].draft
         /\ work'[w].used = work[w].used /\ work'[w].last = work[w].last
         /\ work[w].todo # {} /\ work'[w].todo \subseteq work[w].todo
<1> DEFINE r == First(work[w].todo)
           x == NewRow(w, ClaimOf(w, r), "requested")
           taken == DedupeKey(x) \in {DedupeKey(y) : y \in Visible(w)}
           todo == work[w].todo \ {r}
           rows == IF taken THEN work[w].rows ELSE work[w].rows \cup {x}
           admitted == IF taken THEN work[w].admitted ELSE work[w].admitted \cup {r}
<1>1. /\ work[w] \in Session /\ work[w].rows \subseteq Row
      /\ work[w].todo \subseteq Reasons /\ work[w].admitted \subseteq Reasons
  BY DEF Sane, TypeOK, Session
<1>2. r \in Reasons
  BY <1>1, FirstIsMember DEF Request
<1>3. /\ x \in Row /\ x.outcome = "requested" /\ ~x.done /\ x.raised = work[w].raised
      /\ x.claim = ClaimOf(w, r)
  BY <1>2, ClaimType, RowType DEF Sane, Outcomes
<1>4. /\ work' = [work EXCEPT ![w].todo = todo, ![w].rows = rows, ![w].admitted = admitted]
      /\ UNCHANGED <<plan, revisions, ledger, lock, now>> /\ work[w].pc = "admit"
      /\ DedupeKey(x) \notin PendingElsewhere(w) /\ ~Limited(w, r) /\ work[w].todo # {}
  BY DEF Request, At
<1>5. /\ todo \subseteq Reasons /\ todo \subseteq work[w].todo /\ rows \subseteq Row /\ admitted \subseteq Reasons
      /\ \/ rows = work[w].rows /\ admitted = work[w].admitted
         \/ /\ rows = work[w].rows \cup {x} /\ admitted = work[w].admitted \cup {r}
            /\ \A y \in Visible(w) : DedupeKey(y) # DedupeKey(x)
  BY <1>1, <1>2, <1>3
<1> HIDE DEF r, x, todo, rows, admitted
<1>6. work'[w] = [work[w] EXCEPT !.todo = todo, !.rows = rows, !.admitted = admitted]
      /\ \A v \in Workers \ {w} : work'[v] = work[v]
  BY <1>4 DEF Sane, TypeOK
<1>7. work'[w] \in Session
  <2>1. /\ work[w] \in Session
        /\ todo \in SUBSET Reasons /\ rows \in SUBSET Row /\ admitted \in SUBSET Reasons
    BY <1>1, <1>5
  <2>2. [work[w] EXCEPT !.todo = todo, !.rows = rows, !.admitted = admitted] \in Session
    BY <2>1 DEF Session
  <2> QED
    BY <1>6, <2>2
<1>8. Alone(w)
  BY <1>4, <1>6, <1>7 DEF Alone, Sane, TypeOK
<1>9. /\ work'[w].pc = work[w].pc /\ work'[w].rows = rows
      /\ work'[w].admitted = admitted /\ work'[w].draft = work[w].draft
      /\ work'[w].paid = work[w].paid
      /\ work'[w].raised = work[w].raised /\ work'[w].side = work[w].side
      /\ work'[w].loaded = work[w].loaded /\ work'[w].todo = todo
      /\ work'[w].used = work[w].used /\ work'[w].last = work[w].last
  BY <1>1, <1>6 DEF Session
<1> QED
  BY <1>2, <1>3, <1>4, <1>5, <1>8, <1>9

(* A sweep asks the brain about a trigger it admitted, under the lock of the plan. *)
LEMMA LockFacts ==
  ASSUME Sane, NEW w \in Workers, LockPlan(w)
  PROVE  /\ Alone(w) /\ UNCHANGED <<plan, revisions, ledger, now>>
         /\ lock \in {None, w} /\ lock' = w
         /\ work[w].pc = "admit" /\ work'[w].pc = "brain" /\ work'[w].rows = work[w].rows
         /\ work'[w].at \in work[w].admitted /\ work'[w].at \in Reasons
         /\ work'[w].admitted \subseteq work[w].admitted /\ work'[w].paid = work[w].paid
         /\ work'[w].raised = work[w].raised /\ work'[w].side = work[w].side
         /\ work'[w].loaded = work[w].loaded /\ work'[w].draft \in Plan
         /\ work'[w].used = work[w].used /\ work'[w].last = work[w].last
         /\ work'[w].todo = work[w].todo
         /\ work[w].todo = {}
<1> DEFINE r == First(work[w].admitted)
           admitted == work[w].admitted \ {r}
           draft == IF lock = w THEN work[w].draft ELSE plan
<1>1. work[w] \in Session /\ work[w].admitted \subseteq Reasons /\ plan \in Plan
  BY DEF Sane, TypeOK, Session
<1>2. r \in work[w].admitted /\ r \in Reasons
  BY <1>1, FirstIsMember DEF LockPlan
<1>3. /\ work' = [work EXCEPT ![w].pc = "brain", ![w].at = r, ![w].admitted = admitted,
                             ![w].draft = draft]
      /\ UNCHANGED <<plan, revisions, ledger, now>> /\ work[w].pc = "admit" /\ work[w].todo = {}
      /\ lock \in {None, w} /\ lock' = w
  BY DEF LockPlan, At
<1>4. admitted \subseteq work[w].admitted /\ admitted \subseteq Reasons /\ draft \in Plan
  BY <1>1 DEF Sane
<1> HIDE DEF r, admitted, draft
<1>5. work'[w] = [work[w] EXCEPT !.pc = "brain", !.at = r, !.admitted = admitted, !.draft = draft]
      /\ \A v \in Workers \ {w} : work'[v] = work[v]
  BY <1>3 DEF Sane, TypeOK
<1>6. work'[w] \in Session
  <2>1. work[w] \in Session /\ r \in Reasons /\ admitted \in SUBSET Reasons /\ draft \in Plan
    BY <1>1, <1>2, <1>4
  <2>2. [work[w] EXCEPT !.pc = "brain", !.at = r, !.admitted = admitted, !.draft = draft] \in Session
    BY <2>1 DEF Session
  <2> QED
    BY <1>5, <2>2
<1>7. Alone(w)
  BY <1>3, <1>5, <1>6 DEF Alone, Sane, TypeOK
<1>8. /\ work'[w].pc = "brain" /\ work'[w].rows = work[w].rows /\ work'[w].at = r
      /\ work'[w].admitted = admitted /\ work'[w].draft = draft
      /\ work'[w].paid = work[w].paid
      /\ work'[w].raised = work[w].raised /\ work'[w].side = work[w].side
      /\ work'[w].loaded = work[w].loaded
      /\ work'[w].used = work[w].used /\ work'[w].last = work[w].last
      /\ work'[w].todo = work[w].todo
  BY <1>1, <1>5 DEF Session
<1> QED
  BY <1>2, <1>3, <1>4, <1>7, <1>8

(* A brain without an answer is paid for and writes nothing. *)
LEMMA DegradedFacts ==
  ASSUME Sane, NEW w \in Workers, BrainDegraded(w)
  PROVE  /\ Alone(w) /\ UNCHANGED <<plan, revisions, ledger, lock, now>>
         /\ work[w].pc = "brain" /\ work'[w].pc = "admit" /\ work'[w].rows = work[w].rows
         /\ work'[w].paid = work[w].paid \cup {ClaimOf(w, work[w].at)}
         /\ work'[w].admitted = work[w].admitted
         /\ work'[w].raised = work[w].raised /\ work'[w].side = work[w].side
         /\ work'[w].loaded = work[w].loaded /\ work'[w].draft = work[w].draft
         /\ work'[w].used = work[w].used /\ work'[w].last = work[w].last
         /\ work'[w].todo = work[w].todo
<1> DEFINE paid == work[w].paid \cup {ClaimOf(w, work[w].at)}
<1>1. work[w] \in Session /\ work[w].paid \subseteq Claim /\ work[w].pc = "brain"
  BY DEF Sane, TypeOK, Session, BrainDegraded, At
<1>2. paid \subseteq Claim
  BY <1>1, ClaimType DEF Sane
<1>3. /\ work' = [work EXCEPT ![w].pc = "admit", ![w].paid = paid]
      /\ UNCHANGED <<plan, revisions, ledger, lock, now>>
  BY DEF BrainDegraded, Paid
<1> HIDE DEF paid
<1>4. work'[w] = [work[w] EXCEPT !.pc = "admit", !.paid = paid]
      /\ \A v \in Workers \ {w} : work'[v] = work[v]
  BY <1>3 DEF Sane, TypeOK
<1>5. work'[w] \in Session
  BY <1>1, <1>2, <1>4 DEF Session
<1>6. Alone(w)
  BY <1>3, <1>4, <1>5 DEF Alone, Sane, TypeOK
<1>7. /\ work'[w].pc = "admit" /\ work'[w].rows = work[w].rows /\ work'[w].paid = paid
      /\ work'[w].admitted = work[w].admitted /\ work'[w].draft = work[w].draft
      /\ work'[w].raised = work[w].raised /\ work'[w].side = work[w].side
      /\ work'[w].loaded = work[w].loaded
      /\ work'[w].used = work[w].used /\ work'[w].last = work[w].last
      /\ work'[w].todo = work[w].todo
  BY <1>1, <1>4 DEF Session
<1> QED
  BY <1>1, <1>3, <1>6, <1>7 DEF paid

(* A plan stays a plan when a decision is written over it. *)
LEMMA AppliedType ==
  ASSUME NEW p \in Plan, NEW loaded \in Plan, NEW after \in Plan
  PROVE  Applied(p, loaded, after) \in Plan
BY DEF Applied, Plan

(* The rows of a sweep after the claim it is at is closed. *)
Closed(w) ==
  {IF x.claim = ClaimOf(w, work[w].at) /\ x.outcome = "requested"
     THEN [x EXCEPT !.done = TRUE] ELSE x : x \in work[w].rows}

(* A decision closes its claim, adds a verdict about it and is paid for. *)
LEMMA DecidesFacts ==
  ASSUME Sane, NEW w \in Workers, NEW after \in Plan, BrainDecides(w, after)
  PROVE  /\ Alone(w) /\ UNCHANGED <<plan, revisions, ledger, lock, now>>
         /\ work[w].pc = "brain" /\ work'[w].pc = "admit"
         /\ \E x \in Row : /\ x.outcome \in {"confirmed", "revised"}
                           /\ x.raised = work[w].raised /\ x.claim = ClaimOf(w, work[w].at)
                           /\ work'[w].rows = Closed(w) \cup {x}
         /\ work'[w].paid = work[w].paid \cup {ClaimOf(w, work[w].at)}
         /\ work'[w].admitted = work[w].admitted
         /\ work'[w].raised = work[w].raised /\ work'[w].side = work[w].side
         /\ work'[w].loaded \in Plan /\ work'[w].draft \in Plan
         /\ work'[w].used = work[w].used /\ work'[w].last = work[w].last
         /\ work'[w].todo = work[w].todo
<1> DEFINE paid == work[w].paid \cup {ClaimOf(w, work[w].at)}
           changed == Changed(work[w].loaded, after)
           x == NewRow(w, ClaimOf(w, work[w].at), IF changed THEN "revised" ELSE "confirmed")
           rows == Closed(w) \cup {x}
           draft == IF changed THEN Applied(work[w].draft, work[w].loaded, after) ELSE work[w].draft
           loaded == IF changed THEN Applied(work[w].loaded, work[w].loaded, after)
                                ELSE work[w].loaded
           written == work[w].written + 1
<1>1. /\ work[w] \in Session /\ work[w].paid \subseteq Claim /\ work[w].rows \subseteq Row
      /\ work[w].pc = "brain" /\ work[w].at \in Reasons /\ written \in Nat
      /\ work[w].loaded \in Plan /\ work[w].draft \in Plan
  <2>1. work[w] \in Session /\ work[w].pc = "brain"
    BY DEF Sane, TypeOK, BrainDecides, At
  <2>2. work[w].paid \subseteq Claim /\ work[w].rows \subseteq Row /\ work[w].written \in Nat
    BY <2>1 DEF Session
  <2> QED
    BY <2>1, <2>2 DEF Sane
<1>2. paid \subseteq Claim /\ ClaimOf(w, work[w].at) \in Claim
  BY <1>1, ClaimType DEF Sane
<1>3. /\ x \in Row /\ x.outcome \in {"confirmed", "revised"} /\ x.raised = work[w].raised
      /\ x.claim = ClaimOf(w, work[w].at)
  BY <1>2, RowType DEF Sane, Outcomes
<1>4. draft \in Plan /\ loaded \in Plan
  BY <1>1, AppliedType
<1>5. rows \subseteq Row
  <2>1. \A y \in Row : [y EXCEPT !.done = TRUE] \in Row
    BY DEF Row
  <2> QED
    BY <1>1, <1>3, <2>1 DEF Closed
<1>6. /\ work' = [work EXCEPT ![w].pc = "admit", ![w].paid = paid, ![w].written = written,
                             ![w].rows = rows, ![w].draft = draft, ![w].loaded = loaded]
      /\ UNCHANGED <<plan, revisions, ledger, lock, now>>
  BY DEF BrainDecides, Paid, Closed
<1> HIDE DEF paid, changed, x, rows, draft, loaded, written
<1>7. /\ work'[w] = [work[w] EXCEPT !.pc = "admit", !.paid = paid, !.written = written,
                                   !.rows = rows, !.draft = draft, !.loaded = loaded]
      /\ \A v \in Workers \ {w} : work'[v] = work[v]
  BY <1>6 DEF Sane, TypeOK
<1>8. work'[w] \in Session
  <2>1. /\ work[w] \in Session /\ paid \in SUBSET Claim /\ rows \in SUBSET Row
        /\ written \in Nat /\ draft \in Plan /\ loaded \in Plan
    BY <1>1, <1>2, <1>4, <1>5
  <2>2. [work[w] EXCEPT !.pc = "admit", !.paid = paid, !.written = written,
                        !.rows = rows, !.draft = draft, !.loaded = loaded] \in Session
    BY <2>1 DEF Session
  <2> QED
    BY <1>7, <2>2
<1>9. Alone(w)
  BY <1>6, <1>7, <1>8 DEF Alone, Sane, TypeOK
<1>10. /\ work'[w].pc = "admit" /\ work'[w].rows = rows /\ work'[w].paid = paid
       /\ work'[w].admitted = work[w].admitted
       /\ work'[w].raised = work[w].raised /\ work'[w].side = work[w].side
       /\ work'[w].loaded = loaded /\ work'[w].draft = draft
       /\ work'[w].used = work[w].used /\ work'[w].last = work[w].last
       /\ work'[w].todo = work[w].todo
  BY <1>1, <1>7 DEF Session
<1> QED
  BY <1>1, <1>3, <1>4, <1>6, <1>9, <1>10 DEF paid, rows

(* The end of a sweep publishes all its rows or none. *)
LEMMA EndFacts ==
  ASSUME Sane, NEW w \in Workers, Commit(w) \/ Fail(w)
  PROVE  /\ Alone(w) /\ now' = now
         /\ work'[w].pc = "idle" /\ work'[w].rows = {} /\ work'[w].paid = {}
         /\ work'[w].admitted = {} /\ work'[w].raised = 0
         /\ lock' = (IF lock = w THEN None ELSE lock)
         /\ plan' \in Plan /\ revisions' \in Nat
         /\ Commit(w) => ledger' = ledger \cup work[w].rows
         /\ ~Commit(w) => ledger' = ledger
<1> DEFINE next == Asleep(work[w].runs)
<1>1. work[w] \in Session /\ work[w].runs \in Nat /\ work[w].written \in Nat
  BY DEF Sane, TypeOK, Session
<1>2. /\ next \in Session /\ next.pc = "idle" /\ next.rows = {} /\ next.paid = {}
      /\ next.admitted = {} /\ next.raised = 0
  BY <1>1, AsleepType
<1>3. /\ work' = [work EXCEPT ![w] = next] /\ now' = now
      /\ lock' = (IF lock = w THEN None ELSE lock)
  BY DEF Commit, Fail, Released
<1>4. plan' \in Plan /\ revisions' \in Nat
  BY <1>1 DEF Commit, Fail, Sane, TypeOK
<1>5. /\ Commit(w) => ledger' = ledger \cup work[w].rows
      /\ ~Commit(w) => ledger' = ledger
  BY DEF Commit, Fail
<1> HIDE DEF next
<1>6. work'[w] = next /\ Alone(w)
  BY <1>2, <1>3 DEF Alone, Sane, TypeOK
<1> QED
  BY <1>2, <1>3, <1>4, <1>5, <1>6

(* A step is one of these. *)
LEMMA Kinds ==
  ASSUME [Next]_vars
  PROVE  \/ UNCHANGED vars
         \/ \E w \in Workers, noticed \in SUBSET Reasons : Sweep(w, noticed)
         \/ \E w \in Workers : \/ ReadHistory(w) \/ Suppress(w) \/ Request(w) \/ LockPlan(w)
                             \/ BrainDegraded(w) \/ Commit(w) \/ Fail(w)
         \/ \E w \in Workers, after \in Plan : BrainDecides(w, after)
         \/ Tick
BY DEF Next

(* A step of one sweep keeps the invariant when its own part of it holds again. *)
LEMMA OneSweeps ==
  ASSUME Sane, NEW w \in Workers, Alone(w), UNCHANGED <<plan, revisions, ledger, now>>,
         lock' \in {lock, w}, lock' # lock => lock = None,
         IsFiniteSet(work'[w].rows), \A x \in work'[w].rows : x.raised <= now,
         work'[w].raised <= now, work'[w].loaded \in Plan,
         work'[w].pc # "idle", lock' = w => work'[w].draft \in Plan,
         work'[w].pc = "brain" => work'[w].at \in Reasons /\ lock' = w
  PROVE  Sane'
<1>1. TypeOK'
  BY DEF Sane, TypeOK, Alone
<1>2. ASSUME NEW v \in Workers
      PROVE  /\ IsFiniteSet(work'[v].rows) /\ \A x \in work'[v].rows : x.raised <= now'
             /\ work'[v].raised <= now'
             /\ work'[v].pc # "idle" => work'[v].loaded \in Plan
             /\ lock' = v => work'[v].draft \in Plan /\ work'[v].pc # "idle"
             /\ work'[v].pc = "brain" => work'[v].at \in Reasons /\ lock' = v
  <2>1. CASE v = w
    BY <2>1
  <2>2. CASE v # w
    BY <2>2, NoneFacts DEF Sane, Alone
  <2> QED
    BY <2>1, <2>2
<1>3. IsFiniteSet(ledger') /\ \A x \in ledger' : x.raised <= now'
  BY DEF Sane
<1> QED
  BY <1>1, <1>2, <1>3 DEF Sane

(* Every step keeps types, finiteness and the order of time. *)
LEMMA SaneStep == Sane /\ [Next]_vars => Sane'
<1> SUFFICES ASSUME Sane, [Next]_vars PROVE Sane'
  OBVIOUS
<1>1. CASE UNCHANGED vars
  BY <1>1 DEF vars, Sane, TypeOK
<1>2. ASSUME NEW w \in Workers, NEW noticed \in SUBSET Reasons, Sweep(w, noticed)
      PROVE  Sane'
  <2>1. now \in Nat /\ plan \in Plan /\ IsFiniteSet({})
    BY FS_EmptySet DEF Sane, TypeOK
  <2>2. lock # w
    BY <1>2, SweepFacts DEF Sane
  <2>3. /\ Alone(w) /\ UNCHANGED <<plan, revisions, ledger, lock, now>>
        /\ work'[w].pc = "history" /\ work'[w].rows = {}
        /\ work'[w].raised = now /\ work'[w].loaded = plan
    BY <1>2, SweepFacts
  <2>4. IsFiniteSet(work'[w].rows) /\ \A x \in work'[w].rows : x.raised <= now
    BY <2>1, <2>3
  <2>5. /\ UNCHANGED <<plan, revisions, ledger, now>> /\ lock' \in {lock, w} /\ lock' = lock
        /\ work'[w].raised <= now /\ work'[w].loaded \in Plan /\ lock' # w
        /\ work'[w].pc # "idle" /\ work'[w].pc # "brain"
    BY <2>1, <2>2, <2>3
  <2> QED
    BY <2>3, <2>4, <2>5, OneSweeps
<1>3. ASSUME NEW w \in Workers, ReadHistory(w) \/ Suppress(w) \/ Request(w)
      PROVE  Sane'
  <2>0. /\ IsFiniteSet(work[w].rows) /\ \A x \in work[w].rows : x.raised <= now
        /\ work[w].raised <= now
        /\ work[w].pc # "idle" => work[w].loaded \in Plan
        /\ lock = w => work[w].draft \in Plan
    BY DEF Sane
  <2>1. /\ Alone(w) /\ UNCHANGED <<plan, revisions, ledger, lock, now>>
        /\ work[w].pc # "idle" /\ work'[w].pc = "admit"
        /\ \/ work'[w].rows = work[w].rows
           \/ \E x \in Row : x.raised = work[w].raised /\ work'[w].rows = work[w].rows \cup {x}
        /\ work'[w].raised = work[w].raised
        /\ work'[w].loaded = work[w].loaded /\ work'[w].draft = work[w].draft
    BY <1>3, HistoryFacts, SuppressFacts, RequestFacts
  <2>2. IsFiniteSet(work'[w].rows) /\ \A x \in work'[w].rows : x.raised <= now
    <3>1. CASE work'[w].rows = work[w].rows
      BY <2>0, <3>1
    <3>2. ASSUME NEW x \in Row, x.raised = work[w].raised, work'[w].rows = work[w].rows \cup {x}
          PROVE  IsFiniteSet(work'[w].rows) /\ \A y \in work'[w].rows : y.raised <= now
      <4>1. IsFiniteSet(work[w].rows \cup {x})
        BY <2>0, FS_AddElement
      <4>2. \A y \in work[w].rows \cup {x} : y.raised <= now
        BY <2>0, <3>2
      <4> QED
        BY <3>2, <4>1, <4>2
    <3> QED
      BY <2>1, <3>1, <3>2
  <2>3. /\ work'[w].raised <= now /\ work'[w].loaded \in Plan /\ work'[w].pc = "admit"
        /\ lock' = lock
        /\ lock' = w => work'[w].draft \in Plan
    BY <2>0, <2>1
  <2> QED
    BY <2>1, <2>2, <2>3, OneSweeps
<1>4. ASSUME NEW w \in Workers, LockPlan(w)
      PROVE  Sane'
  <2>1. /\ IsFiniteSet(work[w].rows) /\ \A x \in work[w].rows : x.raised <= now
        /\ work[w].raised <= now
        /\ work[w].pc # "idle" => work[w].loaded \in Plan
    BY DEF Sane
  <2>2. /\ Alone(w) /\ UNCHANGED <<plan, revisions, ledger, now>>
        /\ lock \in {None, w} /\ lock' = w /\ work[w].pc = "admit" /\ work'[w].pc = "brain"
        /\ work'[w].rows = work[w].rows /\ work'[w].raised = work[w].raised
        /\ work'[w].at \in Reasons /\ work'[w].loaded = work[w].loaded /\ work'[w].draft \in Plan
    BY <1>4, LockFacts
  <2>3. lock' \in {lock, w} /\ (lock' # lock => lock = None)
    BY <2>2
  <2> QED
    BY <2>1, <2>2, <2>3, OneSweeps
<1>5. ASSUME NEW w \in Workers, BrainDegraded(w)
      PROVE  Sane'
  <2>1. /\ IsFiniteSet(work[w].rows) /\ \A x \in work[w].rows : x.raised <= now
        /\ work[w].raised <= now
        /\ work[w].pc # "idle" => work[w].loaded \in Plan
        /\ lock = w => work[w].draft \in Plan
    BY DEF Sane
  <2>2. /\ Alone(w) /\ UNCHANGED <<plan, revisions, ledger, lock, now>>
        /\ work[w].pc = "brain" /\ work'[w].pc = "admit" /\ work'[w].rows = work[w].rows
        /\ work'[w].raised = work[w].raised /\ work'[w].loaded = work[w].loaded
        /\ work'[w].draft = work[w].draft
    BY <1>5, DegradedFacts
  <2> QED
    BY <2>1, <2>2, OneSweeps
<1>6. ASSUME NEW w \in Workers, NEW after \in Plan, BrainDecides(w, after)
      PROVE  Sane'
  <2>1. IsFiniteSet(Closed(w)) /\ \A x \in Closed(w) : x.raised <= now
    <3> DEFINE f == [x \in work[w].rows |->
                      IF x.claim = ClaimOf(w, work[w].at) /\ x.outcome = "requested"
                        THEN [x EXCEPT !.done = TRUE] ELSE x]
    <3>1. IsFiniteSet(Closed(w))
      <4>1. f \in Surjection(work[w].rows, Closed(w))
        BY DEF Surjection, Closed
      <4>2. IsFiniteSet(work[w].rows)
        BY DEF Sane
      <4> HIDE DEF f
      <4> QED
        BY <4>1, <4>2, FS_Surjection
    <3>2. \A x \in Row : [x EXCEPT !.done = TRUE].raised = x.raised
      BY DEF Row
    <3>3. work[w].rows \subseteq Row /\ \A x \in work[w].rows : x.raised <= now
      BY DEF Sane, TypeOK, Session
    <3> QED
      BY <3>1, <3>2, <3>3 DEF Closed
  <2>2. PICK x \in Row : x.raised = work[w].raised /\ work'[w].rows = Closed(w) \cup {x}
    BY <1>6, DecidesFacts
  <2>3. work[w].raised <= now
    BY DEF Sane
  <2>4. IsFiniteSet(work'[w].rows) /\ \A y \in work'[w].rows : y.raised <= now
    <3>1. IsFiniteSet(Closed(w) \cup {x})
      BY <2>1, FS_AddElement
    <3>2. \A y \in Closed(w) \cup {x} : y.raised <= now
      BY <2>1, <2>2, <2>3
    <3> QED
      BY <2>2, <3>1, <3>2
  <2>5. /\ Alone(w) /\ UNCHANGED <<plan, revisions, ledger, lock, now>>
        /\ work'[w].pc = "admit" /\ work'[w].raised = work[w].raised
        /\ work'[w].loaded \in Plan /\ work'[w].draft \in Plan
    BY <1>6, DecidesFacts
  <2>6. work'[w].raised <= now /\ lock' \in {lock, w} /\ lock' = lock
    BY <2>3, <2>5
  <2> QED
    BY <2>4, <2>5, <2>6, OneSweeps
<1>7. ASSUME NEW w \in Workers, Commit(w) \/ Fail(w)
      PROVE  Sane'
  <2>1. /\ Alone(w) /\ now' = now
        /\ work'[w].pc = "idle" /\ work'[w].rows = {} /\ work'[w].raised = 0
        /\ lock' = (IF lock = w THEN None ELSE lock)
        /\ plan' \in Plan /\ revisions' \in Nat
        /\ ledger' = ledger \cup work[w].rows \/ ledger' = ledger
    BY <1>7, EndFacts
  <2>2. work[w].rows \subseteq Row /\ now \in Nat
    BY DEF Sane, TypeOK, Session
  <2>3. TypeOK'
    BY <2>1, <2>2 DEF Sane, TypeOK, Alone
  <2>4. IsFiniteSet(ledger') /\ \A x \in ledger' : x.raised <= now'
    <3>1. /\ IsFiniteSet(ledger) /\ IsFiniteSet(work[w].rows)
          /\ \A x \in ledger \cup work[w].rows : x.raised <= now
      BY DEF Sane
    <3>2. IsFiniteSet(ledger \cup work[w].rows)
      BY <3>1, FS_Union
    <3> QED
      BY <2>1, <3>1, <3>2
  <2>5. ASSUME NEW v \in Workers
        PROVE  /\ IsFiniteSet(work'[v].rows) /\ \A x \in work'[v].rows : x.raised <= now'
               /\ work'[v].raised <= now'
               /\ work'[v].pc # "idle" => work'[v].loaded \in Plan
               /\ lock' = v => work'[v].draft \in Plan /\ work'[v].pc # "idle"
               /\ work'[v].pc = "brain" => work'[v].at \in Reasons /\ lock' = v
    <3>1. CASE v = w
      <4>1. lock' # v /\ IsFiniteSet({})
        BY <2>1, <3>1, NoneFacts, FS_EmptySet
      <4> QED
        BY <2>1, <2>2, <3>1, <4>1
    <3>2. CASE v # w
      BY <2>1, <3>2, NoneFacts DEF Sane, Alone
    <3> QED
      BY <3>1, <3>2
  <2> QED
    BY <2>3, <2>4, <2>5 DEF Sane
<1>8. CASE Tick
  <2>1. /\ now' = now + 1 /\ UNCHANGED <<plan, revisions, ledger, lock, work>> /\ now \in Nat
    BY <1>8 DEF Tick, Sane, TypeOK
  <2>2. /\ \A x \in ledger : x.raised \in Nat
        /\ \A w \in Workers : work[w].raised \in Nat /\ \A x \in work[w].rows : x.raised \in Nat
    BY DEF Sane, TypeOK, Session, Row
  <2>3. TypeOK'
    BY <2>1 DEF Sane, TypeOK
  <2> QED
    BY <2>1, <2>2, <2>3 DEF Sane
<1> QED
  BY <1>1, <1>2, <1>3, <1>4, <1>5, <1>6, <1>7, <1>8, Kinds

(* At the beginning there are no rows. *)
LEMMA InitSane == Init => Sane
<1> SUFFICES ASSUME Init PROVE Sane
  OBVIOUS
<1>1. /\ work \in [Workers -> Session]
      /\ \A w \in Workers : work[w].pc = "idle" /\ work[w].rows = {} /\ work[w].raised = 0
  BY AsleepType DEF Init
<1>2. TypeOK
  BY <1>1 DEF Init, TypeOK
<1> QED
  BY <1>1, <1>2, FS_EmptySet, NoneFacts DEF Init, Sane

(* Every reachable plan, row, claim and sweep is well typed (TypeOK), however sweeps *)
(* overlap, fail and are rolled back.                                                *)
THEOREM LedgerTypes == Spec => []TypeOK
<1>1. Sane => TypeOK
  BY DEF Sane
<1> QED
  BY <1>1, InitSane, SaneStep, PTL DEF Spec
-----------------------------------------------------------------------------
(* The claims of a set of rows. *)
ClaimsIn(S) == {x.claim : x \in {y \in S : y.outcome = "requested"}}
(* The claims a set of rows has a verdict about. *)
VerdictsIn(S) == {x.claim : x \in {y \in S : y.outcome \in {"confirmed", "revised"}}}

(* A claim is in one transaction or in the ledger, never in two of them; what a sweep *)
(* paid for, admitted or asks about is among its claims.                              *)
Claims ==
  /\ \A w \in Workers :
       /\ \A v \in Workers \ {w} : ClaimsIn(work[w].rows) \cap ClaimsIn(work[v].rows) = {}
       /\ ClaimsIn(work[w].rows) \cap ClaimsIn(ledger) = {}
       /\ work[w].paid \subseteq ClaimsIn(work[w].rows)
       /\ \A r \in work[w].admitted : ClaimOf(w, r) \in ClaimsIn(work[w].rows)
       /\ work[w].pc = "brain" => ClaimOf(w, work[w].at) \in ClaimsIn(work[w].rows)

(* A step that adds no claim, admits nothing and pays for its own keeps that. *)
LEMMA ClaimsStay ==
  ASSUME Claims, NEW w \in Workers, Alone(w), ledger' = ledger,
         ClaimsIn(work'[w].rows) = ClaimsIn(work[w].rows),
         work'[w].paid \subseteq ClaimsIn(work[w].rows),
         work'[w].admitted \subseteq work[w].admitted,
         work'[w].side = work[w].side, work'[w].raised = work[w].raised,
         work'[w].pc = "brain" => work'[w].at \in work[w].admitted
  PROVE  Claims'
<1>1. \A r : ClaimOf(w, r)' = ClaimOf(w, r)
  BY DEF ClaimOf
<1>2. \A v \in Workers \ {w} : \A r : ClaimOf(v, r)' = ClaimOf(v, r)
  BY DEF ClaimOf, Alone
<1>3. \A v \in Workers : ClaimsIn(work'[v].rows) = ClaimsIn(work[v].rows)
  BY DEF Alone
<1> QED
  BY <1>1, <1>2, <1>3 DEF Claims, Alone

(* So does the end of a sweep, whether its rows are published or not. *)
LEMMA ClaimsEmptied ==
  ASSUME Claims, NEW w \in Workers, Alone(w),
         ClaimsIn(ledger') \subseteq ClaimsIn(ledger) \cup ClaimsIn(work[w].rows),
         work'[w].rows = {}, work'[w].paid = {}, work'[w].admitted = {}, work'[w].pc # "brain"
  PROVE  Claims'
<1>1. \A v \in Workers \ {w} : \A r : ClaimOf(v, r)' = ClaimOf(v, r)
  BY DEF ClaimOf, Alone
<1>2. ClaimsIn(work'[w].rows) = {} /\ \A v \in Workers \ {w} : work'[v] = work[v]
  BY DEF ClaimsIn, Alone
<1>3. \A v \in Workers \ {w} : ClaimsIn(work[v].rows) \cap ClaimsIn(ledger') = {}
  BY DEF Claims
<1>4. ASSUME NEW u \in Workers
      PROVE  /\ \A v \in Workers \ {u} : ClaimsIn(work'[u].rows) \cap ClaimsIn(work'[v].rows) = {}
             /\ ClaimsIn(work'[u].rows) \cap ClaimsIn(ledger') = {}
  BY <1>2, <1>3 DEF Claims
<1>5. ASSUME NEW u \in Workers
      PROVE  /\ work'[u].paid \subseteq ClaimsIn(work'[u].rows)
             /\ \A r \in work'[u].admitted : ClaimOf(u, r)' \in ClaimsIn(work'[u].rows)
             /\ work'[u].pc = "brain" => ClaimOf(u, work[u].at)' \in ClaimsIn(work'[u].rows)
  BY <1>1, <1>2 DEF Claims
<1> QED
  BY <1>4, <1>5 DEF Claims

(* Closing a claim neither adds nor removes one. *)
LEMMA ClosedClaims ==
  ASSUME Sane, NEW w \in Workers
  PROVE  /\ ClaimsIn(Closed(w)) = ClaimsIn(work[w].rows)
         /\ VerdictsIn(Closed(w)) = VerdictsIn(work[w].rows)
<1> DEFINE close(x) == IF x.claim = ClaimOf(w, work[w].at) /\ x.outcome = "requested"
                         THEN [x EXCEPT !.done = TRUE] ELSE x
<1>1. work[w].rows \subseteq Row
  BY DEF Sane, TypeOK, Session
<1>2. \A x \in Row : close(x).claim = x.claim /\ close(x).outcome = x.outcome
  BY DEF Row
<1>3. Closed(w) = {close(x) : x \in work[w].rows}
  BY DEF Closed
<1> HIDE DEF close
<1> QED
  BY <1>1, <1>2, <1>3 DEF ClaimsIn, VerdictsIn

(* What one more row does to claims and verdicts. *)
LEMMA AddedRow ==
  ASSUME NEW S, NEW x
  PROVE  /\ x.outcome = "requested" => ClaimsIn(S \cup {x}) = ClaimsIn(S) \cup {x.claim}
         /\ x.outcome # "requested" => ClaimsIn(S \cup {x}) = ClaimsIn(S)
         /\ x.outcome \in {"confirmed", "revised"} =>
              VerdictsIn(S \cup {x}) = VerdictsIn(S) \cup {x.claim}
         /\ x.outcome \notin {"confirmed", "revised"} => VerdictsIn(S \cup {x}) = VerdictsIn(S)
BY DEF ClaimsIn, VerdictsIn

(* Claims and verdicts of two sets of rows together. *)
LEMMA UnionRows ==
  ASSUME NEW S, NEW T
  PROVE  /\ ClaimsIn(S \cup T) = ClaimsIn(S) \cup ClaimsIn(T)
         /\ VerdictsIn(S \cup T) = VerdictsIn(S) \cup VerdictsIn(T)
BY DEF ClaimsIn, VerdictsIn

(* The claim a trigger inserts is nobody else's: the unique key sees the committed rows, *)
(* and the insert waits for the uncommitted ones.                                        *)
LEMMA NewClaim ==
  ASSUME Sane, NEW w \in Workers, NEW x \in Row, x.outcome = "requested",
         DedupeKey(x) \notin PendingElsewhere(w),
         \A y \in Visible(w) : DedupeKey(y) # DedupeKey(x)
  PROVE  /\ x.claim \notin ClaimsIn(ledger) /\ x.claim \notin ClaimsIn(work[w].rows)
         /\ \A v \in Workers \ {w} : x.claim \notin ClaimsIn(work[v].rows)
<1>1. \A y : y.outcome = "requested" /\ y.claim = x.claim => DedupeKey(y) = DedupeKey(x)
  BY DEF DedupeKey
<1>2. \A v \in Workers \ {w} : \A y \in work[v].rows : DedupeKey(y) # DedupeKey(x)
  BY DEF PendingElsewhere
<1> QED
  BY <1>1, <1>2 DEF ClaimsIn, Visible

(* Every step keeps the claims apart. *)
LEMMA ClaimsStep == Sane /\ Claims /\ [Next]_vars => Claims'
<1> SUFFICES ASSUME Sane, Claims, [Next]_vars PROVE Claims'
  OBVIOUS
<1>1. CASE UNCHANGED vars
  BY <1>1 DEF vars, Claims, ClaimOf
<1>2. ASSUME NEW w \in Workers, NEW noticed \in SUBSET Reasons, Sweep(w, noticed)
      PROVE  Claims'
  BY <1>2, SweepFacts, ClaimsEmptied
<1>3. ASSUME NEW w \in Workers, ReadHistory(w)
      PROVE  Claims'
  BY <1>3, HistoryFacts, ClaimsStay DEF Claims
<1>4. ASSUME NEW w \in Workers, Suppress(w)
      PROVE  Claims'
  <2>1. PICK x \in Row :
          /\ x.outcome = "suppressed"
          /\ work'[w].rows = work[w].rows \/ work'[w].rows = work[w].rows \cup {x}
    BY <1>4, SuppressFacts
  <2>2. ClaimsIn(work[w].rows \cup {x}) = ClaimsIn(work[w].rows)
    BY <2>1, AddedRow
  <2>3. ClaimsIn(work'[w].rows) = ClaimsIn(work[w].rows)
    BY <2>1, <2>2
  <2>4. /\ Alone(w) /\ ledger' = ledger /\ work'[w].paid = work[w].paid
        /\ work'[w].admitted = work[w].admitted /\ work'[w].pc = "admit"
        /\ work'[w].side = work[w].side /\ work'[w].raised = work[w].raised
    BY <1>4, SuppressFacts
  <2>5. work[w].paid \subseteq ClaimsIn(work[w].rows)
    BY DEF Claims
  <2> QED
    BY <2>3, <2>4, <2>5, ClaimsStay
<1>5. ASSUME NEW w \in Workers, Request(w)
      PROVE  Claims'
  <2>1. PICK x \in Row, r \in Reasons :
          /\ x.outcome = "requested" /\ x.claim = ClaimOf(w, r)
          /\ \/ /\ work'[w].rows = work[w].rows /\ work'[w].admitted = work[w].admitted
             \/ /\ work'[w].rows = work[w].rows \cup {x}
                /\ work'[w].admitted = work[w].admitted \cup {r}
                /\ DedupeKey(x) \notin PendingElsewhere(w)
                /\ \A y \in Visible(w) : DedupeKey(y) # DedupeKey(x)
    BY <1>5, RequestFacts
  <2>2. /\ Alone(w) /\ ledger' = ledger /\ work'[w].paid = work[w].paid
        /\ work'[w].raised = work[w].raised /\ work'[w].side = work[w].side
        /\ work'[w].pc = "admit"
    BY <1>5, RequestFacts
  <2>3. CASE work'[w].rows = work[w].rows /\ work'[w].admitted = work[w].admitted
    BY <2>2, <2>3, ClaimsStay DEF Claims
  <2>4. CASE ~(work'[w].rows = work[w].rows /\ work'[w].admitted = work[w].admitted)
    <3>1. /\ x.claim \notin ClaimsIn(ledger)
          /\ \A v \in Workers \ {w} : x.claim \notin ClaimsIn(work[v].rows)
      BY <2>1, <2>4, NewClaim
    <3>2. ClaimsIn(work'[w].rows) = ClaimsIn(work[w].rows) \cup {ClaimOf(w, r)}
      <4>1. /\ x.outcome = "requested" /\ x.claim = ClaimOf(w, r)
            /\ work'[w].rows = work[w].rows \cup {x}
        BY <2>1, <2>4
      <4>2. ClaimsIn(work[w].rows \cup {x}) = ClaimsIn(work[w].rows) \cup {x.claim}
        BY <4>1, AddedRow
      <4> QED
        BY <4>1, <4>2
    <3>3. \A q : ClaimOf(w, q)' = ClaimOf(w, q)
      BY <2>2 DEF ClaimOf
    <3>4. \A v \in Workers \ {w} : \A q : ClaimOf(v, q)' = ClaimOf(v, q)
      BY <2>2 DEF ClaimOf, Alone
    <3>5. \A v \in Workers \ {w} : work'[v] = work[v]
      BY <2>2 DEF Alone
    <3>6. ASSUME NEW u \in Workers
          PROVE  /\ \A v \in Workers \ {u} : ClaimsIn(work'[u].rows) \cap ClaimsIn(work'[v].rows) = {}
                 /\ ClaimsIn(work'[u].rows) \cap ClaimsIn(ledger') = {}
      BY <2>1, <2>2, <3>1, <3>2, <3>5 DEF Claims
    <3>7. ASSUME NEW u \in Workers
          PROVE  /\ work'[u].paid \subseteq ClaimsIn(work'[u].rows)
                 /\ \A q \in work'[u].admitted : ClaimOf(u, q)' \in ClaimsIn(work'[u].rows)
                 /\ work'[u].pc = "brain" => ClaimOf(u, work[u].at)' \in ClaimsIn(work'[u].rows)
      BY <2>1, <2>2, <2>4, <3>2, <3>3, <3>4, <3>5 DEF Claims
    <3> QED
      BY <3>6, <3>7 DEF Claims
  <2> QED
    BY <2>3, <2>4
<1>6. ASSUME NEW w \in Workers, LockPlan(w)
      PROVE  Claims'
  <2>1. /\ Alone(w) /\ ledger' = ledger /\ work'[w].rows = work[w].rows
        /\ work'[w].paid = work[w].paid /\ work'[w].admitted \subseteq work[w].admitted
        /\ work'[w].side = work[w].side /\ work'[w].raised = work[w].raised
        /\ work'[w].at \in work[w].admitted
    BY <1>6, LockFacts
  <2>2. work[w].paid \subseteq ClaimsIn(work[w].rows)
    BY DEF Claims
  <2> QED
    BY <2>1, <2>2, ClaimsStay
<1>7. ASSUME NEW w \in Workers, BrainDegraded(w)
      PROVE  Claims'
  <2>1. /\ Alone(w) /\ ledger' = ledger /\ work'[w].rows = work[w].rows
        /\ work'[w].paid = work[w].paid \cup {ClaimOf(w, work[w].at)}
        /\ work'[w].admitted = work[w].admitted /\ work[w].pc = "brain" /\ work'[w].pc = "admit"
        /\ work'[w].side = work[w].side /\ work'[w].raised = work[w].raised
    BY <1>7, DegradedFacts
  <2>2. /\ work[w].paid \subseteq ClaimsIn(work[w].rows)
        /\ work[w].pc = "brain" => ClaimOf(w, work[w].at) \in ClaimsIn(work[w].rows)
    BY DEF Claims
  <2> QED
    BY <2>1, <2>2, ClaimsStay
<1>8. ASSUME NEW w \in Workers, NEW after \in Plan, BrainDecides(w, after)
      PROVE  Claims'
  <2>1. ClaimsIn(work'[w].rows) = ClaimsIn(work[w].rows)
    <3>1. PICK x \in Row : /\ x.outcome \in {"confirmed", "revised"}
                           /\ work'[w].rows = Closed(w) \cup {x}
      BY <1>8, DecidesFacts
    <3> QED
      BY <3>1, ClosedClaims, AddedRow
  <2>2. /\ Alone(w) /\ ledger' = ledger
        /\ work'[w].paid = work[w].paid \cup {ClaimOf(w, work[w].at)}
        /\ work'[w].admitted = work[w].admitted /\ work[w].pc = "brain" /\ work'[w].pc = "admit"
        /\ work'[w].side = work[w].side /\ work'[w].raised = work[w].raised
    BY <1>8, DecidesFacts
  <2>3. /\ work[w].paid \subseteq ClaimsIn(work[w].rows)
        /\ work[w].pc = "brain" => ClaimOf(w, work[w].at) \in ClaimsIn(work[w].rows)
    BY DEF Claims
  <2> QED
    BY <2>1, <2>2, <2>3, ClaimsStay
<1>9. ASSUME NEW w \in Workers, Commit(w) \/ Fail(w)
      PROVE  Claims'
  <2>1. /\ Alone(w) /\ work'[w].pc = "idle" /\ work'[w].rows = {} /\ work'[w].paid = {}
        /\ work'[w].admitted = {}
        /\ ledger' = ledger \cup work[w].rows \/ ledger' = ledger
    BY <1>9, EndFacts
  <2>2. ClaimsIn(ledger \cup work[w].rows) = ClaimsIn(ledger) \cup ClaimsIn(work[w].rows)
    BY UnionRows
  <2>3. ClaimsIn(ledger') \subseteq ClaimsIn(ledger) \cup ClaimsIn(work[w].rows)
    BY <2>1, <2>2
  <2> QED
    BY <2>1, <2>3, ClaimsEmptied
<1>10. CASE Tick
  BY <1>10 DEF Tick, Claims, ClaimOf
<1> QED
  BY <1>1, <1>2, <1>3, <1>4, <1>5, <1>6, <1>7, <1>8, <1>9, <1>10, Kinds

(* No two sweeps under way have paid for one claim, and none for a claim that is already  *)
(* in the ledger (ExactlyOnePays): _write_trigger_row reports to one of them only that it *)
(* wrote the row.                                                                         *)
THEOREM OnePays == Spec => []ExactlyOnePays
<1>1. Init => Claims
  <2> SUFFICES ASSUME Init PROVE Claims
    OBVIOUS
  <2>1. /\ ledger = {} /\ ClaimsIn({}) = {}
        /\ \A w \in Workers : /\ work[w].rows = {} /\ work[w].paid = {} /\ work[w].admitted = {}
                             /\ work[w].pc = "idle"
    BY AsleepType DEF Init, ClaimsIn
  <2> QED
    BY <2>1 DEF Claims
<1>2. Claims => ExactlyOnePays
  BY DEF Claims, ExactlyOnePays, ClaimsIn
<1> QED
  BY <1>1, <1>2, InitSane, SaneStep, ClaimsStep, PTL DEF Spec
-----------------------------------------------------------------------------
(* In a set of rows, verdicts are about its own claims, and a claim is closed exactly *)
(* when there is one.                                                                 *)
Settled(S) ==
  /\ VerdictsIn(S) \subseteq ClaimsIn(S)
  /\ \A x \in S : x.outcome = "requested" => (x.done <=> x.claim \in VerdictsIn(S))

(* The ledger is settled, and so is every transaction for itself. *)
Answered == Settled(ledger) /\ \A w \in Workers : Settled(work[w].rows)

(* Two settled sets that share no claim are settled together. *)
LEMMA SettledUnion ==
  ASSUME NEW S, NEW T, Settled(S), Settled(T), ClaimsIn(S) \cap ClaimsIn(T) = {}
  PROVE  Settled(S \cup T)
<1>1. \A U : \A x \in U : x.outcome = "requested" => x.claim \in ClaimsIn(U)
  BY DEF ClaimsIn
<1> QED
  BY <1>1, UnionRows DEF Settled

(* A new claim or a suppressed trigger keeps a set settled. *)
LEMMA SettledMore ==
  ASSUME NEW S, Settled(S), NEW x,
         \/ x.outcome = "suppressed"
         \/ x.outcome = "requested" /\ ~x.done /\ x.claim \notin ClaimsIn(S)
  PROVE  Settled(S \cup {x})
<1>1. VerdictsIn(S \cup {x}) = VerdictsIn(S) /\ ClaimsIn(S) \subseteq ClaimsIn(S \cup {x})
  BY AddedRow
<1>2. x.outcome = "requested" => x.claim \notin VerdictsIn(S)
  BY DEF Settled
<1> QED
  BY <1>1, <1>2 DEF Settled

(* So does a verdict, with its claim closed. *)
LEMMA SettledByVerdict ==
  ASSUME Sane, NEW w \in Workers, Settled(work[w].rows), NEW x \in Row,
         x.outcome \in {"confirmed", "revised"}, x.claim = ClaimOf(w, work[w].at),
         x.claim \in ClaimsIn(work[w].rows)
  PROVE  Settled(Closed(w) \cup {x})
<1> DEFINE close(y) == IF y.claim = x.claim /\ y.outcome = "requested"
                         THEN [y EXCEPT !.done = TRUE] ELSE y
           S == work[w].rows
           T == Closed(w) \cup {x}
<1>1. S \subseteq Row
  BY DEF Sane, TypeOK, Session
<1>2. \A y \in Row : /\ close(y).claim = y.claim /\ close(y).outcome = y.outcome
                     /\ y.claim = x.claim /\ y.outcome = "requested" => close(y).done
                     /\ y.claim # x.claim => close(y) = y
  BY DEF Row
<1>3. Closed(w) = {close(y) : y \in S}
  BY DEF Closed
<1>4. ClaimsIn(T) = ClaimsIn(S) /\ VerdictsIn(T) = VerdictsIn(S) \cup {x.claim}
  BY ClosedClaims, AddedRow
<1> HIDE DEF close
<1>5. ASSUME NEW z \in T, z.outcome = "requested"
      PROVE  z.done <=> z.claim \in VerdictsIn(T)
  <2>1. PICK y \in S : z = close(y)
    BY <1>3, <1>5
  <2>2. y \in Row /\ y.outcome = "requested" /\ z.claim = y.claim
    BY <1>1, <1>2, <1>5, <2>1
  <2>3. CASE y.claim = x.claim
    BY <1>2, <1>4, <2>1, <2>2, <2>3
  <2>4. CASE y.claim # x.claim
    BY <1>2, <1>4, <2>1, <2>2, <2>4 DEF Settled
  <2> QED
    BY <2>3, <2>4
<1>6. VerdictsIn(T) \subseteq ClaimsIn(T)
  BY <1>4 DEF Settled
<1> QED
  BY <1>5, <1>6 DEF Settled

(* Every step keeps that; a commit because the claims are apart. *)
LEMMA AnsweredStep == Sane /\ Claims /\ Answered /\ [Next]_vars => Answered'
<1> SUFFICES ASSUME Sane, Claims, Answered, [Next]_vars PROVE Answered'
  OBVIOUS
<1>1. ASSUME NEW w \in Workers, Alone(w), ledger' = ledger, Settled(work'[w].rows)
      PROVE  Answered'
  BY <1>1 DEF Answered, Alone
<1>2. Settled({})
  BY DEF Settled, VerdictsIn, ClaimsIn
<1>3. CASE UNCHANGED vars \/ Tick
  BY <1>3 DEF vars, Tick, Answered
<1>4. ASSUME NEW w \in Workers, NEW noticed \in SUBSET Reasons, Sweep(w, noticed)
      PROVE  Answered'
  BY <1>1, <1>2, <1>4, SweepFacts
<1>5. ASSUME NEW w \in Workers, ReadHistory(w) \/ LockPlan(w) \/ BrainDegraded(w)
      PROVE  Answered'
  BY <1>1, <1>5, HistoryFacts, LockFacts, DegradedFacts DEF Answered
<1>6. ASSUME NEW w \in Workers, Suppress(w)
      PROVE  Answered'
  BY <1>1, <1>6, SuppressFacts, SettledMore DEF Answered
<1>7. ASSUME NEW w \in Workers, Request(w)
      PROVE  Answered'
  <2>1. PICK x \in Row :
          /\ x.outcome = "requested" /\ ~x.done
          /\ \/ work'[w].rows = work[w].rows
             \/ /\ work'[w].rows = work[w].rows \cup {x}
                /\ DedupeKey(x) \notin PendingElsewhere(w)
                /\ \A y \in Visible(w) : DedupeKey(y) # DedupeKey(x)
    BY <1>7, RequestFacts
  <2>2. Settled(work'[w].rows)
    BY <2>1, NewClaim, SettledMore DEF Answered
  <2> QED
    BY <1>1, <1>7, <2>2, RequestFacts
<1>8. ASSUME NEW w \in Workers, NEW after \in Plan, BrainDecides(w, after)
      PROVE  Answered'
  <2>1. PICK x \in Row : /\ x.outcome \in {"confirmed", "revised"}
                         /\ x.claim = ClaimOf(w, work[w].at)
                         /\ work'[w].rows = Closed(w) \cup {x}
    BY <1>8, DecidesFacts
  <2>2. x.claim \in ClaimsIn(work[w].rows)
    BY <1>8, <2>1, DecidesFacts DEF Claims
  <2>3. Settled(work'[w].rows)
    BY <2>1, <2>2, SettledByVerdict DEF Answered
  <2> QED
    BY <1>1, <1>8, <2>3, DecidesFacts
<1>9. ASSUME NEW w \in Workers, Commit(w) \/ Fail(w)
      PROVE  Answered'
  <2>1. Alone(w) /\ work'[w].rows = {}
        /\ (ledger' = ledger \cup work[w].rows \/ ledger' = ledger)
    BY <1>9, EndFacts
  <2>2. Settled(ledger')
    BY <2>1, SettledUnion DEF Answered, Claims
  <2> QED
    BY <1>2, <2>1, <2>2 DEF Answered, Alone
<1> QED
  BY <1>3, <1>4, <1>5, <1>6, <1>7, <1>8, <1>9, Kinds

(* A claim in the ledger is marked answered exactly when the ledger holds a verdict about *)
(* it (ClosedClaimsAreAnswered): _record_cycle writes the verdict and closes the claim,   *)
(* and an outage leaves it open.                                                          *)
THEOREM ClosedIsAnswered == Spec => []ClosedClaimsAreAnswered
<1>1. Init => Claims /\ Answered
  <2> SUFFICES ASSUME Init PROVE Claims /\ Answered
    OBVIOUS
  <2>1. /\ ledger = {} /\ ClaimsIn({}) = {} /\ VerdictsIn({}) = {}
        /\ \A w \in Workers : /\ work[w].rows = {} /\ work[w].paid = {} /\ work[w].admitted = {}
                             /\ work[w].pc = "idle"
    BY AsleepType DEF Init, ClaimsIn, VerdictsIn
  <2> QED
    BY <2>1 DEF Claims, Answered, Settled
<1>2. Answered => ClosedClaimsAreAnswered
  BY DEF Answered, Settled, VerdictsIn, ClosedClaimsAreAnswered
<1> QED
  BY <1>1, <1>2, InitSane, SaneStep, ClaimsStep, AnsweredStep, PTL DEF Spec

-----------------------------------------------------------------------------
(* The detector knows finitely many reasons. *)
LEMMA FiniteReasons == IsFiniteSet(Reasons)
<1>1. Detectable \in Seq(Reasons)
  BY ReasonsAssumption
<1>2. Len(Detectable) \in Nat /\ DOMAIN Detectable = 1..Len(Detectable)
  BY <1>1
<1>3. Detectable \in [1..Len(Detectable) -> Reasons]
  BY <1>1, <1>2
<1>4. \A r \in Reasons : \E i \in 1..Len(Detectable) : Detectable[i] = r
  BY <1>2 DEF Reasons, ToSet
<1>5. Detectable \in Surjection(1..Len(Detectable), Reasons)
  BY <1>3, <1>4 DEF Surjection
<1>6. IsFiniteSet(1..Len(Detectable))
  BY <1>2, FS_Interval
<1> QED
  BY <1>5, <1>6, FS_Surjection

(* When one set grows by at most one element, and only while another loses one, the two *)
(* together do not grow.                                                                *)
LEMMA CountsDown ==
  ASSUME NEW S, IsFiniteSet(S), NEW S2, NEW x, S2 \subseteq S \cup {x},
         NEW M, IsFiniteSet(M), NEW M2, M2 \subseteq M,
         NEW w, S2 \subseteq S \/ w \in M \ M2
  PROVE  Cardinality(S2) + Cardinality(M2) <= Cardinality(S) + Cardinality(M)
<1>1. /\ Cardinality(S) \in Nat /\ Cardinality(M) \in Nat
      /\ IsFiniteSet(M2) /\ Cardinality(M2) \in Nat /\ Cardinality(M2) <= Cardinality(M)
  BY FS_CardinalityType, FS_Subset
<1>2. CASE S2 \subseteq S
  <2>1. IsFiniteSet(S2) /\ Cardinality(S2) \in Nat /\ Cardinality(S2) <= Cardinality(S)
    BY <1>2, FS_CardinalityType, FS_Subset
  <2> QED
    BY <1>1, <2>1
<1>3. CASE w \in M \ M2
  <2>1. /\ IsFiniteSet(S \cup {x}) /\ Cardinality(S \cup {x}) \in Nat
        /\ Cardinality(S \cup {x}) <= Cardinality(S) + 1
    <3>1. /\ IsFiniteSet(S \cup {x})
          /\ Cardinality(S \cup {x}) = IF x \in S THEN Cardinality(S) ELSE Cardinality(S) + 1
      BY FS_AddElement
    <3> QED
      BY <1>1, <3>1
  <2>2. Cardinality(S2) \in Nat /\ Cardinality(S2) <= Cardinality(S) + 1
    <3>1. IsFiniteSet(S2) /\ Cardinality(S2) <= Cardinality(S \cup {x})
      BY <2>1, FS_Subset
    <3>2. Cardinality(S2) \in Nat
      BY <3>1, FS_CardinalityType
    <3> QED
      BY <1>1, <2>1, <3>1, <3>2
  <2>3. IsFiniteSet(M \ {w}) /\ Cardinality(M \ {w}) = Cardinality(M) - 1
    BY <1>3, FS_RemoveElement
  <2>4. M2 \subseteq M \ {w}
    BY <1>3
  <2>5. Cardinality(M2) <= Cardinality(M) - 1
    BY <2>3, <2>4, FS_Subset
  <2> QED
    BY <1>1, <2>2, <2>5
<1> QED
  BY <1>2, <1>3

(* A sweep asks for at most one automatic cycle, for the moment it began, and only with room *)
(* under the cap and outside the cooldown as it read them; while it still has triggers to     *)
(* look at, such a cycle is among those it admitted.                                          *)
Cautious ==
  \A w \in Workers :
    LET asked == Automatic(work[w].rows)
    IN  /\ \A x, y \in asked : x = y
        /\ \A x \in asked : x.raised = work[w].raised
        /\ asked # {} => /\ work[w].pc \in {"admit", "brain"} /\ work[w].used < MaxAutomatic
                         /\ ~WithinCooldown(w)
                         /\ work[w].todo # {} => work[w].admitted \ Exempt # {}
        /\ work[w].pc = "history" => work[w].rows = {}

(* The sweeps that may still add an automatic cycle, as far as the cap and the cooldown go: *)
(* they have read the history, and read it with room.                                        *)
Reading(w) == work[w].pc \in {"admit", "brain"}
Within(S, from) == {x \in Automatic(S) : x.raised \in from..(from + Cooldown - 1)}
MayExceed == {w \in Workers : Reading(w) /\ work[w].used < MaxAutomatic}
MayCrowd(from) ==
  {w \in Workers : Reading(w) /\ ~WithinCooldown(w) /\ work[w].raised \in from..(from + Cooldown - 1)}

(* The cycles of the ledger and the sweeps that may add one stay within the bounds together. *)
Bounded ==
  /\ Cardinality(Automatic(ledger)) + Cardinality(MayExceed) <= MaxAutomatic + Cardinality(Workers) - 1
  /\ \A from \in Nat :
       Cardinality(Within(ledger, from)) + Cardinality(MayCrowd(from)) <= Cardinality(Workers)

(* Automatic cycles of some rows, one more, and two sets of rows together. *)
LEMMA AutomaticRows ==
  ASSUME NEW S, NEW T, NEW x
  PROVE  /\ Automatic({}) = {} /\ Automatic(S) \subseteq S
         /\ Automatic(S \cup T) = Automatic(S) \cup Automatic(T)
         /\ x.outcome # "requested" \/ x.claim.reason \in Exempt =>
              Automatic(S \cup {x}) = Automatic(S)
         /\ Automatic(S \cup {x}) \subseteq Automatic(S) \cup {x}
BY DEF Automatic

(* What one sweep asked for, in one formula. *)
CautiousSweep(s) ==
  LET asked == Automatic(s.rows)
  IN  /\ \A x, y \in asked : x = y
      /\ \A x \in asked : x.raised = s.raised
      /\ asked # {} => /\ s.pc \in {"admit", "brain"} /\ s.used < MaxAutomatic
                       /\ ~(s.last # None /\ s.raised - s.last < Cooldown)
                       /\ s.todo # {} => s.admitted \ Exempt # {}
      /\ s.pc = "history" => s.rows = {}

(* A step of one sweep keeps Cautious when that sweep is cautious again. *)
LEMMA CautiousAlone ==
  ASSUME Cautious, NEW w \in Workers, Alone(w), CautiousSweep(work'[w])
  PROVE  Cautious'
<1>1. \A v \in Workers : CautiousSweep(work[v])
  BY DEF Cautious, CautiousSweep, WithinCooldown
<1>2. \A v \in Workers : CautiousSweep(work'[v])
  BY <1>1 DEF Alone
<1> QED
  BY <1>2 DEF Cautious, CautiousSweep, WithinCooldown

(* A sweep that has written nothing is cautious. *)
LEMMA EmptyIsCautious ==
  ASSUME NEW s, s.rows = {}
  PROVE  CautiousSweep(s)
<1>1. Automatic(s.rows) = {}
  BY AutomaticRows
<1> QED
  BY <1>1 DEF CautiousSweep

(* So is one that writes no automatic cycle and stays within what it read. *)
LEMMA SameIsCautious ==
  ASSUME NEW s, NEW t, CautiousSweep(s),
         Automatic(t.rows) = Automatic(s.rows), t.raised = s.raised, t.used = s.used,
         t.last = s.last, t.pc \in {"admit", "brain"},
         t.todo # {} => s.todo # {} /\ s.admitted \subseteq t.admitted
  PROVE  CautiousSweep(t)
BY DEF CautiousSweep

(* Every step keeps the sweeps cautious: admit_triggers lets an automatic trigger through *)
(* only under the cap, outside the cooldown and when it admitted none before.             *)
LEMMA CautiousStep == Sane /\ Cautious /\ [Next]_vars => Cautious'
<1> SUFFICES ASSUME Sane, Cautious, [Next]_vars PROVE Cautious'
  OBVIOUS
<1>0. \A w \in Workers : CautiousSweep(work[w])
  BY DEF Cautious, CautiousSweep, WithinCooldown
<1>1. CASE UNCHANGED vars
  BY <1>1 DEF vars, Cautious, WithinCooldown
<1>2. ASSUME NEW w \in Workers, NEW noticed \in SUBSET Reasons, Sweep(w, noticed)
      PROVE  Cautious'
  <2>1. Alone(w) /\ work'[w].rows = {}
    BY <1>2, SweepFacts
  <2> QED
    BY <2>1, EmptyIsCautious, CautiousAlone
<1>3. ASSUME NEW w \in Workers, ReadHistory(w)
      PROVE  Cautious'
  <2>1. Alone(w) /\ work[w].pc = "history" /\ work'[w].rows = work[w].rows
    BY <1>3, HistoryFacts
  <2>2. work'[w].rows = {}
    BY <2>1 DEF Cautious
  <2> QED
    BY <2>1, <2>2, EmptyIsCautious, CautiousAlone
<1>4. ASSUME NEW w \in Workers, Suppress(w)
      PROVE  Cautious'
  <2>1. PICK x \in Row :
          /\ x.outcome = "suppressed"
          /\ work'[w].rows = work[w].rows \/ work'[w].rows = work[w].rows \cup {x}
    BY <1>4, SuppressFacts
  <2>2. /\ Alone(w) /\ work'[w].pc = "admit" /\ work'[w].admitted = work[w].admitted
        /\ work'[w].raised = work[w].raised /\ work'[w].used = work[w].used
        /\ work'[w].last = work[w].last /\ work'[w].todo \subseteq work[w].todo
    BY <1>4, SuppressFacts
  <2>3. Automatic(work[w].rows \cup {x}) = Automatic(work[w].rows)
    BY <2>1, AutomaticRows
  <2>4. Automatic(work'[w].rows) = Automatic(work[w].rows)
    BY <2>1, <2>3
  <2>5. CautiousSweep(work'[w])
    BY <1>0, <2>2, <2>4, SameIsCautious
  <2> QED
    BY <2>2, <2>5, CautiousAlone
<1>5. ASSUME NEW w \in Workers, Request(w)
      PROVE  Cautious'
  <2>1. PICK x \in Row, r \in Reasons :
          /\ x.outcome = "requested" /\ x.raised = work[w].raised
          /\ x.claim = ClaimOf(w, r) /\ ~Limited(w, r)
          /\ \/ work'[w].rows = work[w].rows /\ work'[w].admitted = work[w].admitted
             \/ /\ work'[w].rows = work[w].rows \cup {x}
                /\ work'[w].admitted = work[w].admitted \cup {r}
    BY <1>5, RequestFacts
  <2>2. /\ Alone(w) /\ work'[w].pc = "admit" /\ work[w].todo # {}
        /\ work'[w].raised = work[w].raised /\ work'[w].used = work[w].used
        /\ work'[w].last = work[w].last /\ work'[w].todo \subseteq work[w].todo
    BY <1>5, RequestFacts
  <2>3. x.claim.reason = r
    BY <2>1 DEF ClaimOf
  <2>4. CASE Automatic(work'[w].rows) = Automatic(work[w].rows)
    <3>1. work[w].admitted \subseteq work'[w].admitted
      BY <2>1
    <3>2. CautiousSweep(work'[w])
      BY <1>0, <2>2, <2>4, <3>1, SameIsCautious
    <3> QED
      BY <2>2, <3>2, CautiousAlone
  <2>5. CASE Automatic(work'[w].rows) # Automatic(work[w].rows)
    <3>1. /\ work'[w].rows = work[w].rows \cup {x} /\ r \notin Exempt
          /\ work'[w].admitted = work[w].admitted \cup {r}
      BY <2>1, <2>3, <2>5, AutomaticRows
    <3> DEFINE n == Cardinality(work[w].admitted \ Exempt)
    <3>2. ~(work[w].used + n >= MaxAutomatic) /\ ~WithinCooldown(w) /\ ~(n >= 1)
      BY <2>1, <3>1 DEF Limited
    <3>3. work[w].admitted \ Exempt = {} /\ n = 0
      <4>1. work[w].admitted \ Exempt \subseteq Reasons
        BY DEF Sane, TypeOK, Session
      <4>2. IsFiniteSet(work[w].admitted \ Exempt) /\ n \in Nat
        BY <4>1, FiniteReasons, FS_Subset, FS_CardinalityType
      <4>3. n = 0
        BY <3>2, <4>2
      <4> QED
        BY <4>2, <4>3, FS_EmptySet
    <3>4. work[w].used < MaxAutomatic
      <4>1. work[w].used \in Nat
        BY DEF Sane, TypeOK, Session
      <4> HIDE DEF n
      <4> QED
        BY <3>2, <3>3, <4>1, LimitsAssumption
    <3>5. Automatic(work[w].rows) = {}
      BY <2>2, <3>3 DEF Cautious
    <3>6. Automatic(work'[w].rows) \subseteq {x}
      <4>1. Automatic(work[w].rows \cup {x}) \subseteq Automatic(work[w].rows) \cup {x}
        BY AutomaticRows
      <4> QED
        BY <3>1, <3>5, <4>1
    <3>7. ~(work'[w].last # None /\ work'[w].raised - work'[w].last < Cooldown)
      BY <2>2, <3>2 DEF WithinCooldown
    <3>8. CautiousSweep(work'[w])
      BY <2>1, <2>2, <3>1, <3>4, <3>6, <3>7 DEF CautiousSweep
    <3> QED
      BY <2>2, <3>8, CautiousAlone
  <2> QED
    BY <2>4, <2>5
<1>6. ASSUME NEW w \in Workers, LockPlan(w)
      PROVE  Cautious'
  <2>1. /\ Alone(w) /\ work'[w].rows = work[w].rows /\ work'[w].pc = "brain"
        /\ work'[w].raised = work[w].raised /\ work'[w].used = work[w].used
        /\ work'[w].last = work[w].last /\ work'[w].todo = {}
    BY <1>6, LockFacts
  <2>2. CautiousSweep(work'[w])
    BY <1>0, <2>1, SameIsCautious
  <2> QED
    BY <2>1, <2>2, CautiousAlone
<1>7. ASSUME NEW w \in Workers, BrainDegraded(w)
      PROVE  Cautious'
  <2>1. /\ Alone(w) /\ work'[w].rows = work[w].rows /\ work'[w].pc = "admit"
        /\ work'[w].raised = work[w].raised /\ work'[w].used = work[w].used
        /\ work'[w].last = work[w].last /\ work'[w].todo = work[w].todo
        /\ work'[w].admitted = work[w].admitted
    BY <1>7, DegradedFacts
  <2>2. CautiousSweep(work'[w])
    BY <1>0, <2>1, SameIsCautious
  <2> QED
    BY <2>1, <2>2, CautiousAlone
<1>8. ASSUME NEW w \in Workers, NEW after \in Plan, BrainDecides(w, after)
      PROVE  Cautious'
  <2>1. /\ Alone(w) /\ work[w].pc = "brain" /\ work'[w].pc = "admit"
        /\ work'[w].raised = work[w].raised /\ work'[w].used = work[w].used
        /\ work'[w].last = work[w].last /\ work'[w].todo = work[w].todo
        /\ work'[w].admitted = work[w].admitted
    BY <1>8, DecidesFacts
  <2>2. PICK x \in Row : x.outcome # "requested" /\ work'[w].rows = Closed(w) \cup {x}
    BY <1>8, DecidesFacts
  <2>3. Automatic(work'[w].rows) = Automatic(Closed(w))
    BY <2>2, AutomaticRows
  <2>4. \A y \in Automatic(Closed(w)) : \E z \in Automatic(work[w].rows) :
          y.raised = z.raised /\ y = (IF z.claim = ClaimOf(w, work[w].at) /\ z.outcome = "requested"
                                        THEN [z EXCEPT !.done = TRUE] ELSE z)
    <3>1. work[w].rows \subseteq Row
      BY DEF Sane, TypeOK, Session
    <3>2. \A z \in Row : /\ [z EXCEPT !.done = TRUE].raised = z.raised
                         /\ [z EXCEPT !.done = TRUE].claim = z.claim
                         /\ [z EXCEPT !.done = TRUE].outcome = z.outcome
      BY DEF Row
    <3> DEFINE close(z) == IF z.claim = ClaimOf(w, work[w].at) /\ z.outcome = "requested"
                             THEN [z EXCEPT !.done = TRUE] ELSE z
    <3>3. \A z \in work[w].rows : /\ close(z).raised = z.raised /\ close(z).claim = z.claim
                                  /\ close(z).outcome = z.outcome
      BY <3>1, <3>2
    <3>4. Closed(w) = {close(z) : z \in work[w].rows}
      BY DEF Closed
    <3>5. \A y \in Automatic(Closed(w)) : \E z \in Automatic(work[w].rows) :
            y = close(z) /\ y.raised = z.raised
      <4> HIDE DEF close
      <4> QED
        BY <3>3, <3>4 DEF Automatic
    <3> QED
      BY <3>5
  <2>5. /\ \A y, z \in Automatic(work[w].rows) : y = z
        /\ \A y \in Automatic(work[w].rows) : y.raised = work[w].raised
        /\ Automatic(work[w].rows) # {} =>
             /\ work[w].used < MaxAutomatic
             /\ ~(work[w].last # None /\ work[w].raised - work[w].last < Cooldown)
             /\ work[w].todo # {} => work[w].admitted \ Exempt # {}
    BY <1>0 DEF CautiousSweep
  <2>6. /\ \A y, z \in Automatic(work'[w].rows) : y = z
        /\ \A y \in Automatic(work'[w].rows) : y.raised = work'[w].raised
        /\ Automatic(work'[w].rows) # {} => Automatic(work[w].rows) # {}
    <3>1. ASSUME NEW y \in Automatic(work'[w].rows)
          PROVE  y.raised = work'[w].raised /\ Automatic(work[w].rows) # {}
      BY <2>1, <2>3, <2>4, <2>5, <3>1
    <3>2. ASSUME NEW y \in Automatic(work'[w].rows), NEW z \in Automatic(work'[w].rows)
          PROVE  y = z
      <4> DEFINE close(r) == IF r.claim = ClaimOf(w, work[w].at) /\ r.outcome = "requested"
                               THEN [r EXCEPT !.done = TRUE] ELSE r
      <4>1. PICK a \in Automatic(work[w].rows) : y = close(a)
        BY <2>3, <2>4
      <4>2. PICK b \in Automatic(work[w].rows) : z = close(b)
        BY <2>3, <2>4
      <4>3. a = b
        BY <2>5
      <4> QED
        BY <4>1, <4>2, <4>3
    <3> QED
      BY <3>1, <3>2
  <2>7. CautiousSweep(work'[w])
    BY <2>1, <2>5, <2>6 DEF CautiousSweep
  <2> QED
    BY <2>1, <2>7, CautiousAlone
<1>9. ASSUME NEW w \in Workers, Commit(w) \/ Fail(w)
      PROVE  Cautious'
  <2>1. Alone(w) /\ work'[w].rows = {}
    BY <1>9, EndFacts
  <2> QED
    BY <2>1, EmptyIsCautious, CautiousAlone
<1>10. CASE Tick
  BY <1>10 DEF Tick, Cautious, WithinCooldown
<1> QED
  BY <1>1, <1>2, <1>3, <1>4, <1>5, <1>6, <1>7, <1>8, <1>9, <1>10, Kinds

(* What the counts range over is finite. *)
LEMMA CountsAreFinite ==
  ASSUME Sane, NEW from \in Nat
  PROVE  /\ IsFiniteSet(Automatic(ledger)) /\ IsFiniteSet(Within(ledger, from))
         /\ IsFiniteSet(MayExceed) /\ IsFiniteSet(MayCrowd(from))
         /\ MayExceed \subseteq Workers /\ MayCrowd(from) \subseteq Workers
<1>1. Automatic(ledger) \subseteq ledger /\ Within(ledger, from) \subseteq ledger
  BY DEF Automatic, Within
<1>2. MayExceed \subseteq Workers /\ MayCrowd(from) \subseteq Workers
  BY DEF MayExceed, MayCrowd
<1>3. IsFiniteSet(ledger) /\ IsFiniteSet(Workers)
  BY WorkersAssumption DEF Sane
<1> QED
  BY <1>1, <1>2, <1>3, FS_Subset

(* A step that commits nothing and lets no sweep in keeps the bounds. *)
LEMMA NoneJoins ==
  ASSUME Sane, Bounded, ledger' = ledger, MayExceed' \subseteq MayExceed,
         \A from \in Nat : MayCrowd(from)' \subseteq MayCrowd(from)
  PROVE  Bounded'
<1>1. Cardinality(MayExceed') \in Nat /\ Cardinality(MayExceed') <= Cardinality(MayExceed)
  <2>1. IsFiniteSet(MayExceed)
    BY CountsAreFinite, 0 \in Nat
  <2> QED
    BY <2>1, FS_Subset, FS_CardinalityType
<1>2. /\ Cardinality(Automatic(ledger)) \in Nat /\ Cardinality(MayExceed) \in Nat
      /\ Cardinality(Workers) \in Nat
  BY CountsAreFinite, 0 \in Nat, FS_CardinalityType, WorkersAssumption
<1>3. Cardinality(Automatic(ledger')) + Cardinality(MayExceed')
        <= MaxAutomatic + Cardinality(Workers) - 1
  BY <1>1, <1>2, LimitsAssumption DEF Bounded
<1>4. ASSUME NEW from \in Nat
      PROVE  Cardinality(Within(ledger, from)') + Cardinality(MayCrowd(from)')
               <= Cardinality(Workers)
  <2>1. Within(ledger, from)' = Within(ledger, from)
    BY DEF Within, Automatic
  <2>2. IsFiniteSet(MayCrowd(from)) /\ IsFiniteSet(Within(ledger, from))
    BY CountsAreFinite
  <2>3. /\ Cardinality(MayCrowd(from)') \in Nat /\ Cardinality(MayCrowd(from)) \in Nat
        /\ Cardinality(MayCrowd(from)') <= Cardinality(MayCrowd(from))
        /\ Cardinality(Within(ledger, from)) \in Nat
    BY <2>2, FS_Subset, FS_CardinalityType
  <2>4. Cardinality(Within(ledger, from)) + Cardinality(MayCrowd(from)) <= Cardinality(Workers)
    BY DEF Bounded
  <2> QED
    BY <1>2, <2>1, <2>3, <2>4
<1>5. Automatic(ledger)' = Automatic(ledger')
  BY DEF Automatic
<1> QED
  BY <1>3, <1>4, <1>5 DEF Bounded

(* Steps of a sweep that has read the history, and of one that has not, let no sweep in. *)
LEMMA NoneJoinsAlone ==
  ASSUME Sane, Bounded, NEW w \in Workers, Alone(w), ledger' = ledger,
         \/ work'[w].pc \notin {"admit", "brain"}
         \/ /\ work[w].pc \in {"admit", "brain"} /\ work'[w].raised = work[w].raised
            /\ work'[w].used = work[w].used /\ work'[w].last = work[w].last
  PROVE  Bounded'
<1>1. MayExceed' \subseteq MayExceed
  BY DEF MayExceed, Reading, Alone
<1>2. \A from \in Nat : MayCrowd(from)' \subseteq MayCrowd(from)
  BY DEF MayCrowd, Reading, WithinCooldown, Alone
<1> QED
  BY <1>1, <1>2, NoneJoins

(* Whoever reads the history with room below the cap found fewer cycles than the cap; *)
(* whoever reads it outside the cooldown found none in the cooldown that follows.      *)
LEMMA BoundedReads ==
  ASSUME Sane, Cautious, Bounded, NEW w \in Workers, ReadHistory(w)
  PROVE  Bounded'
<1>1. /\ Alone(w) /\ UNCHANGED <<plan, revisions, ledger, lock, now>>
      /\ work[w].pc = "history" /\ work'[w].pc = "admit" /\ work'[w].raised = work[w].raised
      /\ work'[w].used = Cardinality(Automatic(Visible(w)))
      /\ work'[w].last = None => Automatic(Visible(w)) = {}
      /\ \A x \in Automatic(Visible(w)) : x.raised \in Nat /\ x.raised <= work'[w].last
  BY HistoryFacts
<1>2. Automatic(Visible(w)) = Automatic(ledger)
  BY <1>1 DEF Cautious, Visible
<1>3. /\ Cardinality(Automatic(ledger)) \in Nat /\ Cardinality(Workers) \in Nat
      /\ Cardinality(Workers) >= 1
  <2>1. IsFiniteSet(Workers) /\ Workers # {}
    BY WorkersAssumption
  <2>2. Cardinality(Workers) \in Nat /\ Cardinality(Workers) # 0
    BY <2>1, FS_CardinalityType, FS_EmptySet
  <2> QED
    BY <2>2, CountsAreFinite, 0 \in Nat, FS_CardinalityType
<1>4. Automatic(ledger)' = Automatic(ledger)
  BY <1>1 DEF Automatic
<1>5. Cardinality(Automatic(ledger)) + Cardinality(MayExceed')
        <= MaxAutomatic + Cardinality(Workers) - 1
  <2>1. MayExceed' \subseteq Workers
    BY DEF MayExceed
  <2>2. Cardinality(MayExceed') \in Nat /\ Cardinality(MayExceed') <= Cardinality(Workers)
    BY <2>1, WorkersAssumption, FS_Subset, FS_CardinalityType
  <2>3. CASE work'[w].used < MaxAutomatic
    <3>1. Cardinality(Automatic(ledger)) < MaxAutomatic
      BY <1>1, <1>2, <2>3
    <3> QED
      BY <1>3, <2>2, <3>1, LimitsAssumption
  <2>4. CASE ~(work'[w].used < MaxAutomatic)
    <3>1. MayExceed' \subseteq MayExceed
      BY <1>1, <2>4 DEF MayExceed, Reading, Alone
    <3>2. IsFiniteSet(MayExceed)
      BY CountsAreFinite, 0 \in Nat
    <3>3. Cardinality(MayExceed') <= Cardinality(MayExceed) /\ Cardinality(MayExceed) \in Nat
      BY <3>1, <3>2, FS_Subset, FS_CardinalityType
    <3>4. Cardinality(Automatic(ledger)) + Cardinality(MayExceed)
            <= MaxAutomatic + Cardinality(Workers) - 1
      BY DEF Bounded
    <3> QED
      BY <1>3, <2>2, <3>3, <3>4, LimitsAssumption
  <2> QED
    BY <2>3, <2>4
<1>6. ASSUME NEW from \in Nat
      PROVE  Cardinality(Within(ledger, from)') + Cardinality(MayCrowd(from)')
               <= Cardinality(Workers)
  <2>1. Within(ledger, from)' = Within(ledger, from)
    BY <1>1 DEF Within, Automatic
  <2>2. MayCrowd(from)' \subseteq Workers
    BY DEF MayCrowd
  <2>3. Cardinality(MayCrowd(from)') \in Nat /\ Cardinality(MayCrowd(from)') <= Cardinality(Workers)
    BY <2>2, WorkersAssumption, FS_Subset, FS_CardinalityType
  <2>4. CASE w \in MayCrowd(from)'
    <3>1. /\ work[w].raised \in from..(from + Cooldown - 1)
          /\ ~(work'[w].last # None /\ work[w].raised - work'[w].last < Cooldown)
      BY <1>1, <2>4 DEF MayCrowd, WithinCooldown
    <3>2. \A x \in Automatic(ledger) : x.raised \in Nat /\ x.raised < from
      <4>1. CASE work'[w].last = None
        BY <1>1, <1>2, <4>1
      <4>2. CASE work'[w].last # None
        <5>1. work'[w].last \in Nat
          BY <1>1, <4>2 DEF Alone, Session
        <5>2. work[w].raised - work'[w].last >= Cooldown /\ work[w].raised <= from + Cooldown - 1
          BY <3>1, <4>2, <5>1, LimitsAssumption
        <5>3. work'[w].last < from
          BY <3>1, <5>1, <5>2, LimitsAssumption
        <5> QED
          BY <1>1, <1>2, <5>1, <5>3
      <4> QED
        BY <4>1, <4>2
    <3>3. Within(ledger, from) = {}
      BY <3>2, LimitsAssumption DEF Within
    <3> QED
      BY <1>3, <2>1, <2>3, <3>3, FS_EmptySet
  <2>5. CASE w \notin MayCrowd(from)'
    <3>1. MayCrowd(from)' \subseteq MayCrowd(from)
      BY <1>1, <2>5 DEF MayCrowd, Reading, WithinCooldown, Alone
    <3>2. IsFiniteSet(MayCrowd(from)) /\ IsFiniteSet(Within(ledger, from))
      BY CountsAreFinite
    <3>3. /\ Cardinality(MayCrowd(from)') <= Cardinality(MayCrowd(from))
          /\ Cardinality(MayCrowd(from)) \in Nat /\ Cardinality(Within(ledger, from)) \in Nat
      BY <3>1, <3>2, FS_Subset, FS_CardinalityType
    <3>4. Cardinality(Within(ledger, from)) + Cardinality(MayCrowd(from)) <= Cardinality(Workers)
      BY DEF Bounded
    <3> QED
      BY <1>3, <2>1, <2>3, <3>3, <3>4
  <2> QED
    BY <2>4, <2>5
<1> QED
  BY <1>4, <1>5, <1>6 DEF Bounded

(* A sweep that commits adds at most one automatic cycle, and no longer counts among those *)
(* that may add one.                                                                       *)
LEMMA BoundedCommits ==
  ASSUME Sane, Cautious, Bounded, NEW w \in Workers, Commit(w)
  PROVE  Bounded'
<1>1. Alone(w) /\ work'[w].pc = "idle" /\ ledger' = ledger \cup work[w].rows
  BY EndFacts
<1> DEFINE asked == Automatic(work[w].rows)
<1>2. PICK x : asked \subseteq {x}
  BY DEF Cautious
<1>3. /\ \A y \in asked : y.raised = work[w].raised
      /\ asked # {} => /\ work[w].pc \in {"admit", "brain"} /\ work[w].used < MaxAutomatic
                       /\ ~WithinCooldown(w)
  BY DEF Cautious
<1>4. Automatic(ledger)' = Automatic(ledger) \cup asked
  <2>1. Automatic(ledger)' = Automatic(ledger')
    BY DEF Automatic
  <2> QED
    BY <1>1, <2>1, AutomaticRows
<1> HIDE DEF asked
<1>5. /\ MayExceed' \subseteq MayExceed /\ w \notin MayExceed'
      /\ asked # {} => w \in MayExceed
  BY <1>1, <1>3 DEF MayExceed, Reading, Alone
<1>6. IsFiniteSet(Automatic(ledger)) /\ IsFiniteSet(MayExceed)
  BY CountsAreFinite, 0 \in Nat
<1>7. Cardinality(Automatic(ledger)') + Cardinality(MayExceed')
        <= Cardinality(Automatic(ledger)) + Cardinality(MayExceed)
  <2>1. Automatic(ledger)' \subseteq Automatic(ledger) \cup {x}
    BY <1>2, <1>4
  <2>2. Automatic(ledger)' \subseteq Automatic(ledger) \/ w \in MayExceed \ MayExceed'
    BY <1>4, <1>5
  <2> QED
    BY <1>5, <1>6, <2>1, <2>2, CountsDown
<1>8. Cardinality(Automatic(ledger)') + Cardinality(MayExceed')
        <= MaxAutomatic + Cardinality(Workers) - 1
  <2>1. /\ Cardinality(Automatic(ledger)) \in Nat /\ Cardinality(MayExceed) \in Nat
        /\ Cardinality(Workers) \in Nat
    BY <1>6, WorkersAssumption, FS_CardinalityType
  <2>2. Cardinality(Automatic(ledger)') \in Nat /\ Cardinality(MayExceed') \in Nat
    <3>1. IsFiniteSet(Automatic(ledger) \cup {x})
      BY <1>6, FS_AddElement
    <3>2. Automatic(ledger)' \subseteq Automatic(ledger) \cup {x}
      BY <1>2, <1>4
    <3>3. IsFiniteSet(Automatic(ledger)') /\ IsFiniteSet(MayExceed')
      BY <1>5, <1>6, <3>1, <3>2, FS_Subset
    <3> QED
      BY <3>3, FS_CardinalityType
  <2>3. Cardinality(Automatic(ledger)) + Cardinality(MayExceed)
          <= MaxAutomatic + Cardinality(Workers) - 1
    BY DEF Bounded
  <2> QED
    BY <1>7, <2>1, <2>2, <2>3, LimitsAssumption
<1>9. ASSUME NEW from \in Nat
      PROVE  Cardinality(Within(ledger, from)') + Cardinality(MayCrowd(from)')
               <= Cardinality(Workers)
  <2>1. IsFiniteSet(Within(ledger, from)) /\ IsFiniteSet(MayCrowd(from))
    BY CountsAreFinite
  <2>2. Within(ledger, from)' =
          {y \in Automatic(ledger) \cup asked : y.raised \in from..(from + Cooldown - 1)}
    BY <1>4 DEF Within
  <2>3. Within(ledger, from)' \subseteq Within(ledger, from) \cup {x}
    BY <1>2, <2>2 DEF Within
  <2>4. MayCrowd(from)' \subseteq MayCrowd(from) /\ w \notin MayCrowd(from)'
    BY <1>1 DEF MayCrowd, Reading, WithinCooldown, Alone
  <2>5. Within(ledger, from)' \subseteq Within(ledger, from) \/ w \in MayCrowd(from) \ MayCrowd(from)'
    <3>1. CASE \A y \in asked : y.raised \notin from..(from + Cooldown - 1)
      BY <2>2, <3>1 DEF Within
    <3>2. CASE \E y \in asked : y.raised \in from..(from + Cooldown - 1)
      BY <1>3, <2>4, <3>2 DEF MayCrowd, Reading
    <3> QED
      BY <3>1, <3>2
  <2>6. Cardinality(Within(ledger, from)') + Cardinality(MayCrowd(from)')
          <= Cardinality(Within(ledger, from)) + Cardinality(MayCrowd(from))
    BY <2>1, <2>3, <2>4, <2>5, CountsDown
  <2>7. Cardinality(Within(ledger, from)) + Cardinality(MayCrowd(from)) <= Cardinality(Workers)
    BY DEF Bounded
  <2>8. /\ Cardinality(Within(ledger, from)) \in Nat /\ Cardinality(MayCrowd(from)) \in Nat
        /\ Cardinality(Within(ledger, from)') \in Nat /\ Cardinality(MayCrowd(from)') \in Nat
        /\ Cardinality(Workers) \in Nat
    <3>1. IsFiniteSet(Within(ledger, from) \cup {x})
      BY <2>1, FS_AddElement
    <3>2. IsFiniteSet(Within(ledger, from)') /\ IsFiniteSet(MayCrowd(from)')
      BY <2>1, <2>3, <2>4, <3>1, FS_Subset
    <3> QED
      BY <2>1, <3>2, WorkersAssumption, FS_CardinalityType
  <2> QED
    BY <2>6, <2>7, <2>8
<1> QED
  BY <1>8, <1>9 DEF Bounded

(* Every step keeps the cycles of the ledger and the sweeps that may add one within the *)
(* bounds together.                                                                     *)
LEMMA BoundedStep == Sane /\ Cautious /\ Bounded /\ [Next]_vars => Bounded'
<1> SUFFICES ASSUME Sane, Cautious, Bounded, [Next]_vars PROVE Bounded'
  OBVIOUS
<1>1. CASE UNCHANGED vars \/ Tick
  <2>1. ledger' = ledger /\ work' = work
    BY <1>1 DEF vars, Tick
  <2>2. MayExceed' \subseteq MayExceed /\ \A from \in Nat : MayCrowd(from)' \subseteq MayCrowd(from)
    BY <2>1 DEF MayExceed, MayCrowd, Reading, WithinCooldown
  <2> QED
    BY <2>1, <2>2, NoneJoins
<1>2. ASSUME NEW w \in Workers, NEW noticed \in SUBSET Reasons, Sweep(w, noticed)
      PROVE  Bounded'
  <2>1. Alone(w) /\ ledger' = ledger /\ work'[w].pc = "history"
    BY <1>2, SweepFacts
  <2> QED
    BY <2>1, NoneJoinsAlone
<1>3. ASSUME NEW w \in Workers, Suppress(w) \/ Request(w) \/ LockPlan(w) \/ BrainDegraded(w)
      PROVE  Bounded'
  <2>1. /\ Alone(w) /\ ledger' = ledger /\ work[w].pc \in {"admit", "brain"}
        /\ work'[w].raised = work[w].raised /\ work'[w].used = work[w].used
        /\ work'[w].last = work[w].last
    <3>1. CASE Suppress(w)
      BY <3>1, SuppressFacts
    <3>2. CASE Request(w)
      BY <3>2, RequestFacts
    <3>3. CASE LockPlan(w)
      BY <3>3, LockFacts
    <3>4. CASE BrainDegraded(w)
      BY <3>4, DegradedFacts
    <3> QED
      BY <1>3, <3>1, <3>2, <3>3, <3>4
  <2> QED
    BY <2>1, NoneJoinsAlone
<1>4. ASSUME NEW w \in Workers, NEW after \in Plan, BrainDecides(w, after)
      PROVE  Bounded'
  <2>1. /\ Alone(w) /\ ledger' = ledger /\ work[w].pc \in {"admit", "brain"}
        /\ work'[w].raised = work[w].raised /\ work'[w].used = work[w].used
        /\ work'[w].last = work[w].last
    BY <1>4, DecidesFacts
  <2> QED
    BY <2>1, NoneJoinsAlone
<1>5. ASSUME NEW w \in Workers, Fail(w)
      PROVE  Bounded'
  <2>1. Alone(w) /\ ledger' = ledger /\ work'[w].pc = "idle"
    BY <1>5, EndFacts DEF Fail
  <2> QED
    BY <2>1, NoneJoinsAlone
<1> QED
  BY <1>1, <1>2, <1>3, <1>4, <1>5, BoundedReads, BoundedCommits, Kinds

(* In an empty ledger, with no sweep under way, the bounds hold. *)
LEMMA InitBounded == Init => Cautious /\ Bounded
<1> SUFFICES ASSUME Init PROVE Cautious /\ Bounded
  OBVIOUS
<1>1. /\ ledger = {}
      /\ \A w \in Workers : work[w].pc = "idle" /\ work[w].rows = {}
  BY AsleepType DEF Init
<1>2. Cautious
  <2>1. \A w \in Workers : CautiousSweep(work[w])
    BY <1>1, EmptyIsCautious
  <2> QED
    BY <2>1 DEF Cautious, CautiousSweep, WithinCooldown
<1>3. /\ Automatic(ledger) = {} /\ \A from \in Nat : Within(ledger, from) = {}
      /\ MayExceed = {} /\ \A from \in Nat : MayCrowd(from) = {}
  BY <1>1 DEF Automatic, Within, MayExceed, MayCrowd, Reading
<1>4. Cardinality(Workers) \in Nat /\ Cardinality(Workers) # 0
  BY WorkersAssumption, FS_CardinalityType, FS_EmptySet
<1>5. Cardinality({}) = 0
  BY FS_EmptySet
<1> QED
  <2> DEFINE n == Cardinality(Workers)
  <2> HIDE DEF n
  <2>1. 0 + 0 <= MaxAutomatic + n - 1 /\ 0 + 0 <= n
    BY <1>4, LimitsAssumption DEF n
  <2> QED
    BY <1>2, <1>3, <1>5, <2>1 DEF Bounded, n

(* However sweeps overlap, fail and are rolled back, the ledger holds at most one cycle  *)
(* above the cap per further worker, and at most one per worker in any cooldown          *)
(* (AutomaticCyclesAreBounded): admit_triggers reads the committed rows and decides later *)
(* on what it read, yet admits one automatic trigger per sweep.                          *)
THEOREM AutomaticStaysBounded == Spec => []AutomaticCyclesAreBounded
<1>1. Sane /\ Bounded => AutomaticCyclesAreBounded
  <2> SUFFICES ASSUME Sane, Bounded PROVE AutomaticCyclesAreBounded
    OBVIOUS
  <2>1. /\ Cardinality(Automatic(ledger)) \in Nat /\ Cardinality(MayExceed) \in Nat
        /\ Cardinality(Workers) \in Nat
    BY CountsAreFinite, 0 \in Nat, WorkersAssumption, FS_CardinalityType
  <2>2. Cardinality(Automatic(ledger)) <= MaxAutomatic + Cardinality(Workers) - 1
    BY <2>1, LimitsAssumption DEF Bounded
  <2>3. ASSUME NEW a \in Automatic(ledger)
        PROVE  Cardinality({b \in Automatic(ledger) : b.raised \in a.raised..(a.raised + Cooldown - 1)})
                 <= Cardinality(Workers)
    <3>1. a.raised \in Nat
      BY DEF Automatic, Sane, TypeOK, Row
    <3>2. IsFiniteSet(Within(ledger, a.raised)) /\ IsFiniteSet(MayCrowd(a.raised))
      BY <3>1, CountsAreFinite
    <3>3. /\ Cardinality(Within(ledger, a.raised)) \in Nat
          /\ Cardinality(MayCrowd(a.raised)) \in Nat
      BY <3>2, FS_CardinalityType
    <3>4. Cardinality(Within(ledger, a.raised)) + Cardinality(MayCrowd(a.raised))
            <= Cardinality(Workers)
      BY <3>1 DEF Bounded
    <3>5. Cardinality(Within(ledger, a.raised)) <= Cardinality(Workers)
      BY <2>1, <3>3, <3>4
    <3> QED
      BY <3>5 DEF Within
  <2> QED
    BY <2>2, <2>3 DEF AutomaticCyclesAreBounded
<1> QED
  BY <1>1, InitSane, SaneStep, InitBounded, CautiousStep, BoundedStep, PTL DEF Spec
===============================================================================
