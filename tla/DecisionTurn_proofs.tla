------------------------- MODULE DecisionTurn_proofs -------------------------
(***************************************************************************)
(* Theorems about one analysis, for every set of readings, plans, tool     *)
(* calls and errors and every bound of the loops: a run implements the     *)
(* promise of Decision, costs a bounded number of completions, and sends   *)
(* no conversation in which a call lacks its result.                       *)
(***************************************************************************)
EXTENDS DecisionTurn, SequenceTheorems, WellFoundedInduction, TLAPS

(* Min of a set of positions is one of them. *)
LEMMA LeastIsMember ==
  ASSUME NEW S, S \subseteq 1..7, S # {}
  PROVE  Min(S) \in S
<1>1. \E x \in S : \A y \in S : x <= y
  <2>1. CASE 1 \in S
    BY <2>1
  <2>2. CASE 1 \notin S /\ 2 \in S
    BY <2>2
  <2>3. CASE 1 \notin S /\ 2 \notin S /\ 3 \in S
    BY <2>3
  <2>4. CASE 1 \notin S /\ 2 \notin S /\ 3 \notin S /\ 4 \in S
    BY <2>4
  <2>5. CASE 1 \notin S /\ 2 \notin S /\ 3 \notin S /\ 4 \notin S /\ 5 \in S
    BY <2>5
  <2>6. CASE 1 \notin S /\ 2 \notin S /\ 3 \notin S /\ 4 \notin S /\ 5 \notin S /\ 6 \in S
    BY <2>6
  <2>7. CASE S = {7}
    BY <2>7
  <2>8. CASE S \cap 1..6 = {}
    <3>1. \A x \in S : x = 7
      BY <2>8
    <3> QED
      BY <3>1, <2>7
  <2> QED
    BY <2>1, <2>2, <2>3, <2>4, <2>5, <2>6, <2>8
<1> QED
  BY <1>1 DEF Min

(* The evidence gate refuses for the session or for the age of the candles. *)
LEMMA EvidenceFacts ==
  ASSUME NEW m
  PROVE  /\ "session" \in m.missing => EvidenceReason(m) \in {"EVIDENCE_TRADING_SESSION", "EVIDENCE_LIVE_PRICE"}
         /\ EvidenceReason(m) = "EVIDENCE_TRADING_SESSION" => "session" \in m.missing
         /\ EvidenceReason(m) = "EVIDENCE_LIVE_PRICE" => Stale(m)
         /\ Stale(m) => EvidenceReason(m) # "none"
         /\ EvidenceReason(m) \in {"none", "EVIDENCE_TRADING_SESSION", "EVIDENCE_LIVE_PRICE"}
<1>1. /\ Evidence(m)[1].name = "EVIDENCE_TRADING_SESSION" /\ Evidence(m)[1].blocking
      /\ Evidence(m)[1].failed <=> "session" \in m.missing
      /\ ~Evidence(m)[2].blocking
      /\ Evidence(m)[3].name = "EVIDENCE_LIVE_PRICE" /\ Evidence(m)[3].blocking
      /\ Evidence(m)[3].failed <=> Stale(m)
  BY DEF Evidence, Check
<1>2. /\ Blocking(m) \subseteq {1, 3}
      /\ 1 \in Blocking(m) <=> "session" \in m.missing
      /\ 3 \in Blocking(m) <=> Stale(m)
  BY <1>1 DEF Blocking
<1>3. Blocking(m) # {} => Min(Blocking(m)) \in Blocking(m)
  BY <1>2, LeastIsMember
<1> QED
  BY <1>1, <1>2, <1>3 DEF EvidenceReason

(* The gates refuse a run exactly when a reading is missing, under the name of one that *)
(* is.                                                                                  *)
LEMMA FirstOfTheMissing ==
  ASSUME NEW m \in Reading, "candles" \notin m.missing
  PROVE  /\ FirstMissing(m) = "none" <=> MissingIn(m) = {}
         /\ FirstMissing(m) # "none" => FirstMissing(m) \in MissingIn(m)
<1> DEFINE gates == <<<<"candles", "NO_CANDLES">>, <<"engines", "ENGINE_UNAVAILABLE">>,
                      <<"frame", "NO_VIABLE_TIMEFRAME">>, <<"cost", "PLAN_NOT_VIABLE">>,
                      <<"evidence", EvidenceReason(m)>>, <<"prompt", "PROMPT_UNAVAILABLE">>,
                      <<"provider", "LLM_UNAVAILABLE">>>>
           shut == {i \in 1..7 : \/ gates[i][1] \in m.missing
                                 \/ gates[i][1] = "evidence" /\ gates[i][2] # "none"}
<1>1. FirstMissing(m) = IF shut = {} THEN "none" ELSE gates[Min(shut)][2]
  BY DEF FirstMissing
<1>2. m.missing \subseteq {"engines", "frame", "cost", "session", "prompt", "provider"}
  BY DEF Reading
<1>3. /\ shut \subseteq 2..7
      /\ 2 \in shut <=> "engines" \in m.missing
      /\ 3 \in shut <=> "frame" \in m.missing
      /\ 4 \in shut <=> "cost" \in m.missing
      /\ 5 \in shut <=> EvidenceReason(m) # "none"
      /\ 6 \in shut <=> "prompt" \in m.missing
      /\ 7 \in shut <=> "provider" \in m.missing
  BY <1>2
<1>4. \A i \in shut : gates[i][2] # "none" /\ gates[i][2] \in MissingIn(m)
  <2> SUFFICES ASSUME NEW i \in shut
               PROVE  gates[i][2] # "none" /\ gates[i][2] \in MissingIn(m)
    OBVIOUS
  <2>1. CASE i = 5
    BY <1>3, <2>1, EvidenceFacts DEF MissingIn, NameOf
  <2>2. CASE i # 5
    BY <1>3, <2>2 DEF MissingIn, NameOf
  <2> QED
    BY <2>1, <2>2
<1>5. MissingIn(m) # {} => shut # {}
  BY <1>2, <1>3, EvidenceFacts DEF MissingIn
<1>6. shut # {} => Min(shut) \in shut
  BY <1>3, LeastIsMember
<1> HIDE DEF gates, shut
<1>7. CASE shut = {}
  BY <1>1, <1>5, <1>7
<1>8. CASE shut # {}
  BY <1>1, <1>4, <1>6, <1>8
<1> QED
  BY <1>7, <1>8

(* Why a run with every reading can still be refused. *)
Troubles == {DegradedReason[k] : k \in DOMAIN DegradedReason}
              \cup {"PLAN_NOT_VIABLE", "ADVERSARIAL_UNAVAILABLE"}

(* What a run has concluded, at each stage. *)
TurnInv ==
  /\ market \in Markets
  /\ pc \in {"gates", "waiting", "review", "done"}
  /\ pc \in {"gates", "waiting"} => decision = Undecided
  /\ pc = "waiting" => FirstMissing(market) = "none"
  /\ pc = "review" =>
       \/ /\ FirstMissing(market) # "none" /\ decision = Refused(FirstMissing(market))
       \/ /\ FirstMissing(market) = "none"
          /\ \/ \E reason \in Troubles : decision = Refused(reason)
             \/ \E plan \in Shapes : Sound(plan, market) /\ decision = Completed(plan)

(* Every failure of a provider and every exhausted repair has a reason of its own. *)
LEMMA Untroubled ==
  /\ \A code : DegradedReason[Kind(code)] \in Troubles
  /\ \A why : DegradedReason[ExhaustedKind(why)] \in Troubles
<1>1. \A code : Kind(code) \in DOMAIN DegradedReason
  BY DEF Kind, KindByCode, DegradedReason
<1>2. \A why : ExhaustedKind(why) \in DOMAIN DegradedReason
  BY DEF ExhaustedKind, DegradedReason
<1> QED
  BY <1>1, <1>2 DEF Troubles

(* A run that is refused while it waits. *)
LEMMA Refuses ==
  ASSUME TurnInv, pc = "waiting", NEW reason \in Troubles, Settle(Refused(reason))
  PROVE  TurnInv'
BY DEF TurnInv, Settle

(* A reply that is put before the model again, or ends the run. *)
LEMMA Repairs ==
  ASSUME TurnInv, pc = "waiting", NEW why, Repair(why)
  PROVE  TurnInv'
<1>1. CASE attempt <= MaxRepairs
  BY <1>1 DEF TurnInv, Repair
<1>2. CASE ~(attempt <= MaxRepairs)
  BY <1>2, Refuses, Untroubled DEF Repair
<1> QED
  BY <1>1, <1>2

(* The stages of a run are inductive. *)
LEMMA TurnInvHolds ==
  /\ Init => TurnInv
  /\ TurnInv /\ [Next]_vars => TurnInv'
<1>1. Init => TurnInv
  BY DEF Init, TurnInv
<1> SUFFICES ASSUME TurnInv, [Next]_vars PROVE TurnInv'
  BY <1>1
<1>3. CASE PassGates
  <2>1. CASE FirstMissing(market) # "none"
    BY <1>3, <2>1 DEF PassGates, TurnInv, Settle
  <2>2. CASE FirstMissing(market) = "none"
    BY <1>3, <2>2 DEF PassGates, TurnInv
  <2> QED
    BY <2>1, <2>2
<1>4. ASSUME NEW error \in Errors, ProviderFails(error) PROVE TurnInv'
  <2>1. CASE Retryable(error) /\ tries < MaxRetries
    BY <1>4, <2>1 DEF ProviderFails, TurnInv
  <2>2. CASE ~(Retryable(error) /\ tries < MaxRetries)
    BY <1>4, <2>2, Refuses, Untroubled DEF ProviderFails
  <2> QED
    BY <2>1, <2>2
<1>5. ASSUME NEW tools \in Requests, UseTools(tools) PROVE TurnInv'
  BY <1>5 DEF UseTools, TurnInv
<1>6. CASE RepliesText
  BY <1>6, Repairs DEF RepliesText
<1>7. ASSUME NEW plan \in Shapes, RepliesPlan(plan) PROVE TurnInv'
  <2>1. CASE ~Valid(plan) \/ ~Grounded(plan, market)
    BY <1>7, <2>1, Repairs DEF RepliesPlan
  <2>2. CASE Valid(plan) /\ Grounded(plan, market) /\ ~plan.viable
    BY <1>7, <2>2, Refuses DEF RepliesPlan, Priced, Troubles
  <2>3. CASE Valid(plan) /\ Grounded(plan, market) /\ plan.viable
    <3>1. Settle(Completed(plan)) /\ Sound(plan, market) /\ pc = "waiting"
      BY <1>7, <2>3 DEF RepliesPlan, Priced, Sound
    <3> QED
      BY <3>1 DEF Settle, TurnInv, Sound, Valid, Grounded
  <2> QED
    BY <2>1, <2>2, <2>3
<1>8. CASE Review
  BY <1>8 DEF Review, TurnInv
<1>9. CASE UNCHANGED vars
  BY <1>9 DEF vars, TurnInv, Sound, Valid, Grounded
<1> QED
  BY <1>3, <1>4, <1>5, <1>6, <1>7, <1>8, <1>9 DEF Next

(* The review is the step that gives the verdict, and one that Decision allows. *)
LEMMA ReviewKeepsThePromise ==
  ASSUME TurnInv, Review, market \in Reading, "candles" \notin market.missing
  PROVE  Promise!Next
<1>1. /\ pc = "review" /\ pc' = "done" /\ UNCHANGED market
      /\ decision' = IF decision.kind = "refused" THEN decision
                     ELSE IF ~market.reviewable THEN Refused("ADVERSARIAL_UNAVAILABLE")
                     ELSE Published(decision.plan, StatusOf(decision.plan, market))
  BY DEF Review
<1>2. CASE FirstMissing(market) # "none"
  <2>1. decision' = Refused(FirstMissing(market)) /\ FirstMissing(market) \in MissingIn(market)
    BY <1>1, <1>2, FirstOfTheMissing DEF TurnInv, Refused
  <2> QED
    BY <1>1, <2>1 DEF Promise!Next, Promise!Refuse, Promise!Refused, Refused, Promise!Undecided, Undecided
<1>3. CASE FirstMissing(market) = "none"
  <2>1. MissingIn(market) = {}
    BY <1>3, FirstOfTheMissing
  <2>2. ASSUME NEW reason \in Troubles, decision' = Refused(reason)
        PROVE  Promise!Next
    BY <1>1, <2>1, <2>2 DEF Promise!Next, Promise!Refuse, Promise!Refused, Refused,
                            Promise!Undecided, Undecided, Troubles
  <2>3. CASE \E reason \in Troubles : decision = Refused(reason)
    BY <1>1, <2>2, <2>3 DEF Refused
  <2>4. ASSUME NEW plan \in Shapes, Sound(plan, market), decision = Completed(plan)
        PROVE  Promise!Next
    <3>1. CASE ~market.reviewable
      BY <1>1, <2>2, <2>4, <3>1 DEF Completed, Troubles
    <3>2. CASE market.reviewable
      <4>1. decision' = Published(plan, StatusOf(plan, market))
        BY <1>1, <2>4, <3>2 DEF Completed
      <4> QED
        BY <1>1, <2>1, <2>4, <4>1 DEF Promise!Next, Promise!Publish, Promise!Published, Published,
                                     Promise!Undecided, Undecided
    <3> QED
      BY <3>1, <3>2
  <2> QED
    BY <1>1, <1>3, <2>3, <2>4 DEF TurnInv
<1> QED
  BY <1>2, <1>3

(* For series that are not empty (an empty one fails the request instead of refusing it), *)
(* a run implements Decision: the first verdict is the only one, a missing reading        *)
(* refuses the run under its own name, and a published plan is valid, grounded and        *)
(* viable. That a verdict is given is liveness, and is left to the run.                   *)
THEOREM TurnImplementsDecision ==
  ASSUME \A m \in Markets : "candles" \notin m.missing
  PROVE  Spec => Promise!Init /\ [][Promise!Next]_(Promise!vars)
<1>1. Init => Promise!Init
  BY DEF Init, Promise!Init, Promise!Undecided, Undecided
<1>2. TurnInv /\ [Next]_vars => [Promise!Next]_(Promise!vars)
  <2> SUFFICES ASSUME TurnInv, [Next]_vars, ~Review PROVE UNCHANGED Promise!vars
    BY ReviewKeepsThePromise, ReadingsAssumption DEF TurnInv
  <2> USE DEF Promise!vars
  <2>1. CASE PassGates
    BY <2>1 DEF PassGates, Settle
  <2>2. ASSUME NEW error \in Errors, ProviderFails(error) PROVE UNCHANGED Promise!vars
    BY <2>2 DEF ProviderFails, Settle
  <2>3. ASSUME NEW tools \in Requests, UseTools(tools) PROVE UNCHANGED Promise!vars
    BY <2>3 DEF UseTools
  <2>4. ASSUME NEW why, pc = "waiting", Repair(why) PROVE UNCHANGED Promise!vars
    BY <2>4 DEF Repair, Settle
  <2>5. CASE RepliesText
    BY <2>4, <2>5 DEF RepliesText
  <2>6. ASSUME NEW plan \in Shapes, RepliesPlan(plan) PROVE UNCHANGED Promise!vars
    BY <2>4, <2>6 DEF RepliesPlan, Settle
  <2>7. CASE UNCHANGED vars
    BY <2>7 DEF vars
  <2> QED
    BY <2>1, <2>2, <2>3, <2>5, <2>6, <2>7 DEF Next
<1> QED
  BY <1>1, <1>2, TurnInvHolds, PTL DEF Spec

(* The completions an attempt may cost. *)
Room == MaxToolIterations + 1

(* An attempt pays for its browse rounds and for one answer. *)
CostInv ==
  /\ pc \in {"gates", "waiting", "review", "done"}
  /\ attempt \in 0..MaxRepairs + 1 /\ iteration \in 0..MaxToolIterations
  /\ tries \in 0..MaxRetries /\ sent \in Nat
  /\ pc = "gates" => attempt = 0 /\ sent = 0
  /\ pc = "waiting" => attempt > 0 /\ sent <= (attempt - 1) * Room + iteration + 1
  /\ sent <= attempt * Room

(* What multiplying by the room of an attempt means. *)
LEMMA Rows ==
  ASSUME NEW n \in Nat
  PROVE  Room \in Nat \ {0} /\ (n + 1) * Room = n * Room + Room /\ n * Room \in Nat
BY BoundsAssumption, SMTT(20) DEF Room

(* A run that ends asks for nothing more. *)
LEMMA SettlesInBounds ==
  ASSUME CostInv, NEW d, Settle(d)
  PROVE  CostInv'
BY DEF CostInv, Settle

(* A repair opens an attempt of its own. *)
LEMMA RepairsInBounds ==
  ASSUME CostInv, pc = "waiting", NEW why, Repair(why)
  PROVE  CostInv'
<1>1. CASE attempt <= MaxRepairs
  <2>1. attempt' = attempt + 1 /\ iteration' = 0 /\ tries' = 0 /\ sent' = sent + 1 /\ UNCHANGED pc
    BY <1>1 DEF Repair, StartLoop
  <2>2. attempt * Room \in Nat /\ (attempt + 1) * Room = attempt * Room + Room /\ Room \in Nat \ {0}
    BY Rows DEF CostInv
  <2>3. (attempt' - 1) * Room = attempt * Room
    BY <2>1 DEF CostInv
  <2> HIDE DEF Room
  <2> QED
    BY <1>1, <2>1, <2>2, <2>3, BoundsAssumption DEF CostInv
<1>2. CASE ~(attempt <= MaxRepairs)
  BY <1>2, SettlesInBounds DEF Repair
<1> QED
  BY <1>1, <1>2

(* The cost of a run is inductive. *)
LEMMA CostInvHolds ==
  /\ Init => CostInv
  /\ CostInv /\ [Next]_vars => CostInv'
<1>1. Init => CostInv
  BY BoundsAssumption, Rows DEF Init, CostInv
<1> SUFFICES ASSUME CostInv, [Next]_vars PROVE CostInv'
  BY <1>1
<1>2. CASE PassGates
  <2>1. CASE FirstMissing(market) # "none"
    BY <1>2, <2>1, SettlesInBounds DEF PassGates
  <2>2. CASE FirstMissing(market) = "none"
    <3>1. attempt' = 1 /\ pc' = "waiting" /\ iteration' = 0 /\ tries' = 0 /\ sent' = 1
      BY <1>2, <2>2 DEF PassGates, StartLoop, CostInv
    <3>2. 1 * Room = Room /\ 0 * Room = 0 /\ Room \in Nat \ {0}
      BY Rows
    <3> QED
      BY <3>1, <3>2, BoundsAssumption DEF CostInv
  <2> QED
    BY <2>1, <2>2
<1>3. ASSUME NEW error \in Errors, ProviderFails(error) PROVE CostInv'
  <2>1. CASE Retryable(error) /\ tries < MaxRetries
    BY <1>3, <2>1, BoundsAssumption DEF ProviderFails, CostInv
  <2>2. CASE ~(Retryable(error) /\ tries < MaxRetries)
    BY <1>3, <2>2, SettlesInBounds DEF ProviderFails
  <2> QED
    BY <2>1, <2>2
<1>4. ASSUME NEW tools \in Requests, UseTools(tools) PROVE CostInv'
  <2>1. /\ pc = "waiting" /\ iteration < MaxToolIterations
        /\ iteration' = iteration + 1 /\ tries' = 0 /\ sent' = sent + 1 /\ UNCHANGED <<pc, attempt>>
    BY <1>4 DEF UseTools, Browsing
  <2>2. PICK n \in Nat : attempt = n + 1
    BY <2>1 DEF CostInv
  <2>3. n * Room \in Nat /\ (n + 1) * Room = n * Room + Room
    BY Rows
  <2>4. sent <= n * Room + iteration + 1
    BY <2>1, <2>2 DEF CostInv
  <2>5. sent' <= n * Room + iteration' + 1 /\ sent' <= n * Room + Room
    BY <2>1, <2>3, <2>4, BoundsAssumption DEF CostInv, Room
  <2> QED
    BY <2>1, <2>2, <2>3, <2>5, BoundsAssumption DEF CostInv
<1>5. CASE RepliesText
  BY <1>5, RepairsInBounds DEF RepliesText
<1>6. ASSUME NEW plan \in Shapes, RepliesPlan(plan) PROVE CostInv'
  BY <1>6, RepairsInBounds, SettlesInBounds DEF RepliesPlan
<1>7. CASE Review
  BY <1>7 DEF Review, CostInv
<1>8. CASE UNCHANGED vars
  BY <1>8 DEF vars, CostInv
<1> QED
  BY <1>2, <1>3, <1>4, <1>5, <1>6, <1>7, <1>8 DEF Next

(* Whatever the model asks for and however often it is repaired, a run costs one *)
(* completion per browse round and one to answer, for each attempt.              *)
THEOREM CompletionsStayBounded == Spec => []CompletionsAreBounded
<1>1. CostInv => CompletionsAreBounded
  BY DEF CostInv, CompletionsAreBounded, Room
<1> QED
  BY <1>1, CostInvHolds, PTL DEF Spec

(* The turns of a conversation. *)
Message == [role : {"system", "user", "assistant", "result"}, calls : Seq(Nat \X Nat)]

(* A conversation without calls and results. *)
Plain(s) == \A i \in 1..Len(s) : s[i].calls = <<>> /\ s[i].role # "result"

(* The conversation carried from attempt to attempt has no calls, and the one of the loop *)
(* answers all of them, as it stands and as it is sent.                                   *)
PairsInv ==
  /\ talk \in Seq(Message) /\ loop \in Seq(Message)
  /\ iteration \in Nat
  /\ Plain(talk)
  /\ AnsweredInOrder(loop) /\ Paired(Wire(loop))

(* Numbers that are not none have a least one. *)
LEMMA SomeLeast ==
  ASSUME NEW S, S \subseteq Nat, S # {}
  PROVE  \E n \in S : \A m \in S : n <= m
<1>1. PICK n \in S : \A m \in S : ~(<<m, n>> \in OpToRel(<, Nat))
  BY WFMin, NatLessThanWellFounded
<1>2. \A m \in S : ~(m < n)
  BY <1>1 DEF OpToRel
<1> QED
  BY <1>2

(* A set that holds 0 and the successor of each of its numbers below a bound holds all of *)
(* them up to the bound.                                                                   *)
LEMMA Climbing ==
  ASSUME NEW N \in Nat, NEW S, 0 \in S, \A n \in 1..N : n - 1 \in S => n \in S
  PROVE  \A n \in 0..N : n \in S
<1> DEFINE missing == {n \in 0..N : n \notin S}
<1> SUFFICES ASSUME missing # {} PROVE FALSE
  OBVIOUS
<1>1. missing \subseteq Nat
  OBVIOUS
<1>2. PICK n \in missing : \A m \in missing : n <= m
  <2> HIDE DEF missing
  <2> QED
    BY <1>1, SomeLeast
<1>3. n \in 1..N /\ n \notin S
  OBVIOUS
<1>4. n - 1 \in 0..N /\ ~(n <= n - 1)
  BY <1>3
<1> QED
  BY <1>2, <1>3, <1>4

(* A function over 0..n whose values are computed one from the one before. *)
Unfolds(f, n, T, base, Step) ==
  /\ f \in [0..n -> T] /\ f[0] = base
  /\ \A k \in 1..n : f[k] = Step[k][f[k - 1]]

(* There is one, so that the recursive function of a conversation is one. *)
LEMMA Unfolding ==
  ASSUME NEW N \in Nat, NEW T, NEW base \in T, NEW Step \in [1..N -> [T -> T]]
  PROVE  \E f : Unfolds(f, N, T, base, Step)
<1> DEFINE S == {n \in 0..N : \E f : Unfolds(f, n, T, base, Step)}
<1>1. 0 \in S
  <2>1. Unfolds([k \in 0..0 |-> base], 0, T, base, Step) /\ 0 \in 0..N
    BY DEF Unfolds
  <2> QED
    BY <2>1
<1>2. ASSUME NEW n \in 1..N, n - 1 \in S
      PROVE  n \in S
  <2>1. PICK f : Unfolds(f, n - 1, T, base, Step)
    BY <1>2
  <2> DEFINE g == [k \in 0..n |-> IF k = n THEN Step[n][f[n - 1]] ELSE f[k]]
  <2>2. f[n - 1] \in T /\ Step[n][f[n - 1]] \in T
    BY <2>1 DEF Unfolds
  <2>3. g \in [0..n -> T] /\ g[0] = base
    BY <2>1, <2>2 DEF Unfolds
  <2>4. ASSUME NEW k \in 1..n
        PROVE  g[k] = Step[k][g[k - 1]]
    <3>1. k - 1 \in 0..n /\ k - 1 # n /\ g[k - 1] = f[k - 1]
      OBVIOUS
    <3>2. CASE k = n
      BY <3>1, <3>2
    <3>3. CASE k # n
      <4>1. k \in 1..(n - 1) /\ g[k] = f[k]
        BY <3>3
      <4> QED
        BY <2>1, <3>1, <4>1 DEF Unfolds
    <3> QED
      BY <3>2, <3>3
  <2> HIDE DEF g
  <2>5. Unfolds(g, n, T, base, Step) /\ n \in 0..N
    BY <2>3, <2>4 DEF Unfolds
  <2> QED
    BY <2>5
<1>3. \A n \in 0..N : n \in S
  <2> HIDE DEF S
  <2> QED
    BY <1>1, <1>2, Climbing
<1> QED
  BY <1>3

(* A turn without calls. *)
LEMMA PlainTurns ==
  ASSUME NEW role \in {"system", "user", "assistant"}
  PROVE  Turn(role) \in Message /\ Turn(role).calls = <<>> /\ Len(Turn(role).calls) = 0
         /\ Turn(role).role = role
BY DEF Turn, Message

(* A conversation without calls leaves none unanswered. *)
LEMMA PlainTalkIsAnswered ==
  ASSUME NEW s \in Seq(Message), \A i \in 1..Len(s) : s[i].calls = <<>>
  PROVE  AnsweredInOrder(s)
BY DEF AnsweredInOrder

(* A conversation t is s with a browse round: the calls, a result for each, in their *)
(* order, and perhaps the request to answer.                                           *)
IsRound(s, ids, t) ==
  LET n == Len(s)
      m == Len(ids)
  IN  /\ n \in Nat /\ m \in Nat /\ t \in Seq(Message)
      /\ Len(t) = n + 1 + m \/ Len(t) = n + 1 + m + 1
      /\ \A i \in 1..n : t[i] = s[i]
      /\ t[n + 1] = Calls(ids)
      /\ \A k \in 1..m : t[n + 1 + k] = Result(ids[k])
      /\ Len(t) = n + 1 + m + 1 => t[Len(t)] = Turn("user")

(* A sequence e is d put after c. *)
Joined(c, d, e, T) ==
  /\ e \in Seq(T) /\ Len(e) = Len(c) + Len(d) /\ Len(c) \in Nat /\ Len(d) \in Nat
  /\ \A i \in 1..Len(c) : e[i] = c[i]
  /\ \A i \in 1..Len(d) : e[Len(c) + i] = d[i]

(* Concatenation does that. *)
LEMMA Joining ==
  ASSUME NEW T, NEW c \in Seq(T), NEW d \in Seq(T)
  PROVE  Joined(c, d, c \o d, T)
<1>1. c \o d \in Seq(T) /\ Len(c \o d) = Len(c) + Len(d) /\ Len(c) \in Nat /\ Len(d) \in Nat
  OBVIOUS
<1>2. \A i \in 1..Len(c) + Len(d) : (c \o d)[i] = IF i <= Len(c) THEN c[i] ELSE d[i - Len(c)]
  OBVIOUS
<1>3. ASSUME NEW i \in 1..Len(c) PROVE (c \o d)[i] = c[i]
  BY <1>1, <1>2
<1>4. ASSUME NEW i \in 1..Len(d) PROVE (c \o d)[Len(c) + i] = d[i]
  <2>1. Len(c) + i \in 1..Len(c) + Len(d) /\ Len(c) + i - Len(c) = i /\ ~(Len(c) + i <= Len(c))
    BY <1>1
  <2> QED
    BY <1>2, <2>1
<1> QED
  BY <1>1, <1>3, <1>4 DEF Joined

(* What UseTools adds is such a round. *)
LEMMA RoundIs ==
  ASSUME NEW s \in Seq(Message),
         NEW ids \in Seq(Nat \X Nat), NEW tail \in Seq(Message),
         Len(tail) = 0 \/ (Len(tail) = 1 /\ tail[1] = Turn("user"))
  PROVE  LET results == [i \in 1..Len(ids) |-> Result(ids[i])]
             t == s \o <<Calls(ids)>> \o results \o tail
         IN  IsRound(s, ids, t)
<1> DEFINE results == [i \in 1..Len(ids) |-> Result(ids[i])]
           n == Len(s)
           m == Len(ids)
           u == s \o <<Calls(ids)>>
           v == u \o results
           t == v \o tail
<1>1. n \in Nat /\ m \in Nat /\ Len(tail) \in 0..1
  OBVIOUS
<1>2. results \in Seq(Message) /\ Len(results) = m
  BY DEF Result, Message
<1>3. Calls(ids) \in Message /\ Calls(ids).calls = ids
  BY DEF Calls, Message
<1>4. /\ u \in Seq(Message) /\ Len(u) = n + 1
      /\ \A i \in 1..n : u[i] = s[i]
      /\ u[n + 1] = Calls(ids)
  BY <1>1, <1>3
<1> HIDE DEF results, u
<1>5. /\ v \in Seq(Message) /\ Len(v) = n + 1 + m
      /\ \A i \in 1..n + 1 : v[i] = u[i]
      /\ \A k \in 1..m : v[n + 1 + k] = results[k]
  <2>1. Joined(u, results, v, Message)
    BY <1>2, <1>4, Joining
  <2> HIDE DEF n, m, v
  <2> QED
    BY <1>2, <1>4, <2>1 DEF Joined
<1> HIDE DEF v
<1>6. /\ t \in Seq(Message) /\ Len(t) = n + 1 + m + Len(tail)
      /\ \A i \in 1..n + 1 + m : t[i] = v[i]
      /\ \A i \in 1..Len(tail) : t[n + 1 + m + i] = tail[i]
  <2>1. Joined(v, tail, t, Message)
    BY <1>5, Joining
  <2> HIDE DEF n, m, t
  <2> QED
    BY <1>5, <2>1 DEF Joined
<1> HIDE DEF t
<1>7. /\ \A i \in 1..n : t[i] = s[i]
      /\ t[n + 1] = Calls(ids)
  <2>1. \A i \in 1..n + 1 : i \in 1..n + 1 + m
    BY <1>1
  <2>2. n + 1 \in 1..n + 1 /\ \A i \in 1..n : i \in 1..n + 1
    BY <1>1
  <2> QED
    BY <1>4, <1>5, <1>6, <2>1, <2>2
<1>8. ASSUME NEW k \in 1..m
      PROVE  t[n + 1 + k] = Result(ids[k])
  <2>1. n + 1 + k \in 1..n + 1 + m
    BY <1>1
  <2>2. t[n + 1 + k] = results[k]
    BY <1>5, <1>6, <2>1
  <2> QED
    BY <2>2 DEF results
<1>9. Len(t) = n + 1 + m + 1 => t[Len(t)] = Turn("user")
  <2> SUFFICES ASSUME Len(t) = n + 1 + m + 1 PROVE t[Len(t)] = Turn("user")
    OBVIOUS
  <2>1. Len(tail) = 1
    <3> HIDE DEF n, m
    <3> QED
      BY <1>1, <1>6
  <2> QED
    BY <1>6, <2>1
<1>10. Len(t) = n + 1 + m \/ Len(t) = n + 1 + m + 1
  <2>1. Len(t) = n + 1 + m + Len(tail)
    BY <1>6
  <2> HIDE DEF n, m
  <2>2. n + 1 + m + 0 = n + 1 + m
    BY <1>1
  <2> QED
    BY <2>1, <2>2
<1>11. IsRound(s, ids, t)
  <2> HIDE DEF n, m
  <2> QED
    BY <1>1, <1>6, <1>7, <1>8, <1>9, <1>10 DEF IsRound, n, m
<1> QED
  BY <1>11 DEF t, v, u, results

(* A browse round leaves no call without its result. *)
LEMMA RoundIsAnswered ==
  ASSUME NEW s \in Seq(Message), AnsweredInOrder(s), NEW ids \in Seq(Nat \X Nat), NEW t,
         IsRound(s, ids, t)
  PROVE  AnsweredInOrder(t)
<1> DEFINE n == Len(s)
           m == Len(ids)
<1>1. /\ n \in Nat /\ m \in Nat /\ t \in Seq(Message)
      /\ Len(t) = n + 1 + m \/ Len(t) = n + 1 + m + 1
      /\ \A i \in 1..n : t[i] = s[i]
      /\ t[n + 1] = Calls(ids)
      /\ \A k \in 1..m : t[n + 1 + k] = Result(ids[k])
      /\ Len(t) = n + 1 + m + 1 => t[Len(t)] = Turn("user")
  BY DEF IsRound
<1>2. Calls(ids).calls = ids
  BY DEF Calls
<1> SUFFICES ASSUME NEW i \in 1..Len(t), t[i].role = "assistant", NEW k \in 1..Len(t[i].calls)
             PROVE  i + k <= Len(t) /\ t[i + k] = Result(t[i].calls[k])
  BY DEF AnsweredInOrder
<1>3. CASE i \in 1..n
  <2>1. t[i] = s[i] /\ s[i] \in Message
    BY <1>1, <1>3
  <2>2. i + k <= n /\ s[i + k] = Result(s[i].calls[k])
    BY <1>3, <2>1 DEF AnsweredInOrder
  <2>3. k \in Nat /\ k >= 1
    BY <2>1 DEF Message
  <2>4. i + k \in 1..n
    BY <1>1, <1>3, <2>2, <2>3
  <2> QED
    BY <1>1, <2>1, <2>2, <2>4
<1>4. CASE i = n + 1
  <2>1. t[i] = Calls(ids) /\ k \in 1..m
    BY <1>1, <1>2, <1>4
  <2>2. t[i + k] = Result(ids[k])
    BY <1>1, <1>4, <2>1
  <2>3. i + k <= Len(t) /\ t[i].calls = ids
    <3>1. k <= m /\ k \in Nat /\ Len(t) >= n + 1 + m
      BY <1>1, <2>1
    <3> HIDE DEF n, m
    <3> QED
      BY <1>1, <1>2, <1>4, <2>1, <3>1
  <2> QED
    BY <2>2, <2>3
<1>5. CASE i \in n + 2..n + 1 + m
  <2> DEFINE j == i - (n + 1)
  <2>1. j \in 1..m /\ i = n + 1 + j
    BY <1>1, <1>5
  <2> HIDE DEF j
  <2>2. t[i] = Result(ids[j])
    BY <1>1, <2>1
  <2> QED
    BY <2>2 DEF Result
<1>6. CASE i = n + 1 + m + 1
  <2>1. t[i] = Turn("user")
    BY <1>1, <1>6
  <2> QED
    BY <2>1, PlainTurns
<1>7. \/ i \in 1..n \/ i = n + 1 \/ i \in n + 2..n + 1 + m \/ i = n + 1 + m + 1
  <2> HIDE DEF n, m
  <2> QED
    BY <1>1
<1> QED
  BY <1>3, <1>4, <1>5, <1>6, <1>7

(* What the turns of a conversation become, one after the other. *)
Unrolled(f, s) ==
  /\ f \in [0..Len(s) -> Seq(Message)] /\ f[0] = <<>>
  /\ \A n \in 1..Len(s) : f[n] = WireTurn(f[n - 1], s[n])

(* A turn that is sent leaves a conversation. *)
LEMMA WireTurnType ==
  ASSUME NEW out \in Seq(Message), NEW t \in Message
  PROVE  WireTurn(out, t) \in Seq(Message)
<1>1. t.calls \in Seq(Nat \X Nat) /\ [role |-> "user", calls |-> t.calls] \in Message
  BY DEF Message
<1>2. Append(out, t) \in Seq(Message) /\ Append(out, [role |-> "user", calls |-> t.calls]) \in Seq(Message)
  BY <1>1
<1>3. ASSUME out # <<>>
      PROVE  [out EXCEPT ![Len(out)].calls = @ \o t.calls] \in Seq(Message)
  <2> DEFINE n == Len(out)
             x == [out[n] EXCEPT !.calls = out[n].calls \o t.calls]
  <2>1. n \in 1..n /\ out[n] \in Message
    BY <1>3
  <2>2. out[n].calls \o t.calls \in Seq(Nat \X Nat)
    BY <1>1, <2>1 DEF Message
  <2>3. x \in Message
    BY <2>1, <2>2 DEF Message
  <2> HIDE DEF x
  <2>4. [out EXCEPT ![n] = x] \in Seq(Message)
    BY <2>1, <2>3
  <2> QED
    BY <2>4 DEF x
<1> QED
  BY <1>2, <1>3 DEF WireTurn

(* A conversation is sent turn by turn. *)
LEMMA WireUnrolls ==
  ASSUME NEW s \in Seq(Message)
  PROVE  \E f : Unrolled(f, s) /\ Wire(s) = f[Len(s)]
<1> DEFINE N == Len(s)
           Is(f) == f = [i \in 0..N |-> IF i = 0 THEN <<>> ELSE WireTurn(f[i - 1], s[i])]
           T == Seq(Message)
           Step == [k \in 1..N |-> [out \in T |-> WireTurn(out, s[k])]]
<1>1. N \in Nat /\ \A k \in 1..N : s[k] \in Message
  OBVIOUS
<1>2. Wire(s) = (CHOOSE f : Is(f))[N]
  BY DEF Wire
<1>3. Step \in [1..N -> [T -> T]]
  <2>1. \A k \in 1..N : \A out \in T : WireTurn(out, s[k]) \in T
    BY <1>1, WireTurnType
  <2> HIDE DEF T, N
  <2> QED
    BY <2>1
<1>4. PICK g : Unfolds(g, N, T, <<>>, Step)
  <2>1. <<>> \in T
    OBVIOUS
  <2> HIDE DEF T, Step, N
  <2> QED
    BY <1>1, <1>3, <2>1, Unfolding
<1> DEFINE h == [i \in 0..N |-> g[i]]
<1>5. ASSUME NEW i \in 0..N
      PROVE  h[i] = IF i = 0 THEN <<>> ELSE WireTurn(h[i - 1], s[i])
  <2> HIDE DEF T, Step
  <2>1. CASE i = 0
    BY <1>4, <2>1 DEF Unfolds
  <2>2. CASE i # 0
    <3>1. i \in 1..N /\ i - 1 \in 0..N
      BY <1>1, <2>2
    <3>2. g[i - 1] \in T /\ g[i] = Step[i][g[i - 1]]
      BY <1>4, <3>1 DEF Unfolds
    <3>3. g[i] = WireTurn(g[i - 1], s[i])
      BY <3>1, <3>2 DEF Step
    <3> QED
      BY <2>2, <3>1, <3>3
  <2> QED
    BY <2>1, <2>2
<1>6. Is(h)
  BY <1>5
<1> DEFINE f == CHOOSE f : Is(f)
<1>7. Is(f)
  <2> HIDE DEF h
  <2> QED
    BY <1>6
<1> HIDE DEF f, h, Step
<1>8. f[0] = <<>> /\ \A n \in 1..N : f[n] = WireTurn(f[n - 1], s[n])
  <2>1. 0 \in 0..N /\ \A n \in 1..N : n \in 0..N /\ n # 0
    BY <1>1
  <2> HIDE DEF N, T
  <2> QED
    BY <1>7, <2>1
<1> DEFINE S == {n \in 0..N : f[n] \in T}
<1>9. \A n \in 0..N : n \in S
  <2>1. 0 \in S
    <3>1. 0 \in 0..N /\ <<>> \in T
      BY <1>1
    <3> HIDE DEF N, T
    <3> QED
      BY <1>8, <3>1
  <2>2. \A n \in 1..N : n - 1 \in S => n \in S
    <3> SUFFICES ASSUME NEW n \in 1..N, n - 1 \in S PROVE n \in S
      OBVIOUS
    <3>1. f[n - 1] \in T /\ s[n] \in Message /\ n \in 0..N
      BY <1>1
    <3>2. WireTurn(f[n - 1], s[n]) \in T
      BY <3>1, WireTurnType
    <3> QED
      BY <1>8, <3>1, <3>2
  <2> HIDE DEF S, N
  <2> QED
    BY <1>1, <2>1, <2>2, Climbing
<1>10. f \in [0..N -> T]
  <2>1. \A n \in 0..N : f[n] \in T
    BY <1>9
  <2> HIDE DEF T, N
  <2> QED
    BY <1>7, <2>1
<1>11. Unrolled(f, s)
  BY <1>8, <1>10 DEF Unrolled
<1> QED
  BY <1>2, <1>11 DEF f

(* What a conversation begins with is sent as if it were all of it. *)
LEMMA WireOfPrefix ==
  ASSUME NEW s \in Seq(Message), NEW t \in Seq(Message), Len(s) <= Len(t),
         \A i \in 1..Len(s) : t[i] = s[i], NEW g, Unrolled(g, t)
  PROVE  g[Len(s)] = Wire(s)
<1>1. PICK f : Unrolled(f, s) /\ Wire(s) = f[Len(s)]
  BY WireUnrolls
<1> DEFINE N == Len(s)
           S == {n \in 0..N : f[n] = g[n]}
<1>2. N \in Nat /\ \A n \in 1..N : n \in 1..Len(t)
  OBVIOUS
<1>3. 0 \in S
  BY <1>1, <1>2 DEF Unrolled
<1>4. \A n \in 1..N : n - 1 \in S => n \in S
  <2> SUFFICES ASSUME NEW n \in 1..N, n - 1 \in S PROVE n \in S
    OBVIOUS
  <2>1. f[n] = WireTurn(f[n - 1], s[n]) /\ g[n] = WireTurn(g[n - 1], t[n])
    BY <1>1, <1>2 DEF Unrolled
  <2>2. f[n - 1] = g[n - 1] /\ t[n] = s[n] /\ n \in 0..N
    OBVIOUS
  <2> QED
    BY <2>1, <2>2
<1>5. \A n \in 0..N : n \in S
  <2> HIDE DEF S, N
  <2> QED
    BY <1>2, <1>3, <1>4, Climbing
<1>6. N \in S
  BY <1>2, <1>5
<1> QED
  BY <1>1, <1>6

(* What is sent of a conversation without calls and results has none. *)
LEMMA PlainWire ==
  ASSUME NEW s \in Seq(Message), Plain(s)
  PROVE  Paired(Wire(s))
<1>1. PICK f : Unrolled(f, s) /\ Wire(s) = f[Len(s)]
  BY WireUnrolls
<1> DEFINE N == Len(s)
           S == {n \in 0..N : \A i \in 1..Len(f[n]) : f[n][i].calls = <<>>}
<1>2. N \in Nat
  OBVIOUS
<1>3. 0 \in S
  BY <1>1, <1>2 DEF Unrolled
<1>4. \A n \in 1..N : n - 1 \in S => n \in S
  <2> SUFFICES ASSUME NEW n \in 1..N, n - 1 \in S PROVE n \in S
    OBVIOUS
  <2>1. f[n] = WireTurn(f[n - 1], s[n]) /\ f[n - 1] \in Seq(Message)
    BY <1>1, <1>2 DEF Unrolled
  <2>2. s[n].calls = <<>> /\ s[n].role # "result" /\ n \in 0..N
    BY DEF Plain
  <2>3. f[n] = f[n - 1] \/ f[n] = Append(f[n - 1], s[n])
    BY <2>1, <2>2 DEF WireTurn
  <2> DEFINE a == f[n - 1]
  <2>4. \A i \in 1..Len(a) : a[i].calls = <<>>
    OBVIOUS
  <2>5. a \in Seq(Message)
    BY <2>1
  <2> HIDE DEF a
  <2>6. \A i \in 1..Len(Append(a, s[n])) : Append(a, s[n])[i].calls = <<>>
    BY <2>2, <2>4, <2>5
  <2> QED
    BY <2>2, <2>3, <2>4, <2>6 DEF a
<1>5. \A n \in 0..N : n \in S
  <2> HIDE DEF S, N
  <2> QED
    BY <1>2, <1>3, <1>4, Climbing
<1>6. N \in S
  BY <1>2, <1>5
<1> QED
  BY <1>1, <1>6 DEF Paired

(* What is sent after j results of a round: what was sent before, the calls, and, from the *)
(* first result on, one user turn with as many results.                                    *)
Sending(out, w, ids, j) ==
  /\ out \in Seq(Message) /\ Len(out) = Len(w) + (IF j = 0 THEN 1 ELSE 2)
  /\ \A i \in 1..Len(w) : out[i] = w[i]
  /\ out[Len(w) + 1] = Calls(ids)
  /\ j # 0 => /\ out[Len(w) + 2].role = "user" /\ Len(out[Len(w) + 2].calls) = j
              /\ \A k \in 1..j : out[Len(w) + 2].calls[k] = ids[k]

(* The first result of a round begins the user turn. *)
LEMMA SendsFirst ==
  ASSUME NEW out, NEW w \in Seq(Message), NEW ids \in Seq(Nat \X Nat), 1 \in 1..Len(ids),
         Sending(out, w, ids, 0)
  PROVE  Sending(WireTurn(out, Result(ids[1])), w, ids, 1)
<1> DEFINE t == Result(ids[1])
           n == Len(w)
           x == [role |-> "user", calls |-> t.calls]
           next == Append(out, x)
<1>1. /\ out \in Seq(Message) /\ Len(out) = n + 1 /\ n \in Nat
      /\ \A i \in 1..n : out[i] = w[i]
      /\ out[n + 1] = Calls(ids)
  BY DEF Sending
<1>2. t.role = "result" /\ t.calls \in Seq(Nat \X Nat) /\ Len(t.calls) = 1 /\ t.calls[1] = ids[1]
  BY DEF Result
<1>3. Last(out) = Calls(ids) /\ Calls(ids).role = "assistant"
  BY <1>1 DEF Last, Calls
<1>4. WireTurn(out, t) = next
  BY <1>2, <1>3 DEF WireTurn
<1>5. x \in Message /\ x.role = "user" /\ Len(x.calls) = 1 /\ x.calls[1] = ids[1]
  BY <1>2 DEF Message
<1> HIDE DEF x, t
<1>6. /\ next \in Seq(Message) /\ Len(next) = n + 2 /\ next[n + 2] = x
      /\ \A i \in 1..n + 1 : next[i] = out[i]
  <2> HIDE DEF n
  <2> QED
    BY <1>1, <1>5
<1> HIDE DEF next
<1>7. \A k \in 1..1 : x.calls[k] = ids[k]
  BY <1>5
<1>8. /\ \A i \in 1..n : next[i] = w[i]
      /\ next[n + 1] = Calls(ids) /\ 1 # 0
  <2> HIDE DEF n
  <2> QED
    BY <1>1, <1>6
<1>9. Sending(next, w, ids, 1)
  BY <1>5, <1>6, <1>7, <1>8 DEF Sending
<1> QED
  BY <1>4, <1>9 DEF t

(* A later one is put into it. *)
LEMMA SendsMore ==
  ASSUME NEW out, NEW w \in Seq(Message), NEW ids \in Seq(Nat \X Nat), NEW j \in 2..Len(ids),
         Sending(out, w, ids, j - 1)
  PROVE  Sending(WireTurn(out, Result(ids[j])), w, ids, j)
<1> DEFINE t == Result(ids[j])
           n == Len(w)
           a == out[n + 2]
           x == [a EXCEPT !.calls = a.calls \o t.calls]
           next == [out EXCEPT ![n + 2] = x]
<1>1. /\ out \in Seq(Message) /\ Len(out) = n + 2 /\ n \in Nat
      /\ \A i \in 1..n : out[i] = w[i]
      /\ out[n + 1] = Calls(ids)
      /\ a.role = "user" /\ Len(a.calls) = j - 1
      /\ \A k \in 1..j - 1 : a.calls[k] = ids[k]
  <2>1. j - 1 # 0 /\ n \in Nat
    OBVIOUS
  <2> HIDE DEF n
  <2> QED
    BY <2>1 DEF Sending, n
<1>2. /\ t.role = "result" /\ t.calls \in Seq(Nat \X Nat) /\ Len(t.calls) = 1
      /\ t.calls[1] = ids[j]
  BY DEF Result
<1>3. a \in Message /\ a.calls # <<>> /\ Last(out) = a /\ out # <<>>
  <2>1. Len(out) # 0 /\ n + 2 \in 1..Len(out) /\ Len(a.calls) # 0
    <3>1. Len(a.calls) = j - 1 /\ j - 1 # 0
      BY <1>1
    <3>2. Len(out) = n + 2 /\ n \in Nat
      BY <1>1
    <3> HIDE DEF n, a
    <3> QED
      BY <3>1, <3>2
  <2>2. a \in Message /\ out # <<>>
    BY <1>1, <2>1
  <2>3. Last(out) = a
    BY <1>1 DEF Last
  <2>4. a.calls # <<>>
    BY <2>1
  <2> QED
    BY <2>2, <2>3, <2>4
<1>4. WireTurn(out, t) = next
  BY <1>1, <1>2, <1>3 DEF WireTurn
<1>5. a.calls \in Seq(Nat \X Nat)
  BY <1>3 DEF Message
<1> HIDE DEF t
<1>6. /\ x \in Message /\ x.role = "user" /\ Len(x.calls) = j
      /\ \A k \in 1..j : x.calls[k] = ids[k]
  <2> DEFINE c == a.calls
             d == t.calls
  <2>1. x.calls = c \o d /\ x.role = "user"
    BY <1>1, <1>3 DEF Message
  <2>5. c \in Seq(Nat \X Nat) /\ d \in Seq(Nat \X Nat) /\ Len(c) = j - 1 /\ Len(d) = 1
        /\ d[1] = ids[j] /\ \A k \in 1..j - 1 : c[k] = ids[k]
    BY <1>1, <1>2, <1>5
  <2> HIDE DEF a, c, d, x
  <2> DEFINE e == c \o d
  <2>6. Joined(c, d, e, Nat \X Nat)
    BY <2>5, Joining
  <2> HIDE DEF e
  <2>2. /\ e \in Seq(Nat \X Nat) /\ Len(e) = j
        /\ \A k \in 1..j - 1 : e[k] = c[k]
        /\ e[j] = d[1]
    <3>1. j - 1 + 1 = j /\ 1 \in 1..1
      OBVIOUS
    <3> QED
      BY <2>5, <2>6, <3>1 DEF Joined
  <2>3. ASSUME NEW k \in 1..j PROVE e[k] = ids[k]
    <3>1. k \in 1..j - 1 \/ k = j
      OBVIOUS
    <3> QED
      BY <2>2, <2>5, <3>1
  <2>4. x \in Message
    BY <1>3, <2>2 DEF Message, c, d, e, x
  <2> QED
    BY <2>1, <2>2, <2>3, <2>4 DEF e
<1> HIDE DEF x, a
<1>7. /\ next \in Seq(Message) /\ Len(next) = n + 2 /\ next[n + 2] = x
      /\ \A i \in 1..n + 1 : next[i] = out[i]
  <2>1. n + 2 \in 1..Len(out) /\ \A i \in 1..n + 1 : i \in 1..Len(out) /\ i # n + 2
    <3>1. Len(out) = n + 2 /\ n \in Nat
      BY <1>1
    <3> HIDE DEF n
    <3> QED
      BY <3>1
  <2>2. out \in Seq(Message) /\ Len(out) = n + 2 /\ x \in Message
    BY <1>1, <1>6
  <2> HIDE DEF n
  <2> QED
    BY <2>1, <2>2
<1> HIDE DEF next
<1>8. Sending(next, w, ids, j)
  <2>1. /\ \A i \in 1..n : next[i] = w[i]
        /\ next[n + 1] = Calls(ids) /\ j # 0
    <3>1. \A i \in 1..n : i \in 1..n + 1
      BY <1>1
    <3>2. n + 1 \in 1..n + 1
      BY <1>1
    <3>3. j # 0
      OBVIOUS
    <3>4. \A i \in 1..n : out[i] = w[i] /\ next[i] = out[i]
      BY <1>1, <1>7, <3>1
    <3>5. next[n + 1] = Calls(ids)
      BY <1>1, <1>7, <3>2
    <3> QED
      BY <3>3, <3>4, <3>5
  <2> QED
    BY <1>6, <1>7, <2>1 DEF Sending
<1> QED
  BY <1>4, <1>8 DEF t

(* A turn without calls leaves what is sent paired. *)
LEMMA PairedAppend ==
  ASSUME NEW w \in Seq(Message), Paired(w), NEW x \in Message, x.calls = <<>>
  PROVE  Paired(Append(w, x))
<1> DEFINE next == Append(w, x)
           n == Len(w)
<1>1. /\ n \in Nat /\ Len(next) = n + 1 /\ next[n + 1] = x
      /\ \A i \in 1..n : next[i] = w[i]
  OBVIOUS
<1> HIDE DEF next
<1> SUFFICES ASSUME NEW i \in 1..Len(next), next[i].role = "assistant", next[i].calls # <<>>
             PROVE  i < Len(next) /\ next[i + 1] = [role |-> "user", calls |-> next[i].calls]
  BY DEF Paired, next
<1>2. i \in 1..n /\ next[i] = w[i]
  BY <1>1
<1>3. i < n /\ w[i + 1] = [role |-> "user", calls |-> w[i].calls]
  BY <1>2 DEF Paired
<1>4. i + 1 \in 1..n
  BY <1>1, <1>2, <1>3
<1> QED
  BY <1>1, <1>2, <1>3, <1>4

(* When all results of a round are sent, what is sent is paired again. *)
LEMMA SentPaired ==
  ASSUME NEW out, NEW w \in Seq(Message), Paired(w), NEW ids \in Seq(Nat \X Nat),
         Sending(out, w, ids, Len(ids))
  PROVE  out \in Seq(Message) /\ Paired(out)
<1> DEFINE n == Len(w)
           m == Len(ids)
<1>1. /\ n \in Nat /\ m \in Nat /\ out \in Seq(Message)
      /\ Len(out) = n + (IF m = 0 THEN 1 ELSE 2)
      /\ \A i \in 1..n : out[i] = w[i]
      /\ out[n + 1] = Calls(ids)
      /\ m # 0 => /\ out[n + 2].role = "user" /\ Len(out[n + 2].calls) = m
                  /\ \A k \in 1..m : out[n + 2].calls[k] = ids[k]
  BY DEF Sending
<1>2. Calls(ids).calls = ids
  BY DEF Calls
<1> SUFFICES ASSUME NEW i \in 1..Len(out), out[i].role = "assistant", out[i].calls # <<>>
             PROVE  i < Len(out) /\ out[i + 1] = [role |-> "user", calls |-> out[i].calls]
  BY <1>1 DEF Paired
<1>3. CASE i \in 1..n
  <2>1. out[i] = w[i]
    BY <1>1, <1>3
  <2>2. i < n /\ w[i + 1] = [role |-> "user", calls |-> w[i].calls]
    BY <1>3, <2>1 DEF Paired
  <2>3. i + 1 \in 1..n /\ i < Len(out)
    <3> HIDE DEF n, m
    <3> QED
      BY <1>1, <1>3, <2>2
  <2> QED
    BY <1>1, <2>1, <2>2, <2>3
<1>4. CASE i = n + 1
  <2>1. out[i].calls = ids /\ m # 0
    BY <1>1, <1>2, <1>4
  <2> DEFINE a == out[n + 2]
  <2>2. Len(out) = n + 2 /\ n + 2 \in 1..Len(out)
    BY <1>1, <2>1
  <2>3. a \in Message /\ a.role = "user"
    BY <1>1, <2>1, <2>2
  <2>4. a.calls \in Seq(Nat \X Nat) /\ Len(a.calls) = m /\ \A k \in 1..m : a.calls[k] = ids[k]
    BY <1>1, <2>1, <2>3 DEF Message
  <2> HIDE DEF a
  <2>5. a.calls = ids
    BY <2>4, SeqEqual DEF m
  <2>6. a = [role |-> "user", calls |-> ids]
    BY <2>3, <2>5 DEF Message
  <2>7. i + 1 = n + 2 /\ i < Len(out)
    BY <1>1, <1>4, <2>2
  <2> QED
    BY <2>1, <2>6, <2>7 DEF a
<1>5. CASE i = n + 2
  <2>1. m # 0
    <3> HIDE DEF n, m
    <3> QED
      BY <1>1, <1>5
  <2> QED
    BY <1>1, <1>5, <2>1
<1>6. i \in 1..n \/ i = n + 1 \/ i = n + 2
  <2> HIDE DEF n, m
  <2> QED
    BY <1>1
<1> QED
  BY <1>3, <1>4, <1>5, <1>6

(* A browse round is sent as a turn of calls and a user turn with all of their results. *)
LEMMA RoundIsWired ==
  ASSUME NEW s \in Seq(Message), Paired(Wire(s)), NEW ids \in Seq(Nat \X Nat), NEW t,
         IsRound(s, ids, t)
  PROVE  Paired(Wire(t))
<1> DEFINE n == Len(s)
           m == Len(ids)
           w == Wire(s)
<1>1. /\ n \in Nat /\ m \in Nat /\ t \in Seq(Message)
      /\ Len(t) = n + 1 + m \/ Len(t) = n + 1 + m + 1
      /\ \A i \in 1..n : t[i] = s[i]
      /\ t[n + 1] = Calls(ids)
      /\ \A k \in 1..m : t[n + 1 + k] = Result(ids[k])
      /\ Len(t) = n + 1 + m + 1 => t[Len(t)] = Turn("user")
  BY DEF IsRound
<1>2. PICK f : Unrolled(f, t) /\ Wire(t) = f[Len(t)]
  BY <1>1, WireUnrolls
<1>3. n <= Len(t) /\ n + 1 \in 1..Len(t) /\ (\A k \in 1..m : n + 1 + k \in 1..Len(t))
  <2> HIDE DEF n, m
  <2> QED
    BY <1>1
<1>4. f[n] = w /\ w \in Seq(Message)
  <2>1. f[n] = w
    BY <1>1, <1>2, <1>3, WireOfPrefix
  <2>2. n \in 0..Len(t)
    BY <1>1, <1>3
  <2> QED
    BY <1>2, <2>1, <2>2 DEF Unrolled
<1> HIDE DEF n, m, w
<1>5. f[n + 1] = Append(w, Calls(ids))
  <2>1. f[n + 1] = WireTurn(f[n], Calls(ids))
    <3>1. n + 1 - 1 = n
      BY <1>1
    <3> QED
      BY <1>1, <1>2, <1>3, <3>1 DEF Unrolled
  <2> QED
    BY <1>4, <2>1 DEF WireTurn, Calls
<1>6. Sending(f[n + 1], w, ids, 0)
  <2>1. Calls(ids) \in Message
    BY DEF Calls, Message
  <2> QED
    BY <1>4, <1>5, <2>1 DEF Sending
<1> DEFINE S == {j \in 0..m : Sending(f[n + 1 + j], w, ids, j)}
<1>7. 0 \in S
  <2>1. n + 1 + 0 = n + 1 /\ 0 \in 0..m
    BY <1>1
  <2> QED
    BY <1>6, <2>1
<1>8. \A j \in 1..m : j - 1 \in S => j \in S
  <2> SUFFICES ASSUME NEW j \in 1..m, j - 1 \in S PROVE j \in S
    OBVIOUS
  <2> DEFINE h == n + 1 + j
             out == f[h - 1]
  <2>1. h \in 1..Len(t) /\ t[h] = Result(ids[j]) /\ j \in 0..m
    <3>1. j \in 0..m
      BY <1>1
    <3>2. n + 1 + j \in 1..Len(t)
      BY <1>3
    <3>3. t[n + 1 + j] = Result(ids[j])
      BY <1>1
    <3> QED
      BY <3>1, <3>2, <3>3
  <2>3. n + 1 + (j - 1) = h - 1
    BY <1>1
  <2>4. Sending(out, w, ids, j - 1)
    BY <2>3
  <2> HIDE DEF h
  <2>2. f[h] = WireTurn(out, Result(ids[j]))
    BY <1>2, <2>1 DEF Unrolled
  <2> HIDE DEF out
  <2>5. CASE j = 1
    <3>1. 1 \in 1..Len(ids) /\ j - 1 = 0
      BY <2>5 DEF m
    <3>2. Sending(WireTurn(out, Result(ids[1])), w, ids, 1)
      BY <1>4, <2>4, <3>1, SendsFirst
    <3> QED
      BY <2>1, <2>2, <2>5, <3>2 DEF h
  <2>6. CASE j # 1
    <3>1. j \in 2..Len(ids)
      BY <1>1, <2>6 DEF m
    <3>2. Sending(WireTurn(out, Result(ids[j])), w, ids, j)
      BY <1>4, <2>4, <3>1, SendsMore
    <3> QED
      BY <2>1, <2>2, <3>2 DEF h
  <2> QED
    BY <2>5, <2>6
<1>9. m \in S
  <2> HIDE DEF S
  <2>1. \A j \in 0..m : j \in S
    BY <1>1, <1>7, <1>8, Climbing
  <2> QED
    BY <1>1, <2>1
<1>10. f[n + 1 + m] \in Seq(Message) /\ Paired(f[n + 1 + m])
  <2>1. Sending(f[n + 1 + m], w, ids, Len(ids)) /\ Paired(w)
    BY <1>9 DEF m, w
  <2> QED
    BY <1>4, <2>1, SentPaired
<1>11. CASE Len(t) = n + 1 + m
  BY <1>2, <1>10, <1>11
<1>12. CASE Len(t) = n + 1 + m + 1
  <2>1. t[Len(t)] = Turn("user") /\ Len(t) \in 1..Len(t) /\ Len(t) - 1 = n + 1 + m
    BY <1>1, <1>12
  <2>2. f[Len(t)] = WireTurn(f[n + 1 + m], Turn("user"))
    BY <1>2, <2>1 DEF Unrolled
  <2>3. WireTurn(f[n + 1 + m], Turn("user")) = Append(f[n + 1 + m], Turn("user"))
    BY PlainTurns DEF WireTurn
  <2>4. Turn("user") \in Message /\ Turn("user").calls = <<>>
    BY PlainTurns
  <2> QED
    BY <1>2, <1>10, <2>2, <2>3, <2>4, PairedAppend
<1> QED
  BY <1>1, <1>11, <1>12

(* A loop starts on a conversation without calls. *)
LEMMA StartsPaired ==
  ASSUME NEW s \in Seq(Message), Plain(s), StartLoop(s)
  PROVE  PairsInv'
<1>1. AnsweredInOrder(s) /\ Paired(Wire(s))
  BY PlainTalkIsAnswered, PlainWire DEF Plain
<1>2. talk' = s /\ loop' = s /\ iteration' = 0
  BY DEF StartLoop
<1> QED
  BY <1>1, <1>2 DEF PairsInv

(* A repair starts a loop, or ends the run. *)
LEMMA RepairsPaired ==
  ASSUME PairsInv, NEW why, Repair(why)
  PROVE  PairsInv'
<1>1. CASE attempt <= MaxRepairs
  <2> DEFINE s == talk \o <<Turn("assistant"), Turn("user")>>
  <2>1. StartLoop(s)
    BY <1>1 DEF Repair
  <2>2. /\ Turn("assistant") \in Message /\ Turn("assistant").calls = <<>>
        /\ Turn("assistant").role # "result"
        /\ Turn("user") \in Message /\ Turn("user").calls = <<>>
        /\ Turn("user").role # "result"
    BY PlainTurns
  <2>3. s \in Seq(Message) /\ Plain(s)
    BY <2>2 DEF PairsInv, Plain
  <2> HIDE DEF s
  <2> QED
    BY <2>1, <2>3, StartsPaired
<1>2. CASE ~(attempt <= MaxRepairs)
  BY <1>2 DEF Repair, Settle, PairsInv
<1> QED
  BY <1>1, <1>2

(* A reply that asks for tools is answered call by call. *)
LEMMA RoundPaired ==
  ASSUME PairsInv, NEW tools \in Requests, UseTools(tools)
  PROVE  PairsInv'
<1> DEFINE ids == Ids(tools)
           tail == IF iteration + 1 < MaxToolIterations THEN <<>> ELSE <<Turn("user")>>
           results == [i \in 1..Len(ids) |-> Result(ids[i])]
           next == loop \o <<Calls(ids)>> \o results \o tail
<1>1. ids \in Seq(Nat \X Nat) /\ Len(ids) = Len(tools)
  BY RequestsAssumption DEF Ids, PairsInv
<1>2. Answers(tools) = results
  BY <1>1 DEF Answers, Ids
<1>3. loop' = next
  BY <1>2, Zenon DEF UseTools
<1>4. next \in Seq(Message) /\ AnsweredInOrder(next) /\ Paired(Wire(next))
  <2>1. tail \in Seq(Message) /\ (Len(tail) = 0 \/ (Len(tail) = 1 /\ tail[1] = Turn("user")))
    <3>1. <<>> \in Seq(Message) /\ Len(<<>>) = 0
      OBVIOUS
    <3>2. <<Turn("user")>> \in Seq(Message) /\ Len(<<Turn("user")>>) = 1 /\ <<Turn("user")>>[1] = Turn("user")
      BY PlainTurns
    <3>3. tail = <<>> \/ tail = <<Turn("user")>>
      OBVIOUS
    <3> HIDE DEF tail
    <3> QED
      BY <3>1, <3>2, <3>3
  <2> HIDE DEF tail, ids
  <2>2. IsRound(loop, ids, next)
    BY <1>1, <2>1, RoundIs DEF PairsInv
  <2> HIDE DEF next
  <2>3. next \in Seq(Message)
    BY <2>2 DEF IsRound
  <2> QED
    BY <1>1, <2>2, <2>3, RoundIsAnswered, RoundIsWired DEF PairsInv
<1>5. iteration' = iteration + 1 /\ UNCHANGED talk
  BY DEF UseTools
<1> HIDE DEF next
<1> QED
  BY <1>3, <1>4, <1>5 DEF PairsInv

(* Every conversation a run sends carries, right after a turn with calls, the results of *)
(* exactly these calls in their order, whether they were served from the cache or not.   *)
THEOREM CallsStayAnswered == Spec => []EveryCallIsAnswered
<1>1. Init => PairsInv
  <2> SUFFICES ASSUME Init PROVE PairsInv
    OBVIOUS
  <2>1. <<>> \in Seq(Message) /\ Plain(<<>>)
    BY DEF Plain
  <2>2. AnsweredInOrder(<<>>)
    BY DEF AnsweredInOrder
  <2>3. Paired(Wire(<<>>))
    BY <2>1, PlainWire
  <2> QED
    BY <2>1, <2>2, <2>3 DEF Init, PairsInv
<1>2. PairsInv /\ [Next]_vars => PairsInv'
  <2> SUFFICES ASSUME PairsInv, [Next]_vars PROVE PairsInv'
    OBVIOUS
  <2>1. ASSUME NEW d, Settle(d) PROVE PairsInv'
    BY <2>1 DEF Settle, PairsInv
  <2>2. CASE PassGates
    <3>1. CASE FirstMissing(market) # "none"
      BY <2>1, <2>2, <3>1 DEF PassGates
    <3>2. CASE FirstMissing(market) = "none"
      <4> DEFINE s == <<Turn("system"), Turn("user")>>
      <4>1. StartLoop(s)
        BY <2>2, <3>2 DEF PassGates
      <4>2. s \in Seq(Message) /\ Plain(s)
        BY PlainTurns DEF Plain
      <4> HIDE DEF s
      <4> QED
        BY <4>1, <4>2, StartsPaired
    <3> QED
      BY <3>1, <3>2
  <2>3. ASSUME NEW error \in Errors, ProviderFails(error) PROVE PairsInv'
    <3>1. CASE Retryable(error) /\ tries < MaxRetries
      BY <2>3, <3>1 DEF ProviderFails, PairsInv
    <3>2. CASE ~(Retryable(error) /\ tries < MaxRetries)
      BY <2>1, <2>3, <3>2 DEF ProviderFails
    <3> QED
      BY <3>1, <3>2
  <2>4. ASSUME NEW tools \in Requests, UseTools(tools) PROVE PairsInv'
    BY <2>4, RoundPaired
  <2>5. CASE RepliesText
    BY <2>5, RepairsPaired DEF RepliesText
  <2>6. ASSUME NEW plan \in Shapes, RepliesPlan(plan) PROVE PairsInv'
    BY <2>1, <2>6, RepairsPaired DEF RepliesPlan
  <2>7. CASE Review
    BY <2>7 DEF Review, PairsInv
  <2>8. CASE UNCHANGED vars
    BY <2>8 DEF vars, PairsInv
  <2> QED
    BY <2>2, <2>3, <2>4, <2>5, <2>6, <2>7, <2>8 DEF Next
<1>3. PairsInv => EveryCallIsAnswered
  BY DEF PairsInv, EveryCallIsAnswered
<1> QED
  BY <1>1, <1>2, <1>3, PTL DEF Spec

(* The types of what a run keeps beside its counters. *)
RestInv ==
  /\ market \in Reading
  /\ cache \subseteq UNION {ToSet(tools) : tools \in Requests}
  /\ problem \in {"none", "not json", "invalid", "ungrounded"}
  /\ decision.kind \in {"undecided", "refused", "completed", "published", "failed"}

(* A refusal is a refusal. *)
LEMMA RefusalKind == \A reason : Refused(reason).kind = "refused"
BY DEF Refused

(* A run that ends keeps its types. *)
LEMMA SettlesInType ==
  ASSUME RestInv, NEW d, d.kind \in {"refused", "completed"}, Settle(d)
  PROVE  RestInv'
BY DEF Settle, RestInv

(* So does one that is refused, *)
LEMMA RefusesInType ==
  ASSUME RestInv, NEW reason, Settle(Refused(reason))
  PROVE  RestInv'
BY RefusalKind, SettlesInType

(* and one that is repaired. *)
LEMMA RepairsInType ==
  ASSUME RestInv, NEW why \in {"not json", "invalid", "ungrounded"}, Repair(why)
  PROVE  RestInv'
<1>1. CASE attempt <= MaxRepairs
  BY <1>1 DEF Repair, StartLoop, RestInv
<1>2. CASE ~(attempt <= MaxRepairs)
  BY <1>2, RefusesInType DEF Repair
<1> QED
  BY <1>1, <1>2

(* The types of a run and the bounds of its two loops and of the retries. *)
THEOREM TurnTypes == Spec => []TypeOK
<1>1. Init => RestInv
  BY ReadingsAssumption DEF Init, RestInv, Undecided
<1>2. RestInv /\ [Next]_vars => RestInv'
  <2> SUFFICES ASSUME RestInv, [Next]_vars PROVE RestInv'
    OBVIOUS
  <2>1. CASE PassGates
    <3>1. CASE FirstMissing(market) # "none"
      BY <2>1, <3>1, SettlesInType, RefusalKind DEF PassGates
    <3>2. CASE FirstMissing(market) = "none"
      BY <2>1, <3>2 DEF PassGates, StartLoop, RestInv
    <3> QED
      BY <3>1, <3>2
  <2>2. ASSUME NEW error \in Errors, ProviderFails(error) PROVE RestInv'
    <3>1. CASE Retryable(error) /\ tries < MaxRetries
      BY <2>2, <3>1 DEF ProviderFails, RestInv
    <3>2. CASE ~(Retryable(error) /\ tries < MaxRetries)
      BY <2>2, <3>2, SettlesInType, RefusalKind DEF ProviderFails
    <3> QED
      BY <3>1, <3>2
  <2>3. ASSUME NEW tools \in Requests, UseTools(tools) PROVE RestInv'
    BY <2>3 DEF UseTools, RestInv
  <2>4. CASE RepliesText
    BY <2>4, RepairsInType DEF RepliesText
  <2>5. ASSUME NEW plan \in Shapes, RepliesPlan(plan) PROVE RestInv'
    <3>1. CASE ~Valid(plan)
      BY <2>5, <3>1, RepairsInType DEF RepliesPlan
    <3>2. CASE Valid(plan) /\ ~Grounded(plan, market)
      BY <2>5, <3>2, RepairsInType DEF RepliesPlan
    <3>3. CASE Valid(plan) /\ Grounded(plan, market) /\ plan.viable
      <4>1. Settle(Completed(plan)) /\ Completed(plan).kind = "completed"
        BY <2>5, <3>3 DEF RepliesPlan, Priced, Completed
      <4> QED
        BY <4>1, SettlesInType
    <3>4. CASE Valid(plan) /\ Grounded(plan, market) /\ ~plan.viable
      BY <2>5, <3>4, RefusesInType DEF RepliesPlan, Priced
    <3> QED
      BY <3>1, <3>2, <3>3, <3>4
  <2>6. CASE Review
    BY <2>6, RefusalKind DEF Review, RestInv, Published, Failed
  <2>7. CASE UNCHANGED vars
    BY <2>7 DEF vars, RestInv
  <2> QED
    BY <2>1, <2>2, <2>3, <2>4, <2>5, <2>6, <2>7 DEF Next
<1>3. RestInv /\ CostInv => TypeOK
  BY DEF RestInv, CostInv, TypeOK
<1> QED
  BY <1>1, <1>2, <1>3, CostInvHolds, PTL DEF Spec
=============================================================================
