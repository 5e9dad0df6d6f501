----------------------- MODULE ConditionalPlan_proofs -----------------------
(***************************************************************************)
(* Proofs about ConditionalPlan: that an evaluation over the newest candles *)
(* is exact (ActivationIsExact), and that on every chart of a plan the      *)
(* swings are sound (SwingsStaySound) and what the nightly sweep stored is   *)
(* settled (CasesStaySettled).  The last two hold of all charts, and are     *)
(* proved of one; the first is an invariant of the plan, PlanInv.            *)
(***************************************************************************)
EXTENDS ConditionalPlan, FiniteSetTheorems, WellFoundedInduction, TLAPS

(* Numbers that are not none have a least one. *)
LEMMA SomeLeast ==
  ASSUME NEW S, S \subseteq Nat, S # {}
  PROVE  \E n \in S : \A m \in S : n <= m
<1>1. PICK n \in S : \A m \in S : ~(<<m, n>> \in OpToRel(<, Nat))
  BY WFMin, NatLessThanWellFounded
<1>2. \A m \in S : ~(m < n)
  BY <1>1 DEF OpToRel
<1> QED
  BY <1>2

(* Numbers up to a bound have a greatest one. *)
LEMMA SomeGreatest ==
  ASSUME NEW S, NEW n \in Nat, S \subseteq 1..n, S # {}
  PROVE  \E m \in S : \A k \in S : k <= m
<1> DEFINE above == {m \in Nat : \A k \in S : k <= m}
<1>1. n \in above /\ above \subseteq Nat /\ above # {}
  OBVIOUS
<1>2. PICK m \in above : \A k \in above : m <= k
  BY <1>1, SomeLeast
<1>3. m \in S
  <2> SUFFICES ASSUME m \notin S PROVE FALSE
    OBVIOUS
  <2>1. \A k \in S : k \in Nat /\ k < m
    BY <1>2
  <2>2. m # 0 /\ m \in Nat
    <3>1. PICK k \in S : TRUE
      OBVIOUS
    <3>2. k \in Nat /\ k < m /\ m \in Nat
      BY <2>1
    <3> QED
      BY <3>2
  <2>3. m - 1 \in above
    BY <2>1, <2>2
  <2> QED
    BY <1>2, <2>2, <2>3
<1> QED
  BY <1>2, <1>3

(* A set that holds 0 and the successor of each of its numbers below a bound holds all of *)
(* them up to the bound.                                                                   *)
LEMMA Climbing ==
  ASSUME NEW N \in Nat, NEW S, 0 \in S, \A n \in 1..N : n - 1 \in S => n \in S
  PROVE  \A n \in 0..N : n \in S
<1> DEFINE missing == {n \in 0..N : n \notin S}
<1> SUFFICES ASSUME missing # {} PROVE FALSE
  OBVIOUS
<1>1. missing \subseteq Nat
  OBVIOUS
<1>2. PICK n \in missing : \A m \in missing : n <= m
  <2> HIDE DEF missing
  <2> QED
    BY <1>1, SomeLeast
<1>3. n \in 1..N /\ n \notin S
  OBVIOUS
<1>4. n - 1 \in 0..N /\ ~(n <= n - 1)
  BY <1>3
<1> QED
  BY <1>2, <1>3, <1>4

(* A function over 0..n whose values are computed one from the one before. *)
Unfolds(f, n, T, base, Step) ==
  /\ f \in [0..n -> T] /\ f[0] = base
  /\ \A k \in 1..n : f[k] = Step[k][f[k - 1]]

(* There is one, so that a recursive definition over 0..N chooses such a function. *)
LEMMA Unfolding ==
  ASSUME NEW N \in Nat, NEW T, NEW base \in T, NEW Step \in [1..N -> [T -> T]]
  PROVE  \E f : Unfolds(f, N, T, base, Step)
<1> DEFINE S == {n \in 0..N : \E f : Unfolds(f, n, T, base, Step)}
<1>1. 0 \in S
  <2>1. Unfolds([k \in 0..0 |-> base], 0, T, base, Step) /\ 0 \in 0..N
    BY DEF Unfolds
  <2> QED
    BY <2>1
<1>2. ASSUME NEW n \in 1..N, n - 1 \in S
      PROVE  n \in S
  <2>1. PICK f : Unfolds(f, n - 1, T, base, Step)
    BY <1>2
  <2> DEFINE g == [k \in 0..n |-> IF k = n THEN Step[n][f[n - 1]] ELSE f[k]]
  <2>2. f[n - 1] \in T /\ Step[n][f[n - 1]] \in T
    BY <2>1 DEF Unfolds
  <2>3. g \in [0..n -> T] /\ g[0] = base
    BY <2>1, <2>2 DEF Unfolds
  <2>4. ASSUME NEW k \in 1..n
        PROVE  g[k] = Step[k][g[k - 1]]
    <3>1. k - 1 \in 0..n /\ k - 1 # n /\ g[k - 1] = f[k - 1]
      OBVIOUS
    <3>2. CASE k = n
      BY <3>1, <3>2
    <3>3. CASE k # n
      <4>1. k \in 1..(n - 1) /\ g[k] = f[k]
        BY <3>3
      <4> QED
        BY <2>1, <3>1, <4>1 DEF Unfolds
    <3> QED
      BY <3>2, <3>3
  <2> HIDE DEF g
  <2>5. Unfolds(g, n, T, base, Step) /\ n \in 0..N
    BY <2>3, <2>4 DEF Unfolds
  <2> QED
    BY <2>5
<1>3. \A n \in 0..N : n \in S
  <2> HIDE DEF S
  <2> QED
    BY <1>1, <1>2, Climbing
<1> QED
  BY <1>3

(* The greater and the lesser of two numbers. *)
LEMMA OfTwo ==
  ASSUME NEW a \in Int, NEW b \in Int
  PROVE  /\ Max({a, b}) = IF a >= b THEN a ELSE b
         /\ Min({a, b}) = IF a <= b THEN a ELSE b
<1>1. \E x \in {a, b} : \A y \in {a, b} : x >= y
  OBVIOUS
<1>2. \E x \in {a, b} : \A y \in {a, b} : x <= y
  OBVIOUS
<1> QED
  BY <1>1, <1>2 DEF Max, Min

(* Two sequences after one another: the first, then the second. *)
LEMMA Concatenated ==
  ASSUME NEW T, NEW s \in Seq(T), NEW t \in Seq(T)
  PROVE  /\ s \o t \in Seq(T) /\ Len(s) \in Nat /\ Len(s \o t) = Len(s) + Len(t)
         /\ \A k \in 1..Len(s) : (s \o t)[k] = s[k]
         /\ \A k \in 1..Len(t) : (s \o t)[Len(s) + k] = t[k]
         /\ \A k \in 1..Len(s \o t) : k \in 1..Len(s) \/ k - Len(s) \in 1..Len(t)
OBVIOUS

(* The first of some places is one of them; 0 stands for none. *)
LEMMA EarliestIs ==
  ASSUME NEW S, S \subseteq Nat
  PROVE  /\ S = {} => Earliest(S) = 0
         /\ S # {} => Earliest(S) \in S /\ \A i \in S : Earliest(S) <= i
         /\ Earliest(S) \in Nat
<1>1. CASE S = {}
  BY <1>1 DEF Earliest
<1>2. CASE S # {}
  <2>1. \E i \in S : \A j \in S : i <= j
    BY <1>2, SomeLeast
  <2> QED
    BY <1>2, <2>1 DEF Earliest
<1> QED
  BY <1>1, <1>2

(* The last of some places is one of them. *)
LEMMA LatestIs ==
  ASSUME NEW S, NEW n \in Nat, S \subseteq 1..n, S # {}
  PROVE  Latest(S) \in S
<1>1. \E i \in S : \A j \in S : j <= i
  BY SomeGreatest
<1> QED
  BY <1>1 DEF Latest

(* A chart ends with another: its candles are the newest of the longer one. *)
Ends(part, chart, d) ==
  /\ d \in Nat /\ Len(part) \in Nat /\ Len(chart) = Len(part) + d
  /\ \A i \in 1..Len(part) : part[i] = chart[i + d]

(* The newest candles of a chart are such a part. *)
LEMMA NewestEnds ==
  ASSUME NEW T, NEW chart \in Seq(T), NEW k \in 1..(Len(chart) + 1)
  PROVE  /\ SubSeq(chart, k, Len(chart)) \in Seq(T)
         /\ Ends(SubSeq(chart, k, Len(chart)), chart, k - 1)
<1>1. Len(chart) \in Nat
  OBVIOUS
<1> DEFINE part == SubSeq(chart, k, Len(chart))
<1>2. part = [i \in 1..(Len(chart) - k + 1) |-> chart[i + k - 1]]
  OBVIOUS
<1>3. Len(part) = Len(chart) - k + 1 /\ part \in Seq(T)
  BY <1>1
<1>4. \A i \in 1..(Len(chart) - k + 1) : part[i] = chart[i + (k - 1)]
  BY <1>1, <1>2
<1> QED
  BY <1>1, <1>3, <1>4 DEF Ends

(* Closes in a row on the newest candles are closes in a row on the whole chart, no later. *)
LEMMA ClosesEarlier ==
  ASSUME NEW part, NEW chart, NEW d, Ends(part, chart, d),
         NEW leaf, leaf.closes \in Nat \ {0}, NEW side,
         NEW start \in Nat \ {0}, NEW start2 \in Nat \ {0}, start2 <= start + d,
         ConsecutiveCloses(part, leaf, side, start) # 0
  PROVE  /\ ConsecutiveCloses(part, leaf, side, start) \in start..Len(part)
         /\ ConsecutiveCloses(chart, leaf, side, start2) \in start2..Len(chart)
         /\ ConsecutiveCloses(chart, leaf, side, start2)
              <= ConsecutiveCloses(part, leaf, side, start) + d
<1> DEFINE n == leaf.closes
           A == {i \in (start + n - 1)..Len(part) :
                   \A j \in (i - n + 1)..i : ClosesBeyond(part[j], leaf, side)}
           B == {i \in (start2 + n - 1)..Len(chart) :
                   \A j \in (i - n + 1)..i : ClosesBeyond(chart[j], leaf, side)}
<1>1. /\ ConsecutiveCloses(part, leaf, side, start) = Earliest(A)
      /\ ConsecutiveCloses(chart, leaf, side, start2) = Earliest(B)
  BY DEF ConsecutiveCloses
<1>2. n \in Nat \ {0} /\ d \in Nat /\ Len(part) \in Nat /\ Len(chart) = Len(part) + d
  BY DEF Ends
<1>3. A \subseteq start..Len(part) /\ A \subseteq Nat /\ B \subseteq start2..Len(chart) /\ B \subseteq Nat
  BY <1>2
<1>4. ASSUME NEW i \in A
      PROVE  i + d \in B
  <2> DEFINE k == i + d
  <2>1. /\ i \in (start + n - 1)..Len(part)
        /\ \A j \in (i - n + 1)..i : ClosesBeyond(part[j], leaf, side)
    OBVIOUS
  <2>2. k \in (start2 + n - 1)..Len(chart)
    BY <1>2, <2>1
  <2>3. ASSUME NEW j \in (k - n + 1)..k
        PROVE  ClosesBeyond(chart[j], leaf, side)
    <3> DEFINE h == j - d
    <3>1. j \in Int /\ i \in Int /\ h \in Int /\ h + d = j
      BY <1>2, <2>1
    <3>2. h \in (i - n + 1)..i
      BY <1>2, <3>1
    <3>3. h \in 1..Len(part)
      BY <1>2, <2>1, <3>1, <3>2
    <3> HIDE DEF h
    <3>4. chart[j] = part[h]
      BY <3>1, <3>3 DEF Ends
    <3> QED
      BY <2>1, <3>2, <3>4
  <2> HIDE DEF k
  <2>4. k \in B
    BY <2>2, <2>3
  <2> QED
    BY <2>4 DEF k
<1> HIDE DEF A, B
<1>5. A # {}
  BY <1>1, <1>3, EarliestIs
<1>6. Earliest(A) \in A /\ Earliest(A) + d \in B
  BY <1>3, <1>4, <1>5, EarliestIs
<1>7. Earliest(B) \in B /\ Earliest(B) <= Earliest(A) + d
  BY <1>3, <1>6, EarliestIs
<1> QED
  BY <1>1, <1>3, <1>6, <1>7

(* A condition of a kind there is, which counts at least one close if it counts any. *)
LeafKind(leaf) ==
  \/ leaf.kind \in {"price_touch", "rejection_confirmed"}
  \/ leaf.kind \in Counted /\ leaf.closes \in Nat \ {0}

(* Where a condition is met is a candle of the chart. *)
LEMMA LeafPlace ==
  ASSUME NEW T, NEW chart \in Seq(T), NEW leaf, LeafKind(leaf)
  PROVE  EvaluateLeaf(leaf, chart) \in 0..Len(chart)
<1> DEFINE touched == {i \in 1..Len(chart) : Touched(chart[i], leaf)}
           rejected == {i \in 1..Len(chart) : Rejects(chart[i], leaf)}
<1>0. Len(chart) \in Nat
  OBVIOUS
<1>1. Ends(chart, chart, 0)
  BY <1>0 DEF Ends
<1>2. ASSUME NEW side, NEW start \in Nat \ {0}, leaf.closes \in Nat \ {0}
      PROVE  ConsecutiveCloses(chart, leaf, side, start) \in {0} \cup start..Len(chart)
  BY <1>0, <1>1, <1>2, ClosesEarlier
<1>4. CASE leaf.kind = "price_touch"
  <2>1. EvaluateLeaf(leaf, chart) = Earliest(touched)
    BY <1>4 DEF EvaluateLeaf
  <2>2. touched \subseteq Nat /\ touched \subseteq 0..Len(chart)
    BY <1>0
  <2> HIDE DEF touched
  <2>3. Earliest(touched) \in {0} \cup touched
    BY <2>2, EarliestIs
  <2>4. 0 \in 0..Len(chart)
    BY <1>0
  <2> QED
    BY <2>1, <2>2, <2>3, <2>4
<1>5. CASE leaf.kind = "rejection_confirmed"
  <2>1. EvaluateLeaf(leaf, chart) = Earliest(rejected)
    BY <1>5 DEF EvaluateLeaf
  <2>2. rejected \subseteq Nat /\ rejected \subseteq 0..Len(chart)
    BY <1>0
  <2> HIDE DEF rejected
  <2>3. Earliest(rejected) \in {0} \cup rejected
    BY <2>2, EarliestIs
  <2>4. 0 \in 0..Len(chart)
    BY <1>0
  <2> QED
    BY <2>1, <2>2, <2>3, <2>4
<1>6. CASE leaf.kind \in {"candle_close_above", "candle_close_below", "breakout_confirmed"}
  <2>1. leaf.closes \in Nat \ {0} /\ 1 \in Nat \ {0}
    BY <1>6 DEF LeafKind
  <2>2. \E side : EvaluateLeaf(leaf, chart) = ConsecutiveCloses(chart, leaf, side, 1)
    BY <1>6 DEF EvaluateLeaf
  <2> QED
    BY <1>0, <1>2, <2>1, <2>2
<1>7. CASE leaf.kind = "retest_confirmed"
  <2> DEFINE broke == ConsecutiveCloses(chart, leaf, leaf.direction, 1)
             back == {i \in (broke + 1)..Len(chart) :
                        /\ chart[i].low  <= leaf.zone.high
                        /\ chart[i].high >= leaf.zone.low}
             returned == IF broke = 0 THEN 0 ELSE Earliest(back)
  <2>1. leaf.closes \in Nat \ {0} /\ 1 \in Nat \ {0}
    BY <1>7 DEF LeafKind, Counted
  <2>2. EvaluateLeaf(leaf, chart) =
          IF returned = 0 THEN 0 ELSE ConsecutiveCloses(chart, leaf, leaf.direction, returned + 1)
    BY <1>7 DEF EvaluateLeaf, RetestConfirmed
  <2>3. broke \in Nat
    BY <1>0, <1>2, <2>1
  <2>4. back \subseteq Nat
    BY <2>3
  <2>5. returned \in Nat
    <3> HIDE DEF broke, back
    <3> QED
      BY <2>4, EarliestIs
  <2> HIDE DEF returned
  <2> QED
    BY <1>0, <1>2, <2>1, <2>2, <2>5
<1> QED
  BY <1>4, <1>5, <1>6, <1>7 DEF LeafKind, Counted

(* A retest on the newest candles is one on the whole chart. *)
LEMMA RetestEarlier ==
  ASSUME NEW part, NEW chart, NEW d, Ends(part, chart, d),
         NEW leaf, leaf.closes \in Nat \ {0}, RetestConfirmed(part, leaf) # 0
  PROVE  RetestConfirmed(chart, leaf) # 0
<1> DEFINE broke(on) == ConsecutiveCloses(on, leaf, leaf.direction, 1)
           back(on) == {i \in (broke(on) + 1)..Len(on) :
                          /\ on[i].low  <= leaf.zone.high
                          /\ on[i].high >= leaf.zone.low}
           returned(on) == IF broke(on) = 0 THEN 0 ELSE Earliest(back(on))
           left(on) == ConsecutiveCloses(on, leaf, leaf.direction, returned(on) + 1)
<1>1. \A on : RetestConfirmed(on, leaf) = IF returned(on) = 0 THEN 0 ELSE left(on)
  BY DEF RetestConfirmed
<1>2. returned(part) # 0 /\ left(part) # 0 /\ broke(part) # 0
  BY <1>1
<1>3. d \in Nat /\ Len(part) \in Nat /\ Len(chart) = Len(part) + d
  BY DEF Ends
<1>4. /\ broke(part) \in 1..Len(part) /\ broke(chart) \in 1..Len(chart)
      /\ broke(chart) <= broke(part) + d
  <2>1. 1 \in Nat \ {0} /\ 1 <= 1 + d
    BY <1>3
  <2> QED
    BY <1>2, <2>1, ClosesEarlier
<1>5. back(part) \subseteq Nat /\ back(chart) \subseteq Nat
  BY <1>4
<1>6. ASSUME NEW i \in back(part)
      PROVE  i + d \in back(chart)
  <2>1. /\ i \in (broke(part) + 1)..Len(part)
        /\ part[i].low <= leaf.zone.high /\ part[i].high >= leaf.zone.low
    BY <1>6
  <2>2. i + d \in (broke(chart) + 1)..Len(chart) /\ i \in 1..Len(part)
    BY <1>3, <1>4, <2>1
  <2>3. chart[i + d] = part[i]
    BY <2>2 DEF Ends
  <2> QED
    BY <2>1, <2>2, <2>3
<1>7. /\ returned(part) \in Nat \ {0} /\ returned(chart) \in Nat \ {0}
      /\ returned(chart) <= returned(part) + d
  <2> DEFINE b1 == back(part)
             b2 == back(chart)
  <2>1. /\ returned(part) = Earliest(b1) /\ returned(chart) = Earliest(b2)
        /\ \A i \in b2 : i # 0
    BY <1>2, <1>4
  <2>2. b1 \subseteq Nat /\ b2 \subseteq Nat /\ (\A i \in b1 : i + d \in b2)
    BY <1>5, <1>6
  <2> HIDE DEF b1, b2, returned
  <2>3. b1 # {}
    BY <1>2, <2>1, <2>2, EarliestIs
  <2>4. Earliest(b1) \in b1 /\ Earliest(b1) + d \in b2
    BY <2>2, <2>3, EarliestIs
  <2>5. Earliest(b2) \in b2 /\ Earliest(b2) <= Earliest(b1) + d
    BY <2>2, <2>4, EarliestIs
  <2> QED
    BY <1>2, <2>1, <2>2, <2>4, <2>5
<1>8. left(chart) # 0
  <2> HIDE DEF returned
  <2>1. /\ returned(part) + 1 \in Nat \ {0} /\ returned(chart) + 1 \in Nat \ {0}
        /\ returned(chart) + 1 <= (returned(part) + 1) + d
    BY <1>3, <1>7
  <2>2. left(chart) \in (returned(chart) + 1)..Len(chart)
    BY <1>2, <2>1, ClosesEarlier
  <2> QED
    BY <1>7, <2>2
<1> QED
  BY <1>1, <1>7, <1>8

(* What a candle has to be for a condition other than a retest. *)
Holds(leaf, bar) ==
  CASE leaf.kind = "price_touch"         -> Touched(bar, leaf)
    [] leaf.kind = "rejection_confirmed" -> Rejects(bar, leaf)
    [] leaf.kind = "breakout_confirmed"  -> ClosesBeyond(bar, leaf, leaf.direction)
    [] OTHER                             -> ClosesBeyond(bar, leaf, CloseSide(leaf))

Steady(leaf) == LeafKind(leaf) /\ leaf.kind # "retest_confirmed"

(* A condition that is no retest is met at the end of as many such candles as it remembers. *)
LEMMA LeafWindow ==
  ASSUME NEW T, NEW chart \in Seq(T), NEW leaf, Steady(leaf)
  PROVE  /\ Memory(leaf) \in Nat \ {0}
         /\ EvaluateLeaf(leaf, chart) = 0 <=>
              \A i \in Memory(leaf)..Len(chart) :
                \E j \in (i - Memory(leaf) + 1)..i : ~Holds(leaf, chart[j])
<1> DEFINE m == Memory(leaf)
           met == {i \in m..Len(chart) : \A j \in (i - m + 1)..i : Holds(leaf, chart[j])}
<1>0. Len(chart) \in Nat
  OBVIOUS
<1>1. m \in Nat \ {0}
  BY DEF Steady, LeafKind, Counted, Memory
<1>2. EvaluateLeaf(leaf, chart) = Earliest(met)
  <2>1. CASE leaf.kind = "price_touch"
    <3>1. m = 1 /\ \A bar : Holds(leaf, bar) = Touched(bar, leaf)
      BY <2>1 DEF Memory, Holds
    <3>2. EvaluateLeaf(leaf, chart) = Earliest({i \in 1..Len(chart) : Touched(chart[i], leaf)})
      BY <2>1 DEF EvaluateLeaf
    <3> HIDE DEF m
    <3>3. met = {i \in 1..Len(chart) : Touched(chart[i], leaf)}
      BY <3>1
    <3> QED
      BY <3>2, <3>3
  <2>2. CASE leaf.kind = "rejection_confirmed"
    <3>1. m = 1 /\ \A bar : Holds(leaf, bar) = Rejects(bar, leaf)
      BY <2>2 DEF Memory, Holds
    <3>2. EvaluateLeaf(leaf, chart) = Earliest({i \in 1..Len(chart) : Rejects(chart[i], leaf)})
      BY <2>2 DEF EvaluateLeaf
    <3> HIDE DEF m
    <3>3. met = {i \in 1..Len(chart) : Rejects(chart[i], leaf)}
      BY <3>1
    <3> QED
      BY <3>2, <3>3
  <2>3. CASE leaf.kind \in {"candle_close_above", "candle_close_below", "breakout_confirmed"}
    <3> DEFINE side == IF leaf.kind = "breakout_confirmed" THEN leaf.direction ELSE CloseSide(leaf)
    <3>1. m = leaf.closes /\ \A bar : Holds(leaf, bar) = ClosesBeyond(bar, leaf, side)
      BY <2>3 DEF Memory, Holds
    <3>2. EvaluateLeaf(leaf, chart) = ConsecutiveCloses(chart, leaf, side, 1)
      BY <2>3 DEF EvaluateLeaf
    <3>3. ConsecutiveCloses(chart, leaf, side, 1) =
            Earliest({i \in (1 + leaf.closes - 1)..Len(chart) :
                        \A j \in (i - leaf.closes + 1)..i : ClosesBeyond(chart[j], leaf, side)})
      BY DEF ConsecutiveCloses
    <3>4. 1 + leaf.closes - 1 = leaf.closes
      BY <1>1, <3>1
    <3> HIDE DEF m, side
    <3>5. met = {i \in (1 + leaf.closes - 1)..Len(chart) :
                   \A j \in (i - leaf.closes + 1)..i : ClosesBeyond(chart[j], leaf, side)}
      BY <3>1, <3>4
    <3> QED
      BY <3>2, <3>3, <3>5
  <2> QED
    BY <2>1, <2>2, <2>3 DEF Steady, LeafKind, Counted
<1>3. met \subseteq Nat /\ \A i \in met : i # 0
  BY <1>0, <1>1
<1>4. Earliest(met) = 0 <=> met = {}
  <2> HIDE DEF met
  <2> QED
    BY <1>3, EarliestIs
<1> HIDE DEF m
<1>5. met = {} <=> \A i \in m..Len(chart) : \E j \in (i - m + 1)..i : ~Holds(leaf, chart[j])
  OBVIOUS
<1> QED
  BY <1>1, <1>2, <1>4, <1>5 DEF m

(* A condition that is met on the newest candles is met on the whole chart: a touch, closes *)
(* in a row and the three phases of a retest stay where they are.                           *)
LEMMA LeafEarlier ==
  ASSUME NEW T, NEW part \in Seq(T), NEW chart \in Seq(T), NEW d, Ends(part, chart, d),
         NEW leaf, LeafKind(leaf), EvaluateLeaf(leaf, part) # 0
  PROVE  EvaluateLeaf(leaf, chart) # 0
<1>1. CASE leaf.kind = "retest_confirmed"
  <2>1. /\ EvaluateLeaf(leaf, part) = RetestConfirmed(part, leaf)
        /\ EvaluateLeaf(leaf, chart) = RetestConfirmed(chart, leaf)
    BY <1>1 DEF EvaluateLeaf
  <2>2. leaf.closes \in Nat \ {0}
    BY <1>1 DEF LeafKind
  <2> QED
    BY <2>1, <2>2, RetestEarlier
<1>2. CASE leaf.kind # "retest_confirmed"
  <2> DEFINE m == Memory(leaf)
  <2>1. Steady(leaf) /\ m \in Nat \ {0}
    BY <1>2, LeafWindow DEF Steady
  <2>2. PICK i \in m..Len(part) : \A j \in (i - m + 1)..i : Holds(leaf, part[j])
    BY <2>1, LeafWindow
  <2>3. d \in Nat /\ Len(part) \in Nat /\ Len(chart) = Len(part) + d
    BY DEF Ends
  <2> DEFINE k == i + d
  <2> HIDE DEF m
  <2>4. k \in m..Len(chart)
    BY <2>1, <2>2, <2>3
  <2>5. ASSUME NEW j \in (k - m + 1)..k
        PROVE  Holds(leaf, chart[j])
    <3>1. j - d \in (i - m + 1)..i /\ j - d \in 1..Len(part) /\ (j - d) + d = j
      BY <2>1, <2>2, <2>3
    <3>2. chart[j] = part[j - d]
      BY <3>1 DEF Ends
    <3> QED
      BY <2>2, <3>1, <3>2
  <2> HIDE DEF k
  <2> QED
    BY <2>1, <2>4, <2>5, LeafWindow DEF m
<1> QED
  BY <1>1, <1>2

(* So is a rule, alone or composed. *)
LEMMA RuleEarlier ==
  ASSUME NEW T, NEW part \in Seq(T), NEW chart \in Seq(T), NEW d, Ends(part, chart, d),
         NEW r \in Rule, EvaluateActivation(r, part) # 0
  PROVE  EvaluateActivation(r, chart) # 0
<1> DEFINE met(on) == {EvaluateLeaf(leaf, on) : leaf \in Leaves(r)}
           all == r.kind = "composite" /\ r.operator = "all"
<1>1. \A on : EvaluateActivation(r, on) = IF all THEN IF 0 \in met(on) THEN 0 ELSE Latest(met(on))
                                                 ELSE Earliest(met(on) \ {0})
  BY DEF EvaluateActivation
<1>2. \A leaf \in Leaves(r) : LeafKind(leaf)
  BY RuleAssumption DEF LeafKind
<1>3. met(part) \subseteq 0..Len(part) /\ met(chart) \subseteq 0..Len(chart)
  BY <1>2, LeafPlace
<1>4. \A leaf \in Leaves(r) : EvaluateLeaf(leaf, part) # 0 => EvaluateLeaf(leaf, chart) # 0
  BY <1>2, LeafEarlier
<1>5. Len(chart) \in Nat /\ Len(part) \in Nat
  OBVIOUS
<1>6. CASE all
  <2>1. 0 \notin met(part) /\ Latest(met(part)) # 0
    BY <1>1, <1>6
  <2>2. Leaves(r) # {}
    BY <2>1 DEF Latest
  <2>3. 0 \notin met(chart) /\ met(chart) # {}
    BY <1>4, <2>1, <2>2
  <2>4. met(chart) \subseteq 1..Len(chart)
    BY <1>3, <1>5, <2>3
  <2> DEFINE places == met(chart)
  <2> HIDE DEF met, places
  <2>5. Latest(places) \in places
    BY <1>5, <2>3, <2>4, LatestIs DEF places
  <2> QED
    BY <1>1, <1>6, <2>3, <2>5 DEF places
<1>7. CASE ~all
  <2> DEFINE p == met(part) \ {0}
             c == met(chart) \ {0}
  <2>1. Earliest(p) # 0
    BY <1>1, <1>7
  <2>2. p \subseteq Nat /\ c \subseteq Nat /\ 0 \notin c
    BY <1>3, <1>5
  <2>3. ASSUME p # {}
        PROVE  c # {}
    <3>1. PICK leaf \in Leaves(r) : EvaluateLeaf(leaf, part) # 0
      BY <2>3
    <3>2. EvaluateLeaf(leaf, chart) \in c
      BY <1>4, <3>1
    <3> QED
      BY <3>2
  <2> HIDE DEF p, c
  <2>4. c # {}
    BY <2>1, <2>2, <2>3, EarliestIs
  <2>5. Earliest(c) # 0
    BY <2>2, <2>4, EarliestIs
  <2> QED
    BY <1>1, <1>7, <2>5 DEF c
<1> QED
  BY <1>6, <1>7

-----------------------------------------------------------------------------
(* Types of the plan, and its clock: a waiting plan has a rule, and no more candles than *)
(* MaxGap have opened since the last evaluation, none of them before it began to wait.   *)
PlanTypes ==
  /\ status \in {"FORMING", "WAITING_CONFIRMATION", "READY", "INVALIDATED", "TARGET_REACHED"}
  /\ bars \in Seq(Bar) /\ Len(bars) <= MaxBars
  /\ lastPass \in Nat /\ asked \in Nat
  /\ status = "WAITING_CONFIRMATION" =>
       /\ rule \in Rule /\ asked <= lastPass /\ lastPass <= Len(bars)
       /\ Len(bars) - lastPass <= MaxGap

(* At no candle from candle k of the chart on, and before candle n, has a condition been *)
(* met by candles the plan has waited for.                                               *)
Unmet(leaf, chart, k, n) ==
  \A i \in (k + Memory(leaf))..n :
    \E j \in (i - Memory(leaf) + 1)..i : ~Holds(leaf, chart[j])

(* A rule that fits the window has not been met by candles that were closed when the *)
(* waiting plan was last evaluated.                                                  *)
NothingMissed ==
  status = "WAITING_CONFIRMATION" /\ FitsWindow =>
    \A leaf \in Leaves(rule) : Steady(leaf) => Unmet(leaf, bars, asked, lastPass - 1)

PlanInv == PlanTypes /\ NothingMissed

(* What an evaluation loads are the newest candles of the plan, at least Window of them if *)
(* there are as many.                                                                      *)
LEMMA LoadedIs ==
  ASSUME PlanTypes
  PROVE  \E d \in Nat : /\ Loaded \in Seq(Bar) /\ Ends(Loaded, bars, d)
                        /\ d = 0 \/ d = Len(bars) - Window
<1>1. /\ Len(bars) \in Nat /\ Window \in Nat /\ bars \in Seq(Bar)
  BY PlanAssumption DEF PlanTypes
<1> DEFINE S == {1, Len(bars) - Window + 1}
           k == Max(S)
<1>2. k \in S /\ \A n \in S : n <= k
  <2>1. 1 \in Int /\ Len(bars) - Window + 1 \in Int
    BY <1>1
  <2>2. \E x \in S : \A y \in S : x >= y
    BY <2>1
  <2>3. k \in S /\ \A n \in S : k >= n
    <3> HIDE DEF S
    <3> QED
      BY <2>2 DEF Max
  <2> QED
    BY <2>1, <2>3
<1>3. k \in 1..(Len(bars) + 1) /\ (k = 1 \/ k = Len(bars) - Window + 1)
  BY <1>1, <1>2
<1>4. Loaded = SubSeq(bars, k, Len(bars))
  BY DEF Loaded
<1> HIDE DEF k
<1>5. Loaded \in Seq(Bar) /\ Ends(Loaded, bars, k - 1)
  BY <1>1, <1>3, <1>4, NewestEnds
<1>6. k - 1 \in Nat /\ (k - 1 = 0 \/ k - 1 = Len(bars) - Window)
  BY <1>1, <1>3
<1> QED
  BY <1>5, <1>6

(* A plan that stays waiting had neither stop nor target touched, and its rule not met. *)
LEMMA StaysWaiting ==
  ASSUME PlanTypes, status = "WAITING_CONFIRMATION", Evaluate
  PROVE  /\ status' = "WAITING_CONFIRMATION" => EvaluateActivation(rule, Loaded) = 0
         /\ status' = "READY" => EvaluateActivation(rule, Loaded) # 0
         /\ status' \in {"WAITING_CONFIRMATION", "READY", "INVALIDATED", "TARGET_REACHED"}
<1> DEFINE s == StopAt(Loaded)
           t == TargetAt(Loaded)
<1>1. s \in Nat /\ t \in Nat
  <2>1. Len(Loaded) \in Nat
    BY LoadedIs DEF Ends
  <2> DEFINE stops == {i \in 1..Len(Loaded) : Loaded[i].low <= StopLevel}
             targets == {i \in 1..Len(Loaded) : Loaded[i].high >= TargetLevel}
  <2>2. stops \subseteq Nat /\ targets \subseteq Nat
    BY <2>1
  <2>3. s = Earliest(stops) /\ t = Earliest(targets)
    BY DEF StopAt, TargetAt
  <2> HIDE DEF stops, targets
  <2> QED
    BY <2>2, <2>3, EarliestIs
<1>2. status' = CASE s # 0 /\ (t = 0 \/ s <= t) -> "INVALIDATED"
                  [] t # 0 /\ (s = 0 \/ t < s) -> "TARGET_REACHED"
                  [] s = 0 /\ t = 0 /\ EvaluateActivation(rule, Loaded) # 0 -> "READY"
                  [] OTHER -> "WAITING_CONFIRMATION"
  BY DEF Evaluate, StatusAfter
<1> HIDE DEF s, t
<1> QED
  BY <1>1, <1>2

(* What the newest candles do not meet has not been met while the plan waited: older *)
(* candles were looked at before, and the rest is loaded.                            *)
LEMMA NothingSince ==
  ASSUME PlanInv, status = "WAITING_CONFIRMATION", FitsWindow,
         EvaluateActivation(rule, Loaded) = 0
  PROVE  \A leaf \in Leaves(rule) :
           /\ EvaluateLeaf(leaf, Loaded) = 0
           /\ Steady(leaf) => Unmet(leaf, bars, asked, Len(bars))
           /\ ~Steady(leaf) => Loaded = bars
<1>1. /\ rule \in Rule /\ asked \in Nat /\ lastPass \in Nat /\ asked <= lastPass
      /\ lastPass <= Len(bars) /\ Len(bars) - lastPass <= MaxGap /\ Len(bars) \in Nat
      /\ Len(bars) <= MaxBars /\ bars \in Seq(Bar)
      /\ MaxGap \in Nat /\ Window \in Nat /\ MaxBars \in Nat
  BY PlanAssumption DEF PlanInv, PlanTypes
<1>2. PICK d \in Nat : /\ Loaded \in Seq(Bar) /\ Ends(Loaded, bars, d)
                       /\ d = 0 \/ d = Len(bars) - Window
  BY LoadedIs DEF PlanInv
<1>3. \A leaf \in Leaves(rule) : LeafKind(leaf)
  BY <1>1, RuleAssumption DEF LeafKind
<1>4. \A leaf \in Leaves(rule) : EvaluateLeaf(leaf, Loaded) = 0
  <2> DEFINE outcomes == {EvaluateLeaf(leaf, Loaded) : leaf \in Leaves(rule)}
             met == outcomes \ {0}
  <2>1. ~(rule.kind = "composite" /\ rule.operator = "all")
    BY DEF FitsWindow
  <2>2. Earliest(met) = 0
    BY <2>1 DEF EvaluateActivation
  <2>3. met \subseteq Nat /\ 0 \notin met
    BY <1>2, <1>3, LeafPlace
  <2>4. met = {}
    <3> HIDE DEF met
    <3> QED
      BY <2>2, <2>3, EarliestIs
  <2> QED
    BY <2>4
<1>5. ASSUME NEW leaf \in Leaves(rule), Steady(leaf)
      PROVE  Unmet(leaf, bars, asked, Len(bars))
  <2> DEFINE m == Memory(leaf)
  <2>1. m \in Nat \ {0}
    BY <1>2, <1>5, LeafWindow
  <2>2. m + MaxGap <= Window
    BY DEF FitsWindow
  <2>3. Unmet(leaf, bars, asked, lastPass - 1)
    BY <1>5 DEF PlanInv, NothingMissed
  <2>4. \A i \in m..Len(Loaded) : \E j \in (i - m + 1)..i : ~Holds(leaf, Loaded[j])
    BY <1>2, <1>4, <1>5, LeafWindow
  <2> HIDE DEF m
  <2>5. ASSUME NEW i \in (asked + m)..Len(bars)
        PROVE  \E j \in (i - m + 1)..i : ~Holds(leaf, bars[j])
    <3>1. CASE i <= lastPass - 1
      <4>1. i \in (asked + m)..(lastPass - 1)
        BY <1>1, <2>1, <3>1
      <4> QED
        BY <2>3, <4>1 DEF Unmet, m
    <3>2. CASE ~(i <= lastPass - 1)
      <4> DEFINE k == i - d
      <4>1. /\ Len(Loaded) \in Nat /\ Len(bars) = Len(Loaded) + d
            /\ \A j \in 1..Len(Loaded) : Loaded[j] = bars[j + d]
        BY <1>2 DEF Ends
      <4>2. k \in m..Len(Loaded) /\ k + d = i
        BY <1>1, <1>2, <2>1, <2>2, <3>2, <4>1
      <4>3. PICK j \in (k - m + 1)..k : ~Holds(leaf, Loaded[j])
        BY <2>4, <4>2
      <4>4. j \in 1..Len(Loaded) /\ j + d \in (i - m + 1)..i
        BY <2>1, <4>1, <4>2, <4>3
      <4>5. ~Holds(leaf, bars[j + d])
        BY <4>1, <4>3, <4>4
      <4> QED
        BY <4>4, <4>5
    <3> QED
      BY <3>1, <3>2
  <2> QED
    BY <2>5 DEF Unmet, m
<1>6. ASSUME NEW leaf \in Leaves(rule), ~Steady(leaf)
      PROVE  Loaded = bars
  <2>1. leaf.kind = "retest_confirmed"
    BY <1>3, <1>6 DEF Steady
  <2>2. MaxBars + MaxGap <= Window
    BY <2>1 DEF FitsWindow, Memory
  <2>3. d = 0
    BY <1>1, <1>2, <2>2
  <2>4. Len(Loaded) = Len(bars) /\ \A i \in 1..Len(bars) : Loaded[i] = bars[i]
    <3>1. Len(Loaded) \in Nat /\ Len(bars) = Len(Loaded) + 0
          /\ \A i \in 1..Len(Loaded) : Loaded[i] = bars[i + 0]
      BY <1>2, <2>3 DEF Ends
    <3> QED
      BY <1>1, <3>1
  <2> QED
    BY <1>1, <1>2, <2>4
<1> QED
  BY <1>4, <1>5, <1>6

(* The plan keeps its types and its clock whatever it does. *)
LEMMA PlanTypesStep == PlanTypes /\ [Next]_vars => PlanTypes'
<1> SUFFICES ASSUME PlanTypes, [Next]_vars PROVE PlanTypes'
  OBVIOUS
<1>0. MaxGap \in Nat /\ MaxBars \in Nat /\ Len(bars) \in Nat /\ bars \in Seq(Bar)
  BY PlanAssumption DEF PlanTypes
<1>1. CASE UNCHANGED vars
  BY <1>1 DEF vars, PlanTypes
<1>2. CASE Evaluate
  <2>1. CASE status = "WAITING_CONFIRMATION"
    <3>1. status' \in {"WAITING_CONFIRMATION", "READY", "INVALIDATED", "TARGET_REACHED"}
      BY <1>2, <2>1, StaysWaiting
    <3>2. lastPass' = Len(bars) /\ UNCHANGED <<rule, bars, asked>>
      BY <1>2, <2>1 DEF Evaluate
    <3> QED
      BY <1>0, <2>1, <3>1, <3>2 DEF PlanTypes
  <2>2. CASE status = "FORMING"
    <3>1. status' \in {"FORMING", "INVALIDATED"}
      BY <1>2, <2>2 DEF Evaluate, StatusAfter
    <3>2. lastPass' = lastPass /\ UNCHANGED <<rule, bars, asked>>
      BY <1>2, <2>2 DEF Evaluate
    <3> QED
      BY <3>1, <3>2 DEF PlanTypes
  <2> QED
    BY <1>2, <2>1, <2>2 DEF Evaluate, Open
<1>3. CASE Confirm
  BY <1>0, <1>3 DEF Confirm, PlanTypes
<1>4. ASSUME NEW b \in Bar, NewBar(b)
      PROVE  PlanTypes'
  <2>1. bars' \in Seq(Bar) /\ Len(bars') = Len(bars) + 1
    BY <1>0, <1>4 DEF NewBar
  <2>2. /\ UNCHANGED <<rule, status, lastPass, asked>> /\ Len(bars) < MaxBars
        /\ status # "FORMING" => Len(bars) - lastPass < MaxGap
    BY <1>4 DEF NewBar
  <2> QED
    BY <1>0, <2>1, <2>2 DEF PlanTypes
<1>5. ASSUME NEW b \in Bar, GrowBar(b)
      PROVE  PlanTypes'
  <2>1. bars' \in Seq(Bar) /\ Len(bars') = Len(bars)
    BY <1>0, <1>5 DEF GrowBar
  <2>2. UNCHANGED <<rule, status, lastPass, asked>>
    BY <1>5 DEF GrowBar
  <2> QED
    BY <2>1, <2>2 DEF PlanTypes
<1> QED
  BY <1>1, <1>2, <1>3, <1>4, <1>5 DEF Next

(* Candles that were closed are not rewritten: what they did not meet they never meet. *)
LEMMA UnmetStays ==
  ASSUME NEW leaf, Memory(leaf) \in Nat \ {0}, NEW from \in Nat, NEW n \in Int,
         NEW chart, NEW next, \A i \in 1..n : next[i] = chart[i], Unmet(leaf, chart, from, n)
  PROVE  Unmet(leaf, next, from, n)
<1> DEFINE m == Memory(leaf)
<1>1. ASSUME NEW i \in (from + m)..n
      PROVE  \E j \in (i - m + 1)..i : ~Holds(leaf, next[j])
  <2>1. PICK j \in (i - m + 1)..i : ~Holds(leaf, chart[j])
    BY DEF Unmet
  <2>2. j \in 1..n
    BY <2>1
  <2> QED
    BY <2>1, <2>2
<1> QED
  BY <1>1 DEF Unmet

(* An evaluation looks at every place a rule that fits could have been met since the last. *)
LEMMA NothingMissedStep == PlanInv /\ [Next]_vars => NothingMissed'
<1> SUFFICES ASSUME PlanInv, [Next]_vars, (status = "WAITING_CONFIRMATION" /\ FitsWindow)',
                    NEW leaf \in Leaves(rule'), Steady(leaf)
             PROVE  Unmet(leaf, bars', asked', lastPass' - 1)
  BY DEF NothingMissed
<1>0. /\ PlanTypes /\ NothingMissed /\ bars \in Seq(Bar) /\ Len(bars) \in Nat
      /\ lastPass \in Nat /\ asked \in Nat
      /\ Memory(leaf) \in Nat \ {0}
  BY LeafWindow DEF PlanInv, PlanTypes
<1>1. CASE UNCHANGED vars
  <2>1. UNCHANGED <<rule, status, bars, lastPass, asked>>
    BY <1>1 DEF vars
  <2>2. status = "WAITING_CONFIRMATION" /\ FitsWindow
    BY <2>1 DEF FitsWindow
  <2> QED
    BY <1>0, <2>1, <2>2 DEF NothingMissed
<1>2. CASE Evaluate
  <2>1. status = "WAITING_CONFIRMATION"
    BY <1>2 DEF Evaluate, StatusAfter, Open
  <2>2. lastPass' = Len(bars) /\ UNCHANGED <<rule, bars, asked>>
    BY <1>2, <2>1 DEF Evaluate
  <2>3. FitsWindow /\ EvaluateActivation(rule, Loaded) = 0
    BY <1>0, <1>2, <2>1, <2>2, StaysWaiting DEF FitsWindow
  <2>4. Unmet(leaf, bars, asked, Len(bars))
    BY <2>1, <2>2, <2>3, NothingSince
  <2>5. \A i : i \in (asked + Memory(leaf))..(Len(bars) - 1) => i \in (asked + Memory(leaf))..Len(bars)
    BY <1>0
  <2>6. Unmet(leaf, bars, asked, Len(bars) - 1)
    BY <2>4, <2>5 DEF Unmet
  <2> QED
    BY <2>2, <2>6
<1>3. CASE Confirm
  <2>1. asked' = Len(bars) /\ lastPass' = Len(bars)
    BY <1>3 DEF Confirm
  <2>2. (Len(bars) + Memory(leaf))..(Len(bars) - 1) = {}
    BY <1>0
  <2> QED
    BY <2>1, <2>2 DEF Unmet
<1>4. ASSUME NEW b \in Bar, NewBar(b) \/ GrowBar(b)
      PROVE  Unmet(leaf, bars', asked', lastPass' - 1)
  <2>1. /\ UNCHANGED <<rule, status, lastPass, asked>>
        /\ bars' = Append(bars, b) \/ bars' = [bars EXCEPT ![Len(bars)] = b]
    BY <1>4 DEF NewBar, GrowBar
  <2>2. status = "WAITING_CONFIRMATION" /\ FitsWindow
    BY <2>1 DEF FitsWindow
  <2>3. lastPass <= Len(bars)
    BY <1>0, <2>2 DEF PlanTypes
  <2>4. \A i \in 1..(lastPass - 1) : bars'[i] = bars[i]
    <3>1. \A i \in 1..(lastPass - 1) : i \in 1..Len(bars) /\ i # Len(bars)
      BY <1>0, <2>3
    <3>2. CASE bars' = Append(bars, b)
      BY <1>0, <3>1, <3>2
    <3>3. CASE bars' = [bars EXCEPT ![Len(bars)] = b]
      BY <1>0, <3>1, <3>3
    <3> QED
      BY <2>1, <3>2, <3>3
  <2>5. Unmet(leaf, bars, asked, lastPass - 1)
    BY <1>0, <2>1, <2>2 DEF NothingMissed
  <2>6. lastPass - 1 \in Int
    BY <1>0
  <2>7. Unmet(leaf, bars', asked, lastPass - 1)
    BY <1>0, <2>4, <2>5, <2>6, UnmetStays
  <2> QED
    BY <2>1, <2>7
<1> QED
  BY <1>1, <1>2, <1>3, <1>4 DEF Next

(* A plan starts with no candles and no rule. *)
LEMMA InitPlan == Init => PlanInv
<1> SUFFICES ASSUME Init PROVE PlanInv
  OBVIOUS
<1>1. bars = <<>> /\ status = "FORMING" /\ lastPass = 0 /\ asked = 0
  BY DEF Init
<1>2. MaxBars \in Nat /\ Len(<<>>) = 0 /\ <<>> \in Seq(Bar)
  BY PlanAssumption
<1> QED
  BY <1>1, <1>2 DEF PlanInv, PlanTypes, NothingMissed

(* What an evaluation of a waiting plan concludes: see EvaluationIsExact. *)
LEMMA EvaluationStep ==
  ASSUME PlanInv, Evaluate, status = "WAITING_CONFIRMATION"
  PROVE  /\ status' = "READY" => EvaluateActivation(rule, bars) # 0
         /\ status' = "WAITING_CONFIRMATION" /\ FitsWindow =>
              EvaluateActivation(rule, SubSeq(bars, asked + 1, Len(bars))) = 0
<1>0. /\ PlanTypes /\ rule \in Rule /\ bars \in Seq(Bar) /\ Len(bars) \in Nat /\ asked \in Nat
      /\ asked <= Len(bars)
  BY DEF PlanInv, PlanTypes
<1>1. PICK d \in Nat : Loaded \in Seq(Bar) /\ Ends(Loaded, bars, d)
  BY <1>0, LoadedIs
<1>2. ASSUME status' = "READY"
      PROVE  EvaluateActivation(rule, bars) # 0
  <2>1. EvaluateActivation(rule, Loaded) # 0
    BY <1>0, <1>2, StaysWaiting
  <2> QED
    BY <1>0, <1>1, <2>1, RuleEarlier
<1>3. ASSUME status' = "WAITING_CONFIRMATION", FitsWindow
      PROVE  EvaluateActivation(rule, SubSeq(bars, asked + 1, Len(bars))) = 0
  <2> DEFINE since == SubSeq(bars, asked + 1, Len(bars))
  <2>1. EvaluateActivation(rule, Loaded) = 0
    BY <1>0, <1>3, StaysWaiting
  <2>2. asked + 1 \in 1..(Len(bars) + 1)
    BY <1>0
  <2>3. since \in Seq(Bar) /\ Ends(since, bars, (asked + 1) - 1)
    BY <1>0, <2>2, NewestEnds
  <2>4. Ends(since, bars, asked)
    <3>1. (asked + 1) - 1 = asked
      BY <1>0
    <3> QED
      BY <2>3, <3>1
  <2> HIDE DEF since
  <2>5. \A leaf \in Leaves(rule) : LeafKind(leaf)
    BY <1>0, RuleAssumption DEF LeafKind
  <2>6. ASSUME NEW leaf \in Leaves(rule)
        PROVE  EvaluateLeaf(leaf, since) = 0
    <3>1. /\ EvaluateLeaf(leaf, Loaded) = 0
          /\ Steady(leaf) => Unmet(leaf, bars, asked, Len(bars))
          /\ ~Steady(leaf) => Loaded = bars
      BY <1>3, <2>1, NothingSince
    <3>2. CASE ~Steady(leaf)
      BY <1>0, <2>3, <2>4, <2>5, <3>1, <3>2, LeafEarlier
    <3>3. CASE Steady(leaf)
      <4> DEFINE m == Memory(leaf)
      <4>1. m \in Nat \ {0}
        BY <2>3, <3>3, LeafWindow
      <4>2. Unmet(leaf, bars, asked, Len(bars))
        BY <3>1, <3>3
      <4> HIDE DEF m
      <4>3. /\ Len(since) \in Nat /\ Len(bars) = Len(since) + asked
            /\ \A j \in 1..Len(since) : since[j] = bars[j + asked]
        BY <2>4 DEF Ends
      <4>4. ASSUME NEW i \in m..Len(since)
            PROVE  \E j \in (i - m + 1)..i : ~Holds(leaf, since[j])
        <5> DEFINE k == i + asked
        <5>1. k \in (asked + m)..Len(bars)
          BY <1>0, <4>1, <4>3
        <5>2. PICK j \in (k - m + 1)..k : ~Holds(leaf, bars[j])
          <6> HIDE DEF k
          <6> QED
            BY <4>2, <5>1 DEF Unmet, m
        <5>3. j - asked \in (i - m + 1)..i /\ j - asked \in 1..Len(since) /\ (j - asked) + asked = j
          BY <1>0, <4>1, <4>3, <5>2
        <5>4. since[j - asked] = bars[j]
          BY <4>3, <5>3
        <5> QED
          BY <5>2, <5>3, <5>4
      <4> QED
        BY <2>3, <3>3, <4>4, LeafWindow DEF m
    <3> QED
      BY <3>2, <3>3
  <2>7. ~(rule.kind = "composite" /\ rule.operator = "all")
    BY <1>3 DEF FitsWindow
  <2>8. {EvaluateLeaf(leaf, since) : leaf \in Leaves(rule)} \ {0} = {}
    BY <2>6
  <2> QED
    BY <2>7, <2>8 DEF EvaluateActivation, Earliest, since
<1> QED
  BY <1>2, <1>3

(* An evaluation that makes a plan READY does so on a rule its whole chart meets, and one *)
(* that leaves it waiting has missed nothing since it began to wait when the rule fits    *)
(* the window (EvaluationIsExact): the tracker loads only TRACKER_BARS candles, the last   *)
(* of them still forming, and runs when it runs.                                           *)
THEOREM ActivationIsExact == Spec => EvaluationIsExact
<1>1. PlanInv /\ [Next]_vars => PlanInv'
  BY PlanTypesStep, NothingMissedStep DEF PlanInv
<1>2. Spec => []PlanInv
  BY <1>1, InitPlan, PTL DEF Spec
<1>3. PlanInv /\ [Next]_vars =>
        [Evaluate /\ status = "WAITING_CONFIRMATION" =>
           /\ status' = "READY" => EvaluateActivation(rule, bars) # 0
           /\ status' = "WAITING_CONFIRMATION" /\ FitsWindow =>
                EvaluateActivation(rule, SubSeq(bars, asked + 1, Len(bars))) = 0]_vars
  BY EvaluationStep
<1> QED
  BY <1>2, <1>3, PTL DEF Spec, EvaluationIsExact
-----------------------------------------------------------------------------
Candle == [low : Int, close : Int, high : Int]
Sides  == {"high", "low"}

(* The confirmed pivots of a chart (a tape of candles), as the zigzag holds them. *)
Pivots(tape) ==
  {p \in [index : 1..Len(tape), kind : Sides, depth : Int] :
     /\ IsPivot(tape, p.index, p.kind, Lookback)
     /\ p.depth = Extreme(tape[p.index], p.kind)}

(* A pivot is where and what its candle says, and has its number. *)
LEMMA PivotsAre ==
  ASSUME NEW tape \in Seq(Candle)
  PROVE  /\ \A i \in 1..Len(tape), side \in Sides :
              /\ Extreme(tape[i], side) \in Int
              /\ IsPivot(tape, i, side, Lookback) => PivotOf(tape, i, side) \in Pivots(tape)
         /\ \A p \in Pivots(tape) : p = PivotOf(tape, p.index, p.kind)
<1>1. ASSUME NEW i \in 1..Len(tape), NEW side \in Sides
      PROVE  /\ Extreme(tape[i], side) \in Int
             /\ IsPivot(tape, i, side, Lookback) => PivotOf(tape, i, side) \in Pivots(tape)
  <2>1. tape[i] \in Candle
    BY <1>1
  <2>2. Extreme(tape[i], side) \in Int
    BY <2>1 DEF Candle, Extreme
  <2> QED
    BY <2>2 DEF PivotOf, Pivots
<1>2. ASSUME NEW p \in Pivots(tape)
      PROVE  p = PivotOf(tape, p.index, p.kind)
  BY <1>2 DEF Pivots, PivotOf
<1> QED
  BY <1>1, <1>2

(* Some pivots in the order of their candles, with every pivot of the first n candles. *)
InOrder(tape, s, n) ==
  /\ s \in Seq(Pivots(tape))
  /\ \A k \in 1..Len(s) : s[k].index <= n
  /\ \A j, k \in 1..Len(s) : j <= k => s[j].index <= s[k].index
  /\ \A p \in Pivots(tape) : p.index <= n => \E k \in 1..Len(s) : s[k] = p

(* All the pivots of a candle. *)
OfCandle(tape, s, i) ==
  /\ s \in Seq(Pivots(tape))
  /\ \A k \in 1..Len(s) : s[k].index = i
  /\ \A p \in Pivots(tape) : p.index = i => \E k \in 1..Len(s) : s[k] = p

(* The pivots of one candle are the two there may be. *)
LEMMA PivotsAtIs ==
  ASSUME NEW tape \in Seq(Candle), NEW i \in 1..Len(tape)
  PROVE  OfCandle(tape, PivotsAt(tape, i, Lookback), i)
<1> DEFINE P == {p \in Pivots(tape) : p.index = i}
           At(side) == IF IsPivot(tape, i, side, Lookback) THEN <<PivotOf(tape, i, side)>> ELSE <<>>
           s == At("high") \o At("low")
<1>1. ASSUME NEW side \in Sides
      PROVE  /\ At(side) \in Seq(P)
             /\ \A p \in Pivots(tape) : p.index = i /\ p.kind = side =>
                  \E k \in 1..Len(At(side)) : At(side)[k] = p
  <2> DEFINE here == PivotOf(tape, i, side)
  <2>1. IsPivot(tape, i, side, Lookback) => here \in P
    BY PivotsAre DEF PivotOf
  <2>2. ASSUME NEW p \in Pivots(tape), p.index = i, p.kind = side
        PROVE  IsPivot(tape, i, side, Lookback) /\ p = here
    BY <2>2, PivotsAre DEF Pivots
  <2> HIDE DEF P, here
  <2>3. CASE IsPivot(tape, i, side, Lookback)
    <3>1. At(side) = <<here>> /\ here \in P
      BY <2>1, <2>3 DEF here
    <3> QED
      BY <2>2, <3>1
  <2>4. CASE ~IsPivot(tape, i, side, Lookback)
    BY <2>2, <2>4
  <2> QED
    BY <2>3, <2>4
<1> HIDE DEF At
<1>2. At("high") \in Seq(P) /\ At("low") \in Seq(P) /\ s \in Seq(P)
  <2> HIDE DEF P
  <2> QED
    BY <1>1, Concatenated DEF Sides
<1>3. s \in Seq(Pivots(tape)) /\ \A k \in 1..Len(s) : s[k].index = i
  <2> HIDE DEF s
  <2>1. \A k \in 1..Len(s) : s[k] \in P
    BY <1>2
  <2> QED
    BY <1>2, <2>1
<1>4. ASSUME NEW p \in Pivots(tape), p.index = i
      PROVE  \E k \in 1..Len(s) : s[k] = p
  <2> HIDE DEF P
  <2>1. p.kind = "high" \/ p.kind = "low"
    BY DEF Pivots, Sides
  <2>2. CASE p.kind = "high"
    <3>1. PICK k \in 1..Len(At("high")) : At("high")[k] = p
      BY <1>1, <1>4, <2>2 DEF Sides
    <3>2. k \in 1..Len(s) /\ s[k] = p
      BY <1>2, <3>1, Concatenated
    <3> QED
      BY <3>2
  <2>3. CASE p.kind = "low"
    <3>1. PICK k \in 1..Len(At("low")) : At("low")[k] = p
      BY <1>1, <1>4, <2>3 DEF Sides
    <3>2. Len(At("high")) + k \in 1..Len(s) /\ s[Len(At("high")) + k] = p
      BY <1>2, <3>1, Concatenated
    <3> QED
      BY <3>2
  <2> QED
    BY <2>1, <2>2, <2>3
<1>5. s = PivotsAt(tape, i, Lookback)
  BY DEF PivotsAt, At
<1> HIDE DEF s
<1> QED
  BY <1>3, <1>4, <1>5 DEF OfCandle

(* The pivots of the candles up to one, and then its own, are those up to it. *)
LEMMA InOrderStep ==
  ASSUME NEW tape \in Seq(Candle), NEW i \in 1..Len(tape),
         NEW h, h = i - 1, NEW s, InOrder(tape, s, h), NEW t, OfCandle(tape, t, i)
  PROVE  InOrder(tape, s \o t, i)
<1>0. i \in Nat /\ Len(tape) \in Nat /\ s \in Seq(Pivots(tape)) /\ t \in Seq(Pivots(tape))
  BY DEF InOrder, OfCandle
<1> DEFINE u == s \o t
<1>1. /\ u \in Seq(Pivots(tape)) /\ Len(s) \in Nat /\ Len(u) = Len(s) + Len(t)
      /\ \A k \in 1..Len(s) : u[k] = s[k]
      /\ \A k \in 1..Len(t) : u[Len(s) + k] = t[k]
      /\ \A k \in 1..Len(u) : k \in 1..Len(s) \/ k - Len(s) \in 1..Len(t)
  BY <1>0, Concatenated
<1> HIDE DEF u
<1>2. ASSUME NEW k \in 1..Len(u)
      PROVE  /\ u[k] \in Pivots(tape) /\ u[k].index \in Int
             /\ k \in 1..Len(s) => u[k] = s[k] /\ u[k].index <= i - 1
             /\ k \notin 1..Len(s) => u[k].index = i
  <2>1. u[k] \in Pivots(tape) /\ u[k].index \in Int
    <3>1. u[k] \in Pivots(tape)
      BY <1>1
    <3> QED
      BY <3>1 DEF Pivots
  <2>2. ASSUME k \in 1..Len(s)
        PROVE  u[k] = s[k] /\ u[k].index <= i - 1
    BY <1>0, <1>1, <2>2 DEF InOrder
  <2>3. ASSUME k \notin 1..Len(s)
        PROVE  u[k].index = i
    <3>1. k - Len(s) \in 1..Len(t) /\ Len(s) + (k - Len(s)) = k
      BY <1>1, <2>3
    <3>2. u[k] = t[k - Len(s)]
      BY <1>1, <3>1
    <3> QED
      BY <3>1, <3>2 DEF OfCandle
  <2> QED
    BY <2>1, <2>2, <2>3
<1>3. \A k \in 1..Len(u) : u[k].index <= i
  BY <1>0, <1>2
<1>4. ASSUME NEW j \in 1..Len(u), NEW k \in 1..Len(u), j <= k
      PROVE  u[j].index <= u[k].index
  <2>1. CASE k \in 1..Len(s)
    <3>1. j \in 1..Len(s)
      BY <1>1, <1>4, <2>1
    <3>2. s[j].index <= s[k].index
      BY <1>4, <2>1, <3>1 DEF InOrder
    <3> QED
      BY <1>2, <2>1, <3>1, <3>2
  <2>2. CASE k \notin 1..Len(s)
    BY <1>0, <1>2, <1>3, <2>2
  <2> QED
    BY <2>1, <2>2
<1>5. ASSUME NEW p \in Pivots(tape), p.index <= i
      PROVE  \E k \in 1..Len(u) : u[k] = p
  <2>1. p.index \in Int
    BY DEF Pivots
  <2>2. CASE p.index = i
    <3>1. PICK k \in 1..Len(t) : t[k] = p
      BY <2>2 DEF OfCandle
    <3>2. Len(s) + k \in 1..Len(u) /\ u[Len(s) + k] = p
      BY <1>1, <3>1
    <3> QED
      BY <3>2
  <2>3. CASE p.index # i
    <3>1. p.index <= i - 1
      BY <1>0, <1>5, <2>1, <2>3
    <3>2. PICK k \in 1..Len(s) : s[k] = p
      BY <3>1 DEF InOrder
    <3>3. k \in 1..Len(u) /\ u[k] = p
      BY <1>1, <3>2
    <3> QED
      BY <3>3
  <2> QED
    BY <2>2, <2>3
<1>6. InOrder(tape, u, i)
  BY <1>1, <1>3, <1>4, <1>5 DEF InOrder
<1> QED
  BY <1>6 DEF u

(* all_confirmed_pivots: all the pivots of a chart, in the order of their candles. *)
LEMMA AllConfirmedIs ==
  ASSUME NEW tape \in Seq(Candle)
  PROVE  InOrder(tape, AllConfirmed(tape, Lookback), Len(tape))
<1> DEFINE At == [i \in 1..Len(tape) |-> PivotsAt(tape, i, Lookback)]
<1>0. Len(tape) \in Nat /\ Len(At) = Len(tape) /\ AllConfirmed(tape, Lookback) = FlattenSeq(At)
  BY DEF AllConfirmed
<1>1. \A i \in 1..Len(tape) : OfCandle(tape, At[i], i)
  BY PivotsAtIs
<1>2. ASSUME NEW p \in Pivots(tape)
      PROVE  p.index \in 1..Len(tape)
  BY DEF Pivots
<1>3. <<>> \in Seq(Pivots(tape)) /\ InOrder(tape, <<>>, 0)
  BY <1>2 DEF InOrder
<1>4. CASE Len(tape) = 0
  <2>1. At = <<>>
    BY <1>4
  <2> QED
    BY <1>0, <1>3, <1>4, <2>1 DEF FlattenSeq
<1>5. CASE Len(tape) # 0
  <2> DEFINE Is(f) == f = [i \in 1..Len(At) |-> IF i = 1 THEN At[i] ELSE f[i - 1] \o At[i]]
  <2> HIDE DEF At
  <2>1. FlattenSeq(At) = (CHOOSE f : Is(f))[Len(At)]
    BY <1>0, <1>5 DEF FlattenSeq
  <2>2. \A i \in 1..Len(At) : At[i] \in Seq(Pivots(tape))
    BY <1>0, <1>1 DEF OfCandle
  <2>3. \E f : Is(f)
    <3> DEFINE T == Seq(Pivots(tape))
               Step == [k \in 1..Len(At) |-> [x \in T |-> IF k = 1 THEN At[k] ELSE x \o At[k]]]
    <3>1. Step \in [1..Len(At) -> [T -> T]]
      BY <1>0, <2>2, Concatenated
    <3>2. PICK f : Unfolds(f, Len(At), T, <<>>, Step)
      <4>1. <<>> \in T
        BY <1>3
      <4> HIDE DEF T, Step
      <4> QED
        BY <1>0, <3>1, <4>1, Unfolding
    <3> DEFINE g == [i \in 1..Len(At) |-> f[i]]
    <3>3. ASSUME NEW i \in 1..Len(At)
          PROVE  g[i] = IF i = 1 THEN At[i] ELSE g[i - 1] \o At[i]
      <4>0. i - 1 \in 0..Len(At)
        BY <1>0
      <4>1. f[i - 1] \in T /\ f[i] = Step[i][f[i - 1]]
        <5> HIDE DEF T, Step
        <5> QED
          BY <3>2, <4>0 DEF Unfolds
      <4>2. f[i] = IF i = 1 THEN At[i] ELSE f[i - 1] \o At[i]
        BY <4>1
      <4>3. i # 1 => i - 1 \in 1..Len(At)
        BY <1>0
      <4> HIDE DEF T, Step
      <4> QED
        BY <4>2, <4>3
    <3>4. g = [i \in 1..Len(At) |-> IF i = 1 THEN At[i] ELSE g[i - 1] \o At[i]]
      BY <3>3
    <3> HIDE DEF g
    <3> QED
      BY <3>4
  <2> DEFINE f == CHOOSE f : Is(f)
             Done(n) == n = 0 \/ InOrder(tape, f[n], n)
             S == {n \in 0..Len(At) : Done(n)}
  <2>4. Is(f)
    BY <2>3
  <2> HIDE DEF f
  <2>5. ASSUME NEW i \in 1..Len(At)
        PROVE  f[i] = IF i = 1 THEN At[i] ELSE f[i - 1] \o At[i]
    BY <2>4
  <2>6. ASSUME NEW n \in 1..Len(At), n - 1 \in S
        PROVE  n \in S
    <3>1. OfCandle(tape, At[n], n) /\ n \in 1..Len(tape)
      BY <1>0, <1>1
    <3>2. CASE n = 1
      <4>1. InOrder(tape, <<>> \o At[n], n)
        <5>1. 0 = n - 1
          BY <3>2
        <5> QED
          BY <1>3, <3>1, <5>1, InOrderStep
      <4>2. <<>> \o At[n] = At[n]
        BY <2>2
      <4> QED
        BY <2>5, <3>2, <4>1, <4>2
    <3>3. CASE n # 1
      <4> DEFINE h == n - 1
      <4>1. Done(h)
        BY <2>6
      <4>2. h # 0 /\ h = n - 1
        BY <1>0, <3>3
      <4>5. f[n] = f[h] \o At[n]
        BY <2>5, <3>3
      <4> HIDE DEF h
      <4>3. InOrder(tape, f[h], h)
        BY <4>1, <4>2
      <4>4. InOrder(tape, f[h] \o At[n], n)
        BY <3>1, <4>2, <4>3, InOrderStep
      <4>6. Done(n)
        BY <4>4, <4>5
      <4> QED
        BY <4>6
    <3> QED
      BY <3>2, <3>3
  <2>7. \A n \in 0..Len(At) : n \in S
    <3>1. 0 \in S
      BY <1>0
    <3> HIDE DEF S
    <3> QED
      BY <1>0, <2>6, <3>1, Climbing
  <2>8. InOrder(tape, f[Len(At)], Len(At))
    BY <1>0, <1>5, <2>7
  <2> QED
    BY <1>0, <2>1, <2>8 DEF f
<1> QED
  BY <1>0, <1>4, <1>5

(* The true ranges a chart is measured by lie on it, and there are finitely many. *)
LEMMA RangesAre ==
  ASSUME NEW tape \in Seq(Candle)
  PROVE  /\ Ranges(tape) \subseteq 2..Len(tape) /\ IsFiniteSet(Ranges(tape))
         /\ Cardinality(Ranges(tape)) \in Nat
         /\ \A i \in 2..Len(tape) : TrueRange(tape, i) \in Int
<1>1. Ranges(tape) \subseteq 2..Len(tape)
  <2> DEFINE a == 2
             b == Len(tape) - AtrPeriod + 1
  <2>1. a \in Int /\ b \in Int /\ Len(tape) \in Nat /\ a = 2
    BY SwingsAssumption
  <2>2. Ranges(tape) = IF Len(tape) < 2 THEN {} ELSE Max({a, b})..Len(tape)
    BY DEF Ranges
  <2> HIDE DEF a, b
  <2>3. \E x \in {a, b} : \A y \in {a, b} : x >= y
    BY <2>1
  <2>4. Max({a, b}) \in {a, b} /\ Max({a, b}) >= 2
    BY <2>1, <2>3 DEF Max
  <2> QED
    BY <2>1, <2>2, <2>4
<1>2. IsFiniteSet(Ranges(tape)) /\ Cardinality(Ranges(tape)) \in Nat
  <2>1. IsFiniteSet(2..Len(tape))
    BY FS_Interval
  <2> QED
    BY <1>1, <2>1, FS_Subset, FS_CardinalityType
<1>3. ASSUME NEW i \in 2..Len(tape)
      PROVE  TrueRange(tape, i) \in Int
  <2>1. tape[i] \in Candle /\ tape[i - 1] \in Candle
    OBVIOUS
  <2> DEFINE a == tape[i].high - tape[i].low
             b == Magnitude(tape[i].high - tape[i - 1].close)
             c == Magnitude(tape[i].low - tape[i - 1].close)
  <2>2. a \in Int /\ b \in Int /\ c \in Int
    <3>1. \A n \in Int : Magnitude(n) \in Int
      BY DEF Magnitude
    <3>2. \A x, y \in Candle : x.high - x.low \in Int /\ x.high - y.close \in Int
                               /\ x.low - y.close \in Int
      <4>1. \A x \in Candle : x.low \in Int /\ x.close \in Int /\ x.high \in Int
        BY DEF Candle
      <4> QED
        BY <4>1
    <3> QED
      BY <2>1, <3>1, <3>2
  <2>3. TrueRange(tape, i) = Max({a, b, c})
    BY DEF TrueRange
  <2> HIDE DEF a, b, c
  <2>4. \E x \in {a, b, c} : \A y \in {a, b, c} : x >= y
    BY <2>2
  <2> QED
    BY <2>2, <2>3, <2>4 DEF Max
<1> QED
  BY <1>1, <1>2, <1>3

(* A sum over a finite set is unfolded one of its elements at a time. *)
Sums(f, S, F) ==
  f = [s \in SUBSET S |-> IF s = {} THEN 0
                          ELSE F[CHOOSE x \in s : TRUE] + f[s \ {CHOOSE x \in s : TRUE}]]

(* There is such a function on the subsets of a finite set, and its values are numbers. *)
LEMMA Summing ==
  ASSUME NEW S, IsFiniteSet(S), NEW F \in [S -> Int]
  PROVE  /\ \E f : Sums(f, S, F)
         /\ \A f : Sums(f, S, F) => f[S] \in Int
<1> DEFINE Pick(s) == CHOOSE x \in s : TRUE
           N == Cardinality(S)
           Small(n) == {s \in SUBSET S : Cardinality(s) <= n}
           Partial(f, n) == /\ f \in [Small(n) -> Int]
                            /\ \A s \in Small(n) :
                                 f[s] = IF s = {} THEN 0 ELSE F[Pick(s)] + f[s \ {Pick(s)}]
<1>1. N \in Nat /\ \A s \in SUBSET S : Cardinality(s) \in 0..N /\ IsFiniteSet(s)
  BY FS_Subset, FS_CardinalityType
<1>2. ASSUME NEW s \in SUBSET S, s # {}
      PROVE  /\ Pick(s) \in s /\ F[Pick(s)] \in Int
             /\ s \ {Pick(s)} \in SUBSET S /\ Cardinality(s \ {Pick(s)}) = Cardinality(s) - 1
  <2>1. Pick(s) \in s
    BY <1>2
  <2> HIDE DEF Pick
  <2>2. F[Pick(s)] \in Int /\ s \ {Pick(s)} \in SUBSET S /\ IsFiniteSet(s)
    BY <1>1, <2>1
  <2> QED
    BY <2>1, <2>2, FS_RemoveElement
<1> HIDE DEF Pick, N
<1>3. \E f : Partial(f, N)
  <2> DEFINE T == {n \in 0..N : \E f : Partial(f, n)}
  <2>1. 0 \in T
    <3> DEFINE f == [s \in Small(0) |-> 0]
    <3>1. \A s \in Small(0) : s = {}
      BY <1>1, FS_EmptySet
    <3>2. Partial(f, 0)
      BY <3>1
    <3> HIDE DEF f, Partial
    <3> QED
      BY <1>1, <3>2
  <2>2. ASSUME NEW n \in 1..N, n - 1 \in T
        PROVE  n \in T
    <3>1. PICK f : Partial(f, n - 1)
      <4> HIDE DEF Partial
      <4> QED
        BY <2>2
    <3> DEFINE At(s) == IF s = {} THEN 0 ELSE F[Pick(s)] + f[s \ {Pick(s)}]
               g == [s \in Small(n) |-> At(s)]
    <3>2. ASSUME NEW s \in Small(n), s # {}
          PROVE  s \ {Pick(s)} \in Small(n - 1) /\ s \ {Pick(s)} \in Small(n)
      <4> DEFINE r == s \ {Pick(s)}
      <4>1. s \in SUBSET S /\ Cardinality(s) <= n /\ Cardinality(s) \in Int
        BY <1>1
      <4>2. r \in SUBSET S /\ Cardinality(r) = Cardinality(s) - 1
        BY <1>2, <3>2, <4>1
      <4> HIDE DEF r
      <4>3. Cardinality(r) <= n - 1 /\ Cardinality(r) <= n
        BY <4>1, <4>2
      <4>4. r \in Small(n - 1) /\ r \in Small(n)
        BY <4>2, <4>3
      <4> QED
        BY <4>4 DEF r
    <3>3. ASSUME NEW s \in Small(n)
          PROVE  At(s) \in Int
      <4>1. CASE s = {}
        BY <4>1
      <4>2. CASE s # {}
        <5>1. F[Pick(s)] \in Int
          BY <1>2, <4>2
        <5>2. f[s \ {Pick(s)}] \in Int
          <6>1. s \ {Pick(s)} \in Small(n - 1)
            BY <3>2, <4>2
          <6> HIDE DEF Small
          <6> QED
            BY <3>1, <6>1
        <5> QED
          BY <4>2, <5>1, <5>2
      <4> QED
        BY <4>1, <4>2
    <3>4. ASSUME NEW s \in Small(n - 1)
          PROVE  s \in Small(n) /\ g[s] = f[s]
      <4>1. s \in Small(n)
        <5>1. s \in SUBSET S /\ Cardinality(s) <= n - 1 /\ Cardinality(s) \in Int
          BY <1>1
        <5> QED
          BY <5>1
      <4> HIDE DEF Small
      <4>2. f[s] = At(s)
        BY <3>1
      <4> QED
        BY <4>1, <4>2
    <3>5. Partial(g, n)
      <4>1. g \in [Small(n) -> Int]
        <5> HIDE DEF Small, At
        <5> QED
          BY <3>3
      <4>2. ASSUME NEW s \in Small(n)
            PROVE  g[s] = IF s = {} THEN 0 ELSE F[Pick(s)] + g[s \ {Pick(s)}]
        <5>1. g[s] = At(s)
          OBVIOUS
        <5>2. CASE s = {}
          BY <5>1, <5>2
        <5>3. CASE s # {}
          <6>1. g[s \ {Pick(s)}] = f[s \ {Pick(s)}]
            <7>1. s \ {Pick(s)} \in Small(n - 1)
              BY <3>2, <5>3
            <7> HIDE DEF Small, g
            <7> QED
              BY <3>4, <7>1
          <6> HIDE DEF g
          <6> QED
            BY <5>1, <5>3, <6>1
        <5> QED
          BY <5>2, <5>3
      <4> HIDE DEF g
      <4> QED
        BY <4>1, <4>2
    <3> HIDE DEF g, Partial
    <3> QED
      BY <3>5
  <2>3. \A n \in 0..N : n \in T
    <3> HIDE DEF T
    <3> QED
      BY <1>1, <2>1, <2>2, Climbing
  <2> HIDE DEF Partial
  <2> QED
    BY <1>1, <2>3
<1>4. Small(N) = SUBSET S
  BY <1>1
<1>5. \E f : Sums(f, S, F)
  <2>1. PICK f : Partial(f, N)
    BY <1>3
  <2>2. /\ f \in [SUBSET S -> Int]
        /\ \A s \in SUBSET S : f[s] = IF s = {} THEN 0 ELSE F[Pick(s)] + f[s \ {Pick(s)}]
    <3> HIDE DEF Small
    <3> QED
      BY <1>4, <2>1
  <2> QED
    BY <2>2 DEF Sums, Pick
<1>6. ASSUME NEW f, Sums(f, S, F)
      PROVE  f[S] \in Int
  <2> DEFINE T == {n \in 0..N : \A s \in SUBSET S : Cardinality(s) = n => f[s] \in Int}
  <2>1. \A s \in SUBSET S : f[s] = IF s = {} THEN 0 ELSE F[Pick(s)] + f[s \ {Pick(s)}]
    BY <1>6 DEF Sums, Pick
  <2>2. 0 \in T
    <3>1. ASSUME NEW s \in SUBSET S, Cardinality(s) = 0
          PROVE  f[s] \in Int
      <4>1. s = {}
        BY <1>1, <3>1, FS_EmptySet
      <4> QED
        BY <2>1, <4>1
    <3> QED
      BY <1>1, <3>1
  <2>3. ASSUME NEW n \in 1..N, n - 1 \in T
        PROVE  n \in T
    <3>1. ASSUME NEW s \in SUBSET S, Cardinality(s) = n
          PROVE  f[s] \in Int
      <4>1. CASE s = {}
        BY <2>1, <4>1
      <4>2. CASE s # {}
        <5>1. F[Pick(s)] \in Int /\ s \ {Pick(s)} \in SUBSET S
              /\ Cardinality(s \ {Pick(s)}) = n - 1
          BY <1>2, <3>1, <4>2
        <5>2. f[s \ {Pick(s)}] \in Int
          BY <2>3, <5>1
        <5> QED
          BY <2>1, <4>2, <5>1, <5>2
      <4> QED
        BY <4>1, <4>2
    <3> QED
      BY <1>1, <3>1
  <2>4. \A n \in 0..N : n \in T
    <3> HIDE DEF T
    <3> QED
      BY <1>1, <2>2, <2>3, Climbing
  <2> QED
    BY <1>1, <2>4 DEF N
<1> QED
  BY <1>5, <1>6

(* The sum of the true ranges is a number. *)
LEMMA SpanIs ==
  ASSUME NEW tape \in Seq(Candle)
  PROVE  Span(tape) \in Int
<1> DEFINE S == Ranges(tape)
           F == [i \in S |-> TrueRange(tape, i)]
           Is(f) == f = [s \in SUBSET S |->
                           IF s = {} THEN 0
                           ELSE TrueRange(tape, CHOOSE x \in s : TRUE)
                                  + f[s \ {CHOOSE x \in s : TRUE}]]
<1>1. IsFiniteSet(S) /\ F \in [S -> Int]
  BY RangesAre
<1> HIDE DEF S
<1>2. Span(tape) = (CHOOSE f : Is(f))[S]
  BY DEF Span, MapThenSumSet, MapThenFoldSet, S
<1>3. \A s \in SUBSET S : s # {} => F[CHOOSE x \in s : TRUE] = TrueRange(tape, CHOOSE x \in s : TRUE)
  OBVIOUS
<1>4. \A f : Is(f) <=> Sums(f, S, F)
  <2> HIDE DEF F
  <2> QED
    BY <1>3 DEF Sums
<1> HIDE DEF Is, F
<1>5. \E f : Is(f)
  BY <1>1, <1>4, Summing
<1>6. Is(CHOOSE f : Is(f))
  BY <1>5
<1> QED
  BY <1>1, <1>2, <1>4, <1>6, Summing

(* A leg that goes on in its direction clears what it cleared. *)
LEMMA ClearsFurther ==
  ASSUME NEW tape \in Seq(Candle),
         NEW p \in [index : Int, kind : Sides, depth : Int],
         NEW q \in [index : Int, kind : Sides, depth : Int],
         NEW r \in [index : Int, kind : Sides, depth : Int],
         q.kind # p.kind, r.kind = q.kind, LegClears(tape, p, q),
         0 <= q.depth + p.depth, q.depth <= r.depth
  PROVE  LegClears(tape, p, r)
<1> DEFINE n == Cardinality(Ranges(tape))
           a == q.depth + p.depth
           b == r.depth + p.depth
<1>1. n \in Nat /\ Span(tape) \in Int
  BY RangesAre, SpanIs
<1>2. a \in Int /\ b \in Int /\ 0 <= a /\ a <= b
  OBVIOUS
<1>3. /\ Magnitude(PriceOf(q) - PriceOf(p)) = a
      /\ Magnitude(PriceOf(r) - PriceOf(p)) = b
  <2>1. CASE p.kind = "high"
    BY <2>1 DEF Sides, PriceOf, Magnitude
  <2>2. CASE p.kind = "low"
    BY <2>2 DEF Sides, PriceOf, Magnitude
  <2> QED
    BY <2>1, <2>2 DEF Sides
<1>4. a > 0 /\ 2 * n * a >= Span(tape)
  BY <1>3 DEF LegClears
<1> HIDE DEF n, a, b
<1>5. 2 * n * b >= 2 * n * a
  <2> DEFINE c == b - a
  <2>1. c \in Nat /\ b = a + c
    BY <1>2
  <2> HIDE DEF c
  <2>2. 2 * n * b = 2 * n * a + 2 * n * c
    BY <1>1, <1>2, <2>1
  <2>3. 2 * n * c \in Nat
    BY <1>1, <2>1
  <2>4. 2 * n * a \in Int
    BY <1>1, <1>2
  <2> QED
    BY <2>2, <2>3, <2>4
<1>6. b > 0 /\ 2 * n * b >= Span(tape)
  <2> DEFINE u == 2 * n * a
             v == 2 * n * b
  <2>1. u \in Int /\ v \in Int /\ Span(tape) \in Int
    BY <1>1, <1>2
  <2>2. u >= Span(tape) /\ v >= u
    BY <1>4, <1>5
  <2>3. b > 0
    BY <1>2, <1>4
  <2> HIDE DEF u, v
  <2>4. v >= Span(tape)
    BY <2>1, <2>2
  <2> QED
    BY <2>3, <2>4 DEF v
<1> QED
  BY <1>3, <1>6 DEF LegClears, n

(* A leg of the zigzag, on the first n pivots of a chart. *)
Leg(tape, raw, n, p, q) ==
  \E i \in p.index..q.index :
    /\ IsPivot(tape, i, q.kind, Lookback) /\ LegClears(tape, p, PivotOf(tape, i, q.kind))
    /\ LegClears(tape, p, q) \/ Extreme(tape[i], q.kind) + p.depth < 0
    /\ Extreme(tape[i], q.kind) <= q.depth
    /\ \A m \in 1..n : raw[m].kind = q.kind /\ raw[m].index \in i..q.index =>
         raw[m].depth <= q.depth

(* Two pivots of one side and candle are one. *)
LEMMA OnePivot ==
  ASSUME NEW tape \in Seq(Candle), NEW p \in Pivots(tape), NEW q \in Pivots(tape),
         p.index = q.index, p.kind = q.kind
  PROVE  p.depth = q.depth
BY DEF Pivots

(* A leg stays one when a pivot after it is read. *)
LEMMA LegStays ==
  ASSUME NEW tape \in Seq(Candle), NEW raw \in Seq(Pivots(tape)), NEW n \in 1..Len(raw),
         NEW p \in Pivots(tape), NEW q \in Pivots(tape), Leg(tape, raw, n - 1, p, q),
         q.index <= raw[n].index
  PROVE  Leg(tape, raw, n, p, q)
<1>1. PICK i \in p.index..q.index :
        /\ IsPivot(tape, i, q.kind, Lookback) /\ LegClears(tape, p, PivotOf(tape, i, q.kind))
        /\ LegClears(tape, p, q) \/ Extreme(tape[i], q.kind) + p.depth < 0
        /\ Extreme(tape[i], q.kind) <= q.depth
        /\ \A m \in 1..(n - 1) : raw[m].kind = q.kind /\ raw[m].index \in i..q.index =>
             raw[m].depth <= q.depth
  BY DEF Leg
<1>2. raw[n] \in Pivots(tape) /\ raw[n].index \in Int /\ q.index \in Int /\ q.depth \in Int
  <2>1. raw[n] \in Pivots(tape)
    OBVIOUS
  <2> QED
    BY <2>1 DEF Pivots
<1>3. ASSUME NEW m \in 1..n, raw[m].kind = q.kind, raw[m].index \in i..q.index
      PROVE  raw[m].depth <= q.depth
  <2>1. CASE m = n
    <3>1. raw[n].index = q.index
      BY <1>2, <1>3, <2>1
    <3> QED
      BY <1>2, <1>3, <2>1, <3>1, OnePivot
  <2>2. CASE m # n
    <3>1. m \in 1..(n - 1)
      BY <2>2
    <3> QED
      BY <1>1, <1>3, <3>1
  <2> QED
    BY <2>1, <2>2
<1> QED
  BY <1>1, <1>3 DEF Leg

(* A leg whose end moves on to a more extreme pivot of its side is one. *)
LEMMA LegGrows ==
  ASSUME NEW tape \in Seq(Candle), NEW raw \in Seq(Pivots(tape)), NEW n \in 1..Len(raw),
         NEW p \in Pivots(tape), NEW q \in Pivots(tape), Leg(tape, raw, n - 1, p, q),
         p.kind # q.kind, raw[n].kind = q.kind, q.depth < raw[n].depth,
         q.index <= raw[n].index,
         \A m \in 1..(n - 1) : raw[m].kind = q.kind /\ q.index <= raw[m].index =>
           raw[m].depth <= q.depth
  PROVE  Leg(tape, raw, n, p, raw[n])
<1> DEFINE r == raw[n]
<1>1. PICK i \in p.index..q.index :
        /\ IsPivot(tape, i, q.kind, Lookback) /\ LegClears(tape, p, PivotOf(tape, i, q.kind))
        /\ LegClears(tape, p, q) \/ Extreme(tape[i], q.kind) + p.depth < 0
        /\ Extreme(tape[i], q.kind) <= q.depth
        /\ \A m \in 1..(n - 1) : raw[m].kind = q.kind /\ raw[m].index \in i..q.index =>
             raw[m].depth <= q.depth
  BY DEF Leg
<1>2. r \in Pivots(tape)
  OBVIOUS
<1>3. r.kind = q.kind /\ q.depth < r.depth /\ q.index <= r.index
  OBVIOUS
<1> HIDE DEF r
<1>4. \A x \in Pivots(tape) : /\ x \in [index : Int, kind : Sides, depth : Int]
                              /\ x.index \in 1..Len(tape) /\ x.depth \in Int /\ x.kind \in Sides
  BY DEF Pivots
<1>5. /\ p.index \in 1..Len(tape) /\ q.index \in 1..Len(tape) /\ r.index \in 1..Len(tape)
      /\ p.depth \in Int /\ q.depth \in Int /\ r.depth \in Int /\ q.kind \in Sides
  BY <1>2, <1>4
<1>6. i \in p.index..r.index /\ i \in 1..Len(tape) /\ Extreme(tape[i], q.kind) \in Int
  <2>1. i \in 1..Len(tape) /\ i \in p.index..r.index
    BY <1>3, <1>5
  <2> QED
    BY <1>5, <2>1, PivotsAre
<1>7. LegClears(tape, p, r) \/ Extreme(tape[i], r.kind) + p.depth < 0
  <2> SUFFICES ASSUME ~(Extreme(tape[i], q.kind) + p.depth < 0)
               PROVE  LegClears(tape, p, r)
    BY <1>3
  <2> DEFINE s == PivotOf(tape, i, q.kind)
  <2>1. /\ s \in [index : Int, kind : Sides, depth : Int]
        /\ s.kind = q.kind /\ s.depth = Extreme(tape[i], q.kind)
    BY <1>5, <1>6 DEF PivotOf
  <2>2. LegClears(tape, p, s)
    BY <1>1
  <2> HIDE DEF s
  <2>3. 0 <= s.depth + p.depth /\ s.depth <= r.depth /\ s.kind # p.kind /\ r.kind = s.kind
    <3> DEFINE e == Extreme(tape[i], q.kind)
    <3>1. e \in Int /\ e <= q.depth /\ s.depth = e
      BY <1>1, <1>6, <2>1
    <3>2. s.kind # p.kind /\ r.kind = s.kind
      BY <1>3, <2>1
    <3> HIDE DEF e
    <3>3. e <= r.depth
      BY <1>3, <1>5, <3>1
    <3>4. 0 <= e + p.depth
      BY <1>5, <3>1 DEF e
    <3> QED
      BY <3>1, <3>2, <3>3, <3>4
  <2>4. s \in [index : Int, kind : Sides, depth : Int] /\ s.kind = r.kind
    BY <2>1, <2>3
  <2>5. /\ p \in [index : Int, kind : Sides, depth : Int]
        /\ r \in [index : Int, kind : Sides, depth : Int]
    BY <1>2, <1>4
  <2> QED
    BY <2>2, <2>3, <2>4, <2>5, ClearsFurther
<1>8. Extreme(tape[i], r.kind) <= r.depth
  BY <1>1, <1>3, <1>5, <1>6
<1>9. ASSUME NEW m \in 1..n, raw[m].kind = r.kind, raw[m].index \in i..r.index
      PROVE  raw[m].depth <= r.depth
  <2>1. raw[m].index \in Int /\ raw[m].depth \in Int
    <3>1. raw[m] \in Pivots(tape)
      OBVIOUS
    <3> QED
      BY <1>4, <3>1
  <2>2. CASE m = n
    BY <1>5, <2>2 DEF r
  <2>3. CASE m # n
    <3>1. m \in 1..(n - 1) /\ (raw[m].index \in i..q.index \/ q.index <= raw[m].index)
      BY <1>5, <1>9, <2>1, <2>3
    <3>2. raw[m].depth <= q.depth
      BY <1>1, <1>3, <1>9, <3>1
    <3> QED
      BY <1>3, <1>5, <2>1, <3>2
  <2> QED
    BY <2>2, <2>3
<1>10. Leg(tape, raw, n, p, r)
  BY <1>1, <1>3, <1>6, <1>7, <1>8, <1>9 DEF Leg
<1> QED
  BY <1>10 DEF r

(* A leg begins at a pivot of the other side that clears the threshold. *)
LEMMA LegStarts ==
  ASSUME NEW tape \in Seq(Candle), NEW raw \in Seq(Pivots(tape)), NEW n \in 1..Len(raw),
         NEW p \in Pivots(tape), p.index <= raw[n].index, LegClears(tape, p, raw[n])
  PROVE  Leg(tape, raw, n, p, raw[n])
<1> DEFINE r == raw[n]
           i == r.index
<1>1. r \in Pivots(tape)
  OBVIOUS
<1>2. /\ i \in 1..Len(tape) /\ r.depth \in Int /\ p.index \in Int /\ r.kind \in Sides
      /\ IsPivot(tape, i, r.kind, Lookback) /\ r.depth = Extreme(tape[i], r.kind)
      /\ PivotOf(tape, i, r.kind) = r
  <2> HIDE DEF r
  <2>1. /\ r.index \in 1..Len(tape) /\ r.depth \in Int /\ r.kind \in Sides
        /\ IsPivot(tape, r.index, r.kind, Lookback) /\ r.depth = Extreme(tape[r.index], r.kind)
    BY <1>1 DEF Pivots
  <2>2. p.index \in Int
    BY DEF Pivots
  <2>3. PivotOf(tape, r.index, r.kind) = r
    BY <1>1, PivotsAre
  <2> QED
    BY <2>1, <2>2, <2>3
<1>3. i \in p.index..r.index
  BY <1>2
<1>4. ASSUME NEW m \in 1..n, raw[m].kind = r.kind, raw[m].index \in i..r.index
      PROVE  raw[m].depth <= r.depth
  <2>1. raw[m] \in Pivots(tape) /\ raw[m].index = r.index
    BY <1>2, <1>4
  <2>2. raw[m].depth = r.depth
    BY <1>1, <1>4, <2>1, OnePivot
  <2> QED
    BY <1>2, <2>2
<1>5. LegClears(tape, p, r) /\ Extreme(tape[i], r.kind) <= r.depth
  BY <1>2
<1> HIDE DEF r, i
<1>6. Leg(tape, raw, n, p, r)
  BY <1>2, <1>3, <1>4, <1>5 DEF Leg
<1> QED
  BY <1>6 DEF r

(* The zigzag over the first n pivots: none of them is missed, and no later one reaches  *)
(* back behind its end.                                                                  *)
IsZigzag(tape, raw, n, z) ==
  /\ z \in Seq(Pivots(tape)) /\ (z = <<>> => n = 0)
  /\ \A k \in 1..Len(z) : \A m \in (n + 1)..Len(raw) : z[k].index <= raw[m].index
  /\ \A m \in 1..n : raw[m].kind = z[Len(z)].kind /\ z[Len(z)].index <= raw[m].index =>
       raw[m].depth <= z[Len(z)].depth
  /\ \A k \in 1..(Len(z) - 1) :
       z[k].kind # z[k + 1].kind /\ Leg(tape, raw, n, z[k], z[k + 1])

(* A zigzag that ends with the pivot just read is one. *)
LEMMA ZigzagEnds ==
  ASSUME NEW tape \in Seq(Candle), NEW raw, InOrder(tape, raw, Len(tape)),
         NEW n \in 1..Len(raw), NEW z, IsZigzag(tape, raw, n - 1, z),
         NEW j \in 0..Len(z), NEW y \in Seq(Pivots(tape)), Len(y) = j + 1,
         \A k \in 1..j : y[k] = z[k], y[j + 1] = raw[n],
         j # 0 => y[j].kind # raw[n].kind /\ Leg(tape, raw, n, y[j], raw[n])
  PROVE  IsZigzag(tape, raw, n, y)
<1>1. /\ raw \in Seq(Pivots(tape)) /\ z \in Seq(Pivots(tape))
      /\ Len(raw) \in Nat /\ Len(z) \in Nat /\ n \in Nat /\ j \in Nat
  BY DEF InOrder, IsZigzag
<1>2. \A x \in Pivots(tape) : x.index \in Int /\ x.depth \in Int
  BY DEF Pivots
<1>3. \A m \in 1..Len(raw) : raw[m] \in Pivots(tape)
  BY <1>1
<1>4. ASSUME NEW k \in 1..Len(y), NEW m \in (n + 1)..Len(raw)
      PROVE  y[k].index <= raw[m].index
  <2>1. CASE k = j + 1
    <3>1. n \in 1..Len(raw) /\ m \in 1..Len(raw) /\ n <= m
      BY <1>1
    <3>2. raw[n].index <= raw[m].index
      BY <3>1 DEF InOrder
    <3> QED
      BY <2>1, <3>2
  <2>2. CASE k # j + 1
    <3>1. k \in 1..j /\ k \in 1..Len(z) /\ m \in ((n - 1) + 1)..Len(raw)
      BY <1>1, <2>2
    <3> QED
      BY <3>1 DEF IsZigzag
  <2> QED
    BY <2>1, <2>2
<1>5. ASSUME NEW m \in 1..n, raw[m].kind = raw[n].kind, raw[n].index <= raw[m].index
      PROVE  raw[m].depth <= raw[n].depth
  <2>1. m \in 1..Len(raw) /\ m <= n
    BY <1>1
  <2>2. raw[m].index <= raw[n].index /\ raw[m] \in Pivots(tape) /\ raw[n] \in Pivots(tape)
    BY <1>3, <2>1 DEF InOrder
  <2>3. raw[m].index = raw[n].index
    BY <1>2, <1>5, <2>2
  <2>4. raw[m].depth = raw[n].depth
    BY <1>5, <2>2, <2>3, OnePivot
  <2> QED
    BY <1>2, <2>2, <2>4
<1>6. ASSUME NEW k \in 1..(Len(y) - 1)
      PROVE  y[k].kind # y[k + 1].kind /\ Leg(tape, raw, n, y[k], y[k + 1])
  <2>1. CASE k = j
    BY <1>1, <2>1
  <2>2. CASE k # j
    <3>1. k \in 1..(Len(z) - 1) /\ k \in 1..Len(z) /\ k + 1 \in 1..Len(z) /\ k \in 1..j /\ k + 1 \in 1..j
      BY <1>1, <2>2
    <3>2. y[k] = z[k] /\ y[k + 1] = z[k + 1] /\ z[k] \in Pivots(tape) /\ z[k + 1] \in Pivots(tape)
      BY <1>1, <3>1
    <3>3. z[k].kind # z[k + 1].kind /\ Leg(tape, raw, n - 1, z[k], z[k + 1])
      BY <3>1 DEF IsZigzag
    <3>4. z[k + 1].index <= raw[n].index
      <4>1. n \in ((n - 1) + 1)..Len(raw)
        BY <1>1
      <4> QED
        BY <3>1, <4>1 DEF IsZigzag
    <3>5. Leg(tape, raw, n, z[k], z[k + 1])
      BY <1>1, <3>2, <3>3, <3>4, LegStays
    <3> QED
      BY <3>2, <3>3, <3>5
  <2> QED
    BY <2>1, <2>2
<1>7. y # <<>> /\ y[Len(y)] = raw[n]
  BY <1>1
<1>8. \A m \in 1..n : raw[m].kind = y[Len(y)].kind /\ y[Len(y)].index <= raw[m].index =>
        raw[m].depth <= y[Len(y)].depth
  BY <1>5, <1>7
<1>9. \A k \in 1..Len(y) : \A m \in (n + 1)..Len(raw) : y[k].index <= raw[m].index
  BY <1>4
<1>10. \A k \in 1..(Len(y) - 1) : y[k].kind # y[k + 1].kind /\ Leg(tape, raw, n, y[k], y[k + 1])
  BY <1>6
<1> QED
  BY <1>7, <1>8, <1>9, <1>10 DEF IsZigzag

(* A zigzag the pivot just read adds nothing to is still one. *)
LEMMA ZigzagStays ==
  ASSUME NEW tape \in Seq(Candle), NEW raw, InOrder(tape, raw, Len(tape)),
         NEW n \in 1..Len(raw), NEW z, IsZigzag(tape, raw, n - 1, z), z # <<>>,
         raw[n].kind = z[Len(z)].kind => raw[n].depth <= z[Len(z)].depth
  PROVE  IsZigzag(tape, raw, n, z)
<1>1. /\ raw \in Seq(Pivots(tape)) /\ z \in Seq(Pivots(tape))
      /\ Len(raw) \in Nat /\ Len(z) \in Nat /\ n \in Nat
  BY DEF InOrder, IsZigzag
<1>2. ASSUME NEW k \in 1..Len(z), NEW m \in (n + 1)..Len(raw)
      PROVE  z[k].index <= raw[m].index
  <2>1. m \in ((n - 1) + 1)..Len(raw)
    BY <1>1
  <2> QED
    BY <2>1 DEF IsZigzag
<1>3. ASSUME NEW m \in 1..n, raw[m].kind = z[Len(z)].kind, z[Len(z)].index <= raw[m].index
      PROVE  raw[m].depth <= z[Len(z)].depth
  <2>1. CASE m = n
    BY <1>3, <2>1
  <2>2. CASE m # n
    <3>1. m \in 1..(n - 1)
      BY <1>1, <2>2
    <3> QED
      BY <1>3, <3>1 DEF IsZigzag
  <2> QED
    BY <2>1, <2>2
<1>4. ASSUME NEW k \in 1..(Len(z) - 1)
      PROVE  z[k].kind # z[k + 1].kind /\ Leg(tape, raw, n, z[k], z[k + 1])
  <2>1. k \in 1..Len(z) /\ k + 1 \in 1..Len(z) /\ n \in ((n - 1) + 1)..Len(raw)
    BY <1>1
  <2>2. z[k] \in Pivots(tape) /\ z[k + 1] \in Pivots(tape) /\ z[k + 1].index <= raw[n].index
    <3>1. z[k] \in Pivots(tape) /\ z[k + 1] \in Pivots(tape)
      BY <1>1, <2>1
    <3>2. z[k + 1].index <= raw[n].index
      BY <2>1 DEF IsZigzag
    <3> QED
      BY <3>1, <3>2
  <2>3. z[k].kind # z[k + 1].kind /\ Leg(tape, raw, n - 1, z[k], z[k + 1])
    BY DEF IsZigzag
  <2> QED
    BY <1>1, <2>2, <2>3, LegStays
<1>5. \A m \in 1..n : raw[m].kind = z[Len(z)].kind /\ z[Len(z)].index <= raw[m].index =>
        raw[m].depth <= z[Len(z)].depth
  BY <1>3
<1>6. \A k \in 1..Len(z) : \A m \in (n + 1)..Len(raw) : z[k].index <= raw[m].index
  BY <1>2
<1>7. \A k \in 1..(Len(z) - 1) : z[k].kind # z[k + 1].kind /\ Leg(tape, raw, n, z[k], z[k + 1])
  BY <1>4
<1> QED
  BY <1>1, <1>5, <1>6, <1>7 DEF IsZigzag

(* Reading one pivot into a zigzag. *)
LEMMA AbsorbStep ==
  ASSUME NEW tape \in Seq(Candle), NEW raw, InOrder(tape, raw, Len(tape)),
         NEW n \in 1..Len(raw), NEW z, IsZigzag(tape, raw, n - 1, z)
  PROVE  IsZigzag(tape, raw, n, Absorb(tape, z, raw[n]))
<1> DEFINE r == raw[n]
           L == Len(z)
           last == z[L]
<1>1. /\ raw \in Seq(Pivots(tape)) /\ z \in Seq(Pivots(tape))
      /\ Len(raw) \in Nat /\ L \in Nat /\ n \in Nat /\ r \in Pivots(tape)
  <2>1. raw \in Seq(Pivots(tape)) /\ z \in Seq(Pivots(tape))
    BY DEF InOrder, IsZigzag
  <2> QED
    BY <2>1
<1>2. CASE z = <<>>
  <2> DEFINE y == <<r>>
  <2>1. /\ Absorb(tape, z, r) = y /\ 0 \in 0..Len(z) /\ y \in Seq(Pivots(tape))
        /\ Len(y) = 0 + 1 /\ (\A k \in 1..0 : y[k] = z[k]) /\ y[0 + 1] = r
    BY <1>1, <1>2 DEF Absorb
  <2> HIDE DEF y
  <2>2. IsZigzag(tape, raw, n, y)
    BY <2>1, ZigzagEnds
  <2> QED
    BY <2>1, <2>2
<1>3. CASE z # <<>>
  <2>1. L \in 1..Len(z) /\ L # 0 /\ last \in Pivots(tape) /\ last.index <= r.index
    <3>1. L # 0
      BY <1>1, <1>3
    <3>2. L \in 1..Len(z) /\ n \in ((n - 1) + 1)..Len(raw)
      BY <1>1, <3>1
    <3>3. last \in Pivots(tape)
      BY <1>1, <3>2
    <3> QED
      BY <3>1, <3>2, <3>3 DEF IsZigzag
  <2>2. r.depth \in Int /\ last.depth \in Int
    BY <1>1, <2>1 DEF Pivots
  <2>3. CASE r.kind = last.kind /\ r.depth > last.depth
    <3> DEFINE f == Front(z)
               y == f \o <<r>>
               j == L - 1
    <3>1. Absorb(tape, z, r) = y
      BY <1>3, <2>3 DEF Absorb
    <3>2. /\ f \in Seq(Pivots(tape)) /\ Len(f) = j /\ j \in 0..Len(z) /\ j \in Nat
          /\ \A k \in 1..j : f[k] = z[k]
      <4>1. f = SubSeq(z, 1, j) /\ j \in Nat /\ j \in 0..Len(z) /\ j <= Len(z)
        BY <1>1, <2>1 DEF Front
      <4>2. \A i \in 1..j : z[i] \in Pivots(tape)
        BY <1>1, <4>1
      <4> HIDE DEF f, j
      <4> QED
        BY <1>1, <4>1, <4>2
    <3> HIDE DEF f
    <3>3. /\ y \in Seq(Pivots(tape)) /\ Len(y) = j + 1
          /\ (\A k \in 1..j : y[k] = z[k]) /\ y[j + 1] = r
      BY <1>1, <3>2
    <3> HIDE DEF y
    <3>4. ASSUME j # 0
          PROVE  y[j].kind # r.kind /\ Leg(tape, raw, n, y[j], r)
      <4>1. j \in 1..(Len(z) - 1) /\ j + 1 = L /\ j \in 1..Len(z) /\ j \in 1..j
        BY <1>1, <3>2, <3>4
      <4>2. z[j].kind # last.kind /\ Leg(tape, raw, n - 1, z[j], last) /\ z[j] \in Pivots(tape)
        BY <1>1, <4>1 DEF IsZigzag
      <4>3. \A m \in 1..(n - 1) : raw[m].kind = last.kind /\ last.index <= raw[m].index =>
              raw[m].depth <= last.depth
        BY DEF IsZigzag
      <4>4. last.depth < r.depth
        BY <2>2, <2>3
      <4>5. Leg(tape, raw, n, z[j], r)
        <5> DEFINE q == last
                   p == z[j]
        <5>1. /\ p \in Pivots(tape) /\ q \in Pivots(tape) /\ Leg(tape, raw, n - 1, p, q)
              /\ p.kind # q.kind /\ raw[n].kind = q.kind /\ q.depth < raw[n].depth
              /\ q.index <= raw[n].index
          BY <2>1, <2>3, <4>2, <4>4
        <5>2. \A m \in 1..(n - 1) : raw[m].kind = q.kind /\ q.index <= raw[m].index =>
                raw[m].depth <= q.depth
          BY <4>3
        <5> HIDE DEF p, q
        <5>3. Leg(tape, raw, n, p, raw[n])
          BY <1>1, <5>1, <5>2, LegGrows
        <5> QED
          BY <5>3 DEF p
      <4> QED
        BY <2>3, <3>3, <4>1, <4>2, <4>5
    <3> HIDE DEF j
    <3>5. IsZigzag(tape, raw, n, y)
      BY <3>2, <3>3, <3>4, ZigzagEnds
    <3> QED
      BY <3>1, <3>5
  <2>4. CASE r.kind = last.kind /\ ~(r.depth > last.depth)
    <3>1. Absorb(tape, z, r) = z
      BY <1>3, <2>4 DEF Absorb
    <3>2. r.depth <= last.depth
      BY <2>2, <2>4
    <3>3. IsZigzag(tape, raw, n, z)
      BY <1>3, <3>2, ZigzagStays
    <3> QED
      BY <3>1, <3>3
  <2>5. CASE r.kind # last.kind /\ LegClears(tape, last, r)
    <3> DEFINE y == Append(z, r)
    <3>1. Absorb(tape, z, r) = y
      BY <1>3, <2>5 DEF Absorb
    <3>2. /\ y \in Seq(Pivots(tape)) /\ Len(y) = L + 1 /\ L \in 0..Len(z)
          /\ (\A k \in 1..L : y[k] = z[k]) /\ y[L + 1] = r
      BY <1>1
    <3> HIDE DEF y
    <3>3. Leg(tape, raw, n, last, r)
      BY <1>1, <2>1, <2>5, LegStarts
    <3>4. y[L] = last
      BY <1>1, <2>1, <3>2
    <3>5. IsZigzag(tape, raw, n, y)
      BY <2>5, <3>2, <3>3, <3>4, ZigzagEnds
    <3> QED
      BY <3>1, <3>5
  <2>6. CASE r.kind # last.kind /\ ~LegClears(tape, last, r)
    <3>1. Absorb(tape, z, r) = z
      BY <1>3, <2>6 DEF Absorb
    <3>2. IsZigzag(tape, raw, n, z)
      BY <1>3, <2>6, ZigzagStays
    <3> QED
      BY <3>1, <3>2
  <2> QED
    BY <2>3, <2>4, <2>5, <2>6
<1> QED
  BY <1>2, <1>3

(* zigzag_pivots: what it returns is the zigzag over all the pivots of the chart. *)
LEMMA ZigzagIs ==
  ASSUME NEW tape \in Seq(Candle)
  PROVE  LET raw == AllConfirmed(tape, Lookback)
         IN  IsZigzag(tape, raw, Len(raw), Zigzag(tape))
<1> DEFINE raw == AllConfirmed(tape, Lookback)
           N == Len(raw)
           P == Pivots(tape)
           Is(f) == f = [k \in 0..N |-> IF k = 0 THEN <<>> ELSE Absorb(tape, f[k - 1], raw[k])]
<1>1. InOrder(tape, raw, Len(tape)) /\ raw \in Seq(P) /\ N \in Nat
  <2>1. InOrder(tape, raw, Len(tape))
    BY AllConfirmedIs
  <2>2. raw \in Seq(P)
    BY <2>1 DEF InOrder
  <2> QED
    BY <2>1, <2>2
<1>2. Zigzag(tape) = (CHOOSE f : Is(f))[N]
  BY DEF Zigzag
<1> HIDE DEF raw, P
<1>3. \E f : Is(f)
  <2> DEFINE T == Seq(P)
             Step == [k \in 1..N |-> [z \in T |-> Absorb(tape, z, raw[k])]]
  <2>1. ASSUME NEW z \in T, NEW p \in P
        PROVE  Absorb(tape, z, p) \in T
    <3>1. <<p>> \in T
      OBVIOUS
    <3>2. ASSUME z # <<>>
          PROVE  Front(z) \in T
      BY <3>2 DEF Front
    <3>3. Append(z, p) \in T /\ (z # <<>> => Front(z) \o <<p>> \in T)
      <4> HIDE DEF P
      <4>1. Append(z, p) \in T
        OBVIOUS
      <4>2. z # <<>> => Front(z) \o <<p>> \in T
        BY <3>1, <3>2, Concatenated
      <4> QED
        BY <4>1, <4>2
    <3> HIDE DEF T
    <3> QED
      BY <3>1, <3>3 DEF Absorb
  <2>2. Step \in [1..N -> [T -> T]]
    <3>1. \A k \in 1..N : raw[k] \in P
      BY <1>1
    <3> HIDE DEF T
    <3> QED
      BY <2>1, <3>1
  <2>3. PICK f : Unfolds(f, N, T, <<>>, Step)
    <3>1. <<>> \in T
      OBVIOUS
    <3> HIDE DEF T, Step, N
    <3> QED
      BY <1>1, <2>2, <3>1, Unfolding
  <2> DEFINE g == [k \in 0..N |-> f[k]]
  <2>4. ASSUME NEW k \in 0..N
        PROVE  g[k] = IF k = 0 THEN <<>> ELSE Absorb(tape, g[k - 1], raw[k])
    <3> HIDE DEF T, Step
    <3>1. CASE k = 0
      BY <2>3, <3>1 DEF Unfolds
    <3>2. CASE k # 0
      <4>1. k \in 1..N /\ k - 1 \in 0..N
        BY <1>1, <3>2
      <4>2. f[k - 1] \in T /\ f[k] = Step[k][f[k - 1]]
        BY <2>3, <4>1 DEF Unfolds
      <4>3. f[k] = Absorb(tape, f[k - 1], raw[k])
        BY <4>1, <4>2 DEF Step
      <4> QED
        BY <3>2, <4>1, <4>3
    <3> QED
      BY <3>1, <3>2
  <2>5. g = [k \in 0..N |-> IF k = 0 THEN <<>> ELSE Absorb(tape, g[k - 1], raw[k])]
    BY <2>4
  <2> HIDE DEF g
  <2> QED
    BY <2>5
<1> DEFINE f == CHOOSE f : Is(f)
           Done(n) == IsZigzag(tape, raw, n, f[n])
           S == {n \in 0..N : Done(n)}
<1>4. Is(f)
  BY <1>3
<1> HIDE DEF f
<1>5. /\ f[0] = <<>>
      /\ \A n \in 1..N : f[n] = Absorb(tape, f[n - 1], raw[n])
  <2>1. 0 \in 0..N /\ \A n \in 1..N : n \in 0..N /\ n # 0
    BY <1>1
  <2> HIDE DEF N
  <2> QED
    BY <1>4, <2>1
<1>6. Done(0)
  <2>1. <<>> \in Seq(Pivots(tape)) /\ Len(<<>>) = 0
    OBVIOUS
  <2> QED
    BY <1>5, <2>1 DEF IsZigzag
<1>7. ASSUME NEW n \in 1..N, n - 1 \in S
      PROVE  n \in S
  <2>1. Done(n - 1)
    BY <1>7
  <2>2. IsZigzag(tape, raw, n, Absorb(tape, f[n - 1], raw[n]))
    BY <1>1, <2>1, AbsorbStep
  <2>3. Done(n)
    BY <1>5, <2>2
  <2> QED
    BY <2>3
<1>8. \A n \in 0..N : n \in S
  <2>1. 0 \in S
    BY <1>1, <1>6
  <2> HIDE DEF S, N
  <2> QED
    BY <1>1, <1>7, <2>1, Climbing
<1>9. Done(N)
  BY <1>1, <1>8
<1> QED
  BY <1>2, <1>9 DEF raw, f

(* A leg of the whole zigzag is what the swings promise of one. *)
LEMMA LegIsLeg ==
  ASSUME NEW tape \in Seq(Candle), NEW raw, InOrder(tape, raw, Len(tape)),
         NEW p \in Pivots(tape), NEW q \in Pivots(tape), Leg(tape, raw, Len(raw), p, q)
  PROVE  IsLeg(tape, p, q)
<1>1. PICK i \in p.index..q.index :
        /\ IsPivot(tape, i, q.kind, Lookback) /\ LegClears(tape, p, PivotOf(tape, i, q.kind))
        /\ LegClears(tape, p, q) \/ Extreme(tape[i], q.kind) + p.depth < 0
        /\ \A m \in 1..Len(raw) : raw[m].kind = q.kind /\ raw[m].index \in i..q.index =>
             raw[m].depth <= q.depth
  BY DEF Leg
<1>2. /\ p.index \in 1..Len(tape) /\ q.index \in 1..Len(tape) /\ q.kind \in Sides
      /\ Len(tape) \in Nat
  BY DEF Pivots
<1>3. ASSUME NEW j \in i..q.index, IsPivot(tape, j, q.kind, Lookback)
      PROVE  Extreme(tape[j], q.kind) <= q.depth
  <2> DEFINE x == PivotOf(tape, j, q.kind)
  <2>1. j \in 1..Len(tape) /\ j <= Len(tape)
    BY <1>2
  <2>2. /\ x \in Pivots(tape) /\ x.index = j /\ x.kind = q.kind
        /\ x.depth = Extreme(tape[j], q.kind)
    <3>1. x \in Pivots(tape)
      BY <1>2, <1>3, <2>1, PivotsAre
    <3> QED
      BY <3>1 DEF PivotOf
  <2> HIDE DEF x
  <2>3. PICK m \in 1..Len(raw) : raw[m] = x
    BY <2>1, <2>2 DEF InOrder
  <2> QED
    BY <1>1, <2>2, <2>3
<1> QED
  BY <1>1, <1>3 DEF IsLeg

(* The first candle of a plateau alone is a pivot. *)
LEMMA PlateauHasOne ==
  ASSUME NEW tape \in Seq(Candle), NEW side \in Sides,
         NEW i \in 1..Len(tape), NEW j \in 1..Len(tape), i < j, j - i <= Lookback,
         IsPivot(tape, i, side, Lookback)
  PROVE  ~IsPivot(tape, j, side, Lookback)
<1> SUFFICES ASSUME IsPivot(tape, j, side, Lookback) PROVE FALSE
  OBVIOUS
<1> DEFINE d == j - i
<1>1. d \in 1..Lookback /\ i + d = j /\ j - d = i
  BY SwingsAssumption
<1>2. Extreme(tape[i], side) \in Int /\ Extreme(tape[j], side) \in Int
  BY PivotsAre
<1> HIDE DEF d
<1>3. Extreme(tape[i + d], side) <= Extreme(tape[i], side)
  BY <1>1 DEF IsPivot
<1>4. Extreme(tape[j - d], side) < Extreme(tape[j], side)
  BY <1>1 DEF IsPivot
<1> QED
  BY <1>1, <1>2, <1>3, <1>4

(* A swing of the structure engine is a pivot of its width. *)
LEMMA SwingIsPivot ==
  ASSUME NEW tape \in Seq(Candle), NEW side \in Sides,
         NEW i \in (SwingLookback + 1)..(Len(tape) - SwingLookback), IsSwing(tape, i, side)
  PROVE  IsPivot(tape, i, side, SwingLookback)
<1>1. ASSUME NEW j \in 1..SwingLookback
      PROVE  /\ Extreme(tape[i - j], side) <  Extreme(tape[i], side)
             /\ Extreme(tape[i + j], side) <= Extreme(tape[i], side)
  <2> DEFINE a == i - j
             b == i + j
  <2>1. /\ SwingLookback \in Nat /\ Len(tape) \in Nat /\ j \in Nat /\ i \in Int
        /\ i >= SwingLookback + 1 /\ i <= Len(tape) - SwingLookback
        /\ j >= 1 /\ j <= SwingLookback
    BY SwingsAssumption
  <2>2. a \in 1..Len(tape) /\ b \in 1..Len(tape) /\ i \in 1..Len(tape) /\ a # i /\ b # i
    BY <2>1
  <2>3. Magnitude(a - i) <= SwingLookback /\ Magnitude(b - i) <= SwingLookback
    <3>1. a - i = -j /\ b - i = j
      BY <2>1
    <3> HIDE DEF a, b
    <3> QED
      BY <2>1, <3>1 DEF Magnitude
  <2> HIDE DEF a, b
  <2>4. Extreme(tape[a], side) < Extreme(tape[i], side) /\ Extreme(tape[b], side) < Extreme(tape[i], side)
    BY <2>2, <2>3 DEF IsSwing
  <2>5. Extreme(tape[a], side) \in Int /\ Extreme(tape[b], side) \in Int /\ Extreme(tape[i], side) \in Int
    BY <2>2, PivotsAre
  <2> QED
    BY <2>4, <2>5 DEF a, b
<1> QED
  BY <1>1 DEF IsPivot

(* On any chart the swings are what the templates are written against. *)
LEMMA AlwaysAlike ==
  ASSUME NEW tape \in Seq(Candle)
  PROVE  ReadAlike(tape)
<1> DEFINE raw == AllConfirmed(tape, Lookback)
           z == Zigzag(tape)
<1>1. InOrder(tape, raw, Len(tape)) /\ IsZigzag(tape, raw, Len(raw), z)
  BY AllConfirmedIs, ZigzagIs
<1> HIDE DEF raw, z
<1>2. z \in Seq(Pivots(tape)) /\ Len(z) \in Nat
  <2>1. z \in Seq(Pivots(tape))
    BY <1>1 DEF IsZigzag
  <2> QED
    BY <2>1
<1>3. \A k \in 1..Len(z) : \E i \in 1..Len(tape), side \in {"high", "low"} :
        IsPivot(tape, i, side, Lookback) /\ z[k] = PivotOf(tape, i, side)
  <2> TAKE k \in 1..Len(z)
  <2> DEFINE p == z[k]
  <2>1. p \in Pivots(tape)
    BY <1>2
  <2> HIDE DEF p
  <2>2. /\ p.index \in 1..Len(tape) /\ p.kind \in {"high", "low"}
        /\ IsPivot(tape, p.index, p.kind, Lookback) /\ p = PivotOf(tape, p.index, p.kind)
    BY <2>1, PivotsAre DEF Pivots, Sides
  <2> QED
    BY <2>2 DEF p
<1>4. ASSUME NEW k \in 1..(Len(z) - 1)
      PROVE  z[k].kind # z[k + 1].kind /\ IsLeg(tape, z[k], z[k + 1])
  <2>1. k \in 1..Len(z) /\ k + 1 \in 1..Len(z)
    BY <1>2
  <2>2. z[k] \in Pivots(tape) /\ z[k + 1] \in Pivots(tape)
    BY <1>2, <2>1
  <2>3. z[k].kind # z[k + 1].kind /\ Leg(tape, raw, Len(raw), z[k], z[k + 1])
    BY <1>1 DEF IsZigzag
  <2> QED
    BY <1>1, <2>2, <2>3, LegIsLeg
<1>5. \A side \in {"high", "low"} : \A i, j \in 1..Len(tape) :
        i < j /\ j - i <= Lookback /\ IsPivot(tape, i, side, Lookback) =>
          ~IsPivot(tape, j, side, Lookback)
  BY PlateauHasOne DEF Sides
<1>6. \A side \in {"high", "low"} :
        \A i \in (SwingLookback + 1)..(Len(tape) - SwingLookback) :
          IsSwing(tape, i, side) => IsPivot(tape, i, side, SwingLookback)
  BY SwingIsPivot DEF Sides
<1> QED
  BY <1>3, <1>4, <1>5, <1>6 DEF ReadAlike, z

(* The newest candles of a chart are as many as were asked for, where there are so many. *)
LEMMA NewestIs ==
  ASSUME NEW T, NEW chart \in Seq(T), NEW n \in Nat
  PROVE  LET lost == IF Len(chart) > n THEN Len(chart) - n ELSE 0
         IN  /\ Newest(chart, n) \in Seq(T)
             /\ Ends(Newest(chart, n), chart, lost)
<1> DEFINE lost == IF Len(chart) > n THEN Len(chart) - n ELSE 0
           k == lost + 1
<1>1. Len(chart) \in Nat /\ lost \in Nat /\ k \in 1..(Len(chart) + 1) /\ k - 1 = lost
  OBVIOUS
<1>2. Max({1, Len(chart) - n + 1}) = k
  BY <1>1, OfTwo
<1> HIDE DEF lost, k
<1>3. Newest(chart, n) = SubSeq(chart, k, Len(chart))
  BY <1>2 DEF Newest
<1>4. Newest(chart, n) \in Seq(T) /\ Ends(Newest(chart, n), chart, lost)
  BY <1>1, <1>3, NewestEnds
<1> QED
  BY <1>4 DEF lost

(* Two charts that end alike have the same newest candles. *)
LEMMA NewestAlike ==
  ASSUME NEW T, NEW part \in Seq(T), NEW chart \in Seq(T), NEW d, Ends(part, chart, d),
         NEW n \in Nat, n <= Len(part)
  PROVE  Newest(part, n) = Newest(chart, n) /\ Len(Newest(part, n)) = n
<1> DEFINE p == Newest(part, n)
           q == Newest(chart, n)
           a == Len(part) - n
           b == Len(chart) - n
<1>1. d \in Nat /\ Len(part) \in Nat /\ Len(chart) = Len(part) + d
  BY DEF Ends
<1>2. p \in Seq(T) /\ Ends(p, part, a)
  <2>1. (IF Len(part) > n THEN Len(part) - n ELSE 0) = a
    BY <1>1
  <2> QED
    BY <2>1, NewestIs
<1>3. q \in Seq(T) /\ Ends(q, chart, b)
  <2>1. (IF Len(chart) > n THEN Len(chart) - n ELSE 0) = b
    BY <1>1
  <2> QED
    BY <2>1, NewestIs
<1> HIDE DEF p, q
<1>4. Len(p) = n /\ Len(q) = n
  BY <1>1, <1>2, <1>3 DEF Ends
<1>5. ASSUME NEW i \in 1..n
      PROVE  p[i] = q[i]
  <2> DEFINE k == i + a
  <2>1. k \in 1..Len(part) /\ k + d = i + b
    BY <1>1
  <2>2. p[i] = part[k]
    BY <1>2, <1>4 DEF Ends
  <2> HIDE DEF k
  <2>3. part[k] = chart[k + d]
    BY <2>1 DEF Ends
  <2>4. q[i] = chart[i + b]
    BY <1>3, <1>4 DEF Ends
  <2> QED
    BY <2>1, <2>2, <2>3, <2>4
<1>6. p = q
  BY <1>2, <1>3, <1>4, <1>5
<1> QED
  BY <1>4, <1>6 DEF p, q

(* Charts that end alike for as long as a moment needs show it alike. *)
LEMMA MomentAlike ==
  ASSUME NEW part \in Seq(Candle), NEW chart \in Seq(Candle), NEW d, Ends(part, chart, d),
         Len(part) >= MinCandles, NEW at
  PROVE  /\ AtrOf(part, CasePeriod) = AtrOf(chart, CasePeriod)
         /\ part[Len(part)] = chart[Len(chart)]
         /\ Len(part) >= RangeWindow => FingerprintAt(part, at) = FingerprintAt(chart, at)
<1>1. /\ d \in Nat /\ Len(part) \in Nat /\ Len(chart) = Len(part) + d
      /\ CasePeriod \in Nat /\ RecentPeriod \in Nat /\ MinCandles \in Nat /\ RangeWindow \in Nat
  BY CasesAssumption DEF Ends
<1>2. MinCandles > CasePeriod /\ MinCandles > RecentPeriod
  BY <1>1, CasesAssumption, OfTwo
<1>3. AtrOf(part, CasePeriod) = AtrOf(chart, CasePeriod)
  <2>1. Newest(part, CasePeriod + 1) = Newest(chart, CasePeriod + 1)
    BY <1>1, <1>2, NewestAlike
  <2> QED
    BY <2>1 DEF AtrOf
<1>4. AtrOf(part, RecentPeriod) = AtrOf(chart, RecentPeriod)
  <2>1. Newest(part, RecentPeriod + 1) = Newest(chart, RecentPeriod + 1)
    BY <1>1, <1>2, NewestAlike
  <2> QED
    BY <2>1 DEF AtrOf
<1>5. part[Len(part)] = chart[Len(chart)]
  BY <1>1, <1>2 DEF Ends
<1>6. ASSUME Len(part) >= RangeWindow
      PROVE  FingerprintAt(part, at) = FingerprintAt(chart, at)
  <2>1. Newest(part, RangeWindow) = Newest(chart, RangeWindow)
    BY <1>1, <1>6, NewestAlike
  <2>2. \A window : IsVolatile(part, window) = IsVolatile(chart, window)
    BY <1>4 DEF IsVolatile
  <2> QED
    BY <1>3, <2>1, <2>2 DEF FingerprintAt
<1> QED
  BY <1>3, <1>5, <1>6

(* What came of a trade is read from the candles of its horizon and from no other. *)
LEMMA ResolveAlike ==
  ASSUME NEW direction, NEW entry, NEW atr, NEW f \in Seq(Candle), NEW g \in Seq(Candle),
         Len(f) >= Horizon, Len(g) >= Horizon, \A i \in 1..Horizon : f[i] = g[i]
  PROVE  Resolve(direction, entry, atr, f) = Resolve(direction, entry, atr, g)
<1> DEFINE Favourable(h, i) == IF direction = "buy" THEN h[i].high - entry ELSE entry - h[i].low
           Adverse(h, i)    == IF direction = "buy" THEN entry - h[i].low ELSE h[i].high - entry
           Stopped(h, i)    == Adverse(h, i) * atr.count >= atr.sum
           Reached(h, i)    == Favourable(h, i) * atr.count >= 2 * atr.sum
           walked(h)        == Min({Horizon, Len(h)})
           hits(h)          == {i \in 1..walked(h) : Stopped(h, i) \/ Reached(h, i)}
           decided(h)       == Earliest(hits(h))
           until(h)         == IF decided(h) = 0 THEN walked(h) ELSE decided(h)
           best(h)          == {Favourable(h, i) : i \in 1..until(h)}
           worst(h)         == {Adverse(h, i) : i \in 1..until(h)}
<1>1. \A h : Resolve(direction, entry, atr, h) =
        [resolution |-> IF decided(h) = 0 THEN "unresolved"
                        ELSE IF Stopped(h, decided(h)) THEN "stop_first" ELSE "target_first",
         bars |-> until(h),
         favourable |-> Fixed(Max({0} \cup best(h)) * atr.count, atr.sum, 1000),
         adverse |-> Fixed(Max({0} \cup worst(h)) * atr.count, atr.sum, 1000)]
  BY DEF Resolve
<1>2. walked(f) = Horizon /\ walked(g) = Horizon /\ Horizon \in Nat
  <2>1. Horizon \in Int /\ Horizon \in Nat /\ Len(f) \in Int /\ Len(g) \in Int
    BY CasesAssumption
  <2> QED
    BY <2>1, OfTwo
<1>3. \A i \in 1..Horizon : /\ Favourable(f, i) = Favourable(g, i)
                            /\ Adverse(f, i) = Adverse(g, i)
  OBVIOUS
<1>4. \A i \in 1..Horizon : /\ Stopped(f, i) <=> Stopped(g, i)
                            /\ Reached(f, i) <=> Reached(g, i)
  BY <1>3
<1>5. hits(f) = hits(g) /\ hits(f) \subseteq 1..Horizon
  <2> HIDE DEF walked, Stopped, Reached
  <2> QED
    BY <1>2, <1>4
<1>6. decided(f) = decided(g) /\ decided(f) \in 0..Horizon
  <2> HIDE DEF hits
  <2>1. hits(f) \subseteq Nat
    BY <1>2, <1>5
  <2> QED
    BY <1>2, <1>5, <2>1, EarliestIs
<1>7. until(f) = until(g) /\ until(f) \in 0..Horizon
  <2> HIDE DEF walked, decided
  <2> QED
    BY <1>2, <1>6
<1>8. best(f) = best(g) /\ worst(f) = worst(g)
  <2>1. \A i \in 1..until(f) : i \in 1..Horizon
    <3> HIDE DEF until
    <3> QED
      BY <1>2, <1>7
  <2> HIDE DEF until, Favourable, Adverse
  <2> QED
    BY <1>3, <1>7, <2>1
<1>9. decided(f) # 0 => (Stopped(f, decided(f)) <=> Stopped(g, decided(g)))
  <2>1. decided(f) # 0 => decided(f) \in 1..Horizon
    <3> HIDE DEF decided
    <3> QED
      BY <1>2, <1>6
  <2> HIDE DEF decided, Stopped
  <2> QED
    BY <1>4, <1>6, <2>1
<1> DEFINE end(h)  == IF decided(h) = 0 THEN "unresolved"
                       ELSE IF Stopped(h, decided(h)) THEN "stop_first" ELSE "target_first"
           ran(side) == Fixed(Max({0} \cup side) * atr.count, atr.sum, 1000)
<1>10. \A h : Resolve(direction, entry, atr, h) =
         [resolution |-> end(h), bars |-> until(h),
          favourable |-> ran(best(h)), adverse |-> ran(worst(h))]
  BY <1>1
<1> HIDE DEF decided, until, best, worst, Stopped
<1>11. end(f) = end(g)
  BY <1>6, <1>9
<1>12. ran(best(f)) = ran(best(g)) /\ ran(worst(f)) = ran(worst(g))
  BY <1>8
<1> HIDE DEF end, ran
<1> QED
  BY <1>7, <1>10, <1>11, <1>12

(* A stored case says what another does, but for the fingerprint. *)
Agree(c, whole) == [whole EXCEPT !.fingerprint = c.fingerprint] = c

(* What a sweep stores of a moment is what a longer chart with the same candles around it *)
(* says of it.                                                                            *)
LEMMA CaseAlike ==
  ASSUME NEW part \in Seq(Candle), NEW chart \in Seq(Candle), NEW d, Ends(part, chart, d),
         Len(part) >= MinCandles, NEW at,
         NEW f \in Seq(Candle), NEW g \in Seq(Candle),
         Len(f) >= Horizon, Len(g) >= Horizon, \A i \in 1..Horizon : f[i] = g[i]
  PROVE  /\ Agree(CaseAt(part, at, f), CaseAt(chart, at, g))
         /\ Len(part) >= RangeWindow => CaseAt(chart, at, g) = CaseAt(part, at, f)
<1> DEFINE atr == AtrOf(part, CasePeriod)
           entry == part[Len(part)].close
           buy == Resolve("buy", entry, atr, f)
           sell == Resolve("sell", entry, atr, f)
           p == FingerprintAt(part, at)
           q == FingerprintAt(chart, at)
<1>1. /\ AtrOf(part, CasePeriod) = AtrOf(chart, CasePeriod)
      /\ part[Len(part)] = chart[Len(chart)]
      /\ Len(part) >= RangeWindow => p = q
  BY MomentAlike
<1>2. /\ Resolve("buy", entry, atr, f) = Resolve("buy", entry, atr, g)
      /\ Resolve("sell", entry, atr, f) = Resolve("sell", entry, atr, g)
  <2> HIDE DEF atr, entry
  <2> QED
    BY ResolveAlike
<1>3. CaseAt(part, at, f) = [moment |-> at, fingerprint |-> p, atr |-> atr, entry |-> entry,
                             buy |-> buy, sell |-> sell]
  BY DEF CaseAt
<1>4. CaseAt(chart, at, g) = [moment |-> at, fingerprint |-> q, atr |-> atr, entry |-> entry,
                              buy |-> buy, sell |-> sell]
  BY <1>1, <1>2 DEF CaseAt
<1>5. Len(part) >= RangeWindow => p = q
  BY <1>1
<1> HIDE DEF atr, entry, buy, sell, p, q
<1>6. Agree([moment |-> at, fingerprint |-> p, atr |-> atr, entry |-> entry,
             buy |-> buy, sell |-> sell],
            [moment |-> at, fingerprint |-> q, atr |-> atr, entry |-> entry,
             buy |-> buy, sell |-> sell])
  BY DEF Agree
<1>7. Agree(CaseAt(part, at, f), CaseAt(chart, at, g))
  BY <1>3, <1>4, <1>6
<1>8. Len(part) >= RangeWindow => CaseAt(chart, at, g) = CaseAt(part, at, f)
  BY <1>3, <1>4, <1>5
<1> QED
  BY <1>7, <1>8

(* What a sweep loads: the newest candles, with those before them unswept. *)
LEMMA SweptIs ==
  ASSUME NEW chart \in Seq(Candle)
  PROVE  LET swept == Newest(chart, SweptBars)
         IN  /\ swept \in Seq(Candle) /\ Unswept(chart) \in Nat
             /\ Ends(swept, chart, Unswept(chart))
<1> DEFINE lost == IF Len(chart) > SweptBars THEN Len(chart) - SweptBars ELSE 0
<1>1. SweptBars \in Nat /\ Len(chart) \in Nat /\ lost \in Nat
  BY CasesAssumption
<1>2. Unswept(chart) = lost
  BY <1>1, OfTwo DEF Unswept
<1>3. Newest(chart, SweptBars) \in Seq(Candle) /\ Ends(Newest(chart, SweptBars), chart, lost)
  BY <1>1, NewestIs
<1> HIDE DEF lost
<1> QED
  BY <1>1, <1>2, <1>3

(* A case a sweep stores is of a moment with candles enough behind it and its horizon *)
(* ahead, short of the newest candle.                                                 *)
LEMMA SweepIs ==
  ASSUME NEW chart \in Seq(Candle), NEW c \in Sweep(chart)
  PROVE  LET swept == Newest(chart, SweptBars)
         IN  \E i \in MinCandles..(Len(swept) - Horizon - 1) :
               /\ c = CaseAt(SubSeq(swept, 1, i), Unswept(chart) + i, SubSeq(swept, i + 1, i + Horizon))
               /\ c.moment = Unswept(chart) + i
<1> DEFINE swept == Newest(chart, SweptBars)
           Of(i) == CaseAt(SubSeq(swept, 1, i), Unswept(chart) + i, SubSeq(swept, i + 1, i + Horizon))
           I == {m \in Moments(swept) : Fingerprintable(SubSeq(swept, 1, m))}
<1>1. Sweep(chart) = {Of(i) : i \in I}
  BY DEF Sweep, BuildCases
<1>2. \A i : Of(i).moment = Unswept(chart) + i
  BY DEF CaseAt
<1> HIDE DEF Of
<1>3. PICK i \in I : c = Of(i)
  <2> HIDE DEF I
  <2> QED
    BY <1>1
<1>4. i \in MinCandles..(Len(swept) - Horizon - 1)
  BY DEF Moments
<1>5. c.moment = Unswept(chart) + i
  BY <1>2, <1>3
<1> QED
  BY <1>3, <1>4, <1>5 DEF Of

(* The cases of a chart are those of any chart that differs from its newest candle on. *)
LEMMA SweepAlike ==
  ASSUME NEW before \in Seq(Candle), NEW after \in Seq(Candle), Len(before) <= Len(after),
         \A k \in 1..(Len(before) - 1) : before[k] = after[k],
         NEW c \in Sweep(before)
  PROVE  /\ c.moment \in Int /\ c.moment + Horizon < Len(before)
         /\ LET whole == CaseAt(SubSeq(after, 1, c.moment), c.moment,
                                SubSeq(after, c.moment + 1, Len(after)))
            IN  /\ Agree(c, whole)
                /\ c.moment - Unswept(before) >= RangeWindow => whole = c
<1> DEFINE swept == Newest(before, SweptBars)
           d == Unswept(before)
           n == Len(before)
           N == Len(after)
<1>1. swept \in Seq(Candle) /\ d \in Nat /\ Ends(swept, before, d)
  BY SweptIs
<1>2. PICK i \in MinCandles..(Len(swept) - Horizon - 1) :
        /\ c = CaseAt(SubSeq(swept, 1, i), d + i, SubSeq(swept, i + 1, i + Horizon))
        /\ c.moment = d + i
  BY SweepIs
<1> HIDE DEF swept, d
<1> DEFINE m == d + i
           part == SubSeq(swept, 1, i)
           chart == SubSeq(after, 1, m)
           f == SubSeq(swept, i + 1, i + Horizon)
           g == SubSeq(after, m + 1, N)
<1>3. /\ n \in Nat /\ N \in Nat /\ n <= N /\ Len(swept) \in Nat /\ n = Len(swept) + d
      /\ MinCandles \in Nat /\ Horizon \in Nat /\ i \in Nat /\ MinCandles <= i
      /\ i + Horizon < Len(swept) /\ m \in Nat /\ m + Horizon < n
  <2>1. MinCandles \in Nat /\ Horizon \in Nat
    BY CasesAssumption
  <2>2. n \in Nat /\ N \in Nat /\ n <= N
    OBVIOUS
  <2>3. Len(swept) \in Nat /\ n = Len(swept) + d /\ d \in Nat
    BY <1>1 DEF Ends
  <2> HIDE DEF n, N
  <2>4. i \in Nat /\ MinCandles <= i /\ i + Horizon < Len(swept)
    BY <2>1, <2>3
  <2> QED
    BY <2>1, <2>2, <2>3, <2>4
<1>4. \A k \in 1..(Len(swept) - 1) : swept[k] = after[k + d]
  <2> TAKE k \in 1..(Len(swept) - 1)
  <2> DEFINE j == k + d
  <2>1. k \in 1..Len(swept) /\ j \in 1..(n - 1)
    BY <1>1, <1>3
  <2>2. swept[k] = before[j]
    BY <1>1, <2>1 DEF Ends
  <2> HIDE DEF j
  <2>3. before[j] = after[j]
    BY <2>1
  <2> QED
    BY <2>2, <2>3 DEF j
<1>5. /\ part \in Seq(Candle) /\ Len(part) = i
      /\ \A k \in 1..i : part[k] = swept[k]
  <2>1. \A k \in 1..i : swept[k] \in Candle
    BY <1>1, <1>3
  <2> QED
    BY <1>3, <2>1
<1>6. /\ chart \in Seq(Candle) /\ Len(chart) = m
      /\ \A k \in 1..m : chart[k] = after[k]
  <2> HIDE DEF m
  <2>1. \A k \in 1..m : after[k] \in Candle
    BY <1>3
  <2> QED
    BY <1>3, <2>1
<1>7. /\ f \in Seq(Candle) /\ Len(f) = Horizon
      /\ \A k \in 1..Horizon : f[k] = swept[k + i]
  <2>1. \A k \in (i + 1)..(i + Horizon) : swept[k] \in Candle
    BY <1>1, <1>3
  <2> QED
    BY <1>3, <2>1
<1>8. /\ g \in Seq(Candle) /\ Len(g) = N - m /\ Len(g) >= Horizon
      /\ \A k \in 1..Horizon : g[k] = after[k + m]
  <2> HIDE DEF m
  <2>1. \A k \in (m + 1)..N : after[k] \in Candle
    BY <1>3
  <2> QED
    BY <1>3, <2>1
<1> HIDE DEF part, chart, f, g
<1>9. Ends(part, chart, d)
  <2>1. ASSUME NEW k \in 1..i
        PROVE  part[k] = chart[k + d]
    <3> DEFINE j == k + d
    <3>1. k \in 1..(Len(swept) - 1) /\ j \in 1..m
      BY <1>1, <1>3
    <3>2. part[k] = after[j]
      BY <1>4, <1>5, <3>1
    <3> HIDE DEF j
    <3>3. chart[j] = after[j]
      BY <1>6, <3>1
    <3> QED
      BY <3>2, <3>3 DEF j
  <2>2. m = i + d
    BY <1>1, <1>3
  <2> HIDE DEF m
  <2> QED
    BY <1>1, <1>3, <1>5, <1>6, <2>1, <2>2 DEF Ends
<1>10. \A k \in 1..Horizon : f[k] = g[k]
  <2> TAKE k \in 1..Horizon
  <2> DEFINE j == k + i
  <2>1. j \in 1..(Len(swept) - 1) /\ j + d = k + m
    BY <1>1, <1>3
  <2>2. f[k] = swept[j] /\ g[k] = after[k + m]
    BY <1>7, <1>8
  <2> HIDE DEF j
  <2>3. swept[j] = after[j + d]
    BY <1>4, <2>1
  <2> QED
    BY <2>1, <2>2, <2>3
<1>11. c = CaseAt(part, m, f)
  BY <1>2 DEF part, f
<1> HIDE DEF m
<1>12. /\ Agree(c, CaseAt(chart, m, g))
       /\ i >= RangeWindow => CaseAt(chart, m, g) = c
  <2>1. Len(part) >= MinCandles /\ Len(f) >= Horizon /\ Len(g) >= Horizon
    BY <1>3, <1>5, <1>7, <1>8
  <2>2. /\ part \in Seq(Candle) /\ chart \in Seq(Candle)
        /\ f \in Seq(Candle) /\ g \in Seq(Candle)
    BY <1>5, <1>6, <1>7, <1>8
  <2>3. Agree(CaseAt(part, m, f), CaseAt(chart, m, g))
    BY <1>9, <1>10, <2>1, <2>2, CaseAlike
  <2>4. Len(part) >= RangeWindow => CaseAt(chart, m, g) = CaseAt(part, m, f)
    BY <1>9, <1>10, <2>1, <2>2, CaseAlike
  <2> QED
    BY <1>5, <1>11, <2>3, <2>4
<1> DEFINE whole == CaseAt(chart, m, g)
<1>15. Agree(c, whole) /\ (i >= RangeWindow => whole = c)
  BY <1>12
<1>13. c.moment = m /\ m - d = i
  BY <1>1, <1>2, <1>3 DEF m
<1> HIDE DEF whole
<1>14. CaseAt(SubSeq(after, 1, c.moment), c.moment, SubSeq(after, c.moment + 1, Len(after))) = whole
  BY <1>13 DEF whole, chart, g
<1> QED
  BY <1>3, <1>13, <1>14, <1>15 DEF d

(* What the nightly sweep stores is settled, whatever the newest candle does. *)
LEMMA SettledAlike ==
  ASSUME NEW before \in Seq(Candle), NEW after \in Seq(Candle), Len(before) <= Len(after),
         \A k \in 1..(Len(before) - 1) : before[k] = after[k]
  PROVE  SettledBy(before, after)
<1> DEFINE whole(c) == CaseAt(SubSeq(after, 1, c.moment), c.moment,
                              SubSeq(after, c.moment + 1, Len(after)))
<1>1. \A c \in Sweep(before) :
        /\ c.moment \in Int /\ c.moment + Horizon < Len(before)
        /\ Agree(c, whole(c))
        /\ c.moment - Unswept(before) >= RangeWindow => whole(c) = c
  BY SweepAlike
<1>2. \A c \in Sweep(after) : c.moment \in Int /\ c.moment + Horizon < Len(after)
  BY SweepAlike
<1>3. ASSUME NEW c \in FindSimilarCases(StoreCases(Sweep(before), Sweep(after)),
                                        FingerprintAt(after, Len(after)), Len(after) + 1)
      PROVE  c.moment + Horizon < Len(after)
  <2>1. c \in StoreCases(Sweep(before), Sweep(after))
    BY <1>3 DEF FindSimilarCases
  <2>2. c \in Sweep(before) \/ c \in Sweep(after)
    BY <2>1 DEF StoreCases
  <2>3. Horizon \in Int /\ Len(before) \in Int /\ Len(after) \in Int
    BY CasesAssumption
  <2> QED
    BY <1>1, <1>2, <2>2, <2>3
<1> QED
  BY <1>1, <1>3 DEF SettledBy, Agree
-----------------------------------------------------------------------------
(* A plan lives on candles, and so does what is stored of the market before it. *)
LEMMA PlanCharts ==
  ASSUME PlanTypes
  PROVE  /\ bars \in Seq(Candle) /\ History \in Seq(Candle)
         /\ \A b \in Bar : b \in Candle
<1>1. Bar \subseteq Candle /\ History \in Seq(Candle)
  BY PlanAssumption DEF Candle
<1>2. bars \in Seq(Bar) /\ Len(bars) \in Nat
  BY DEF PlanTypes
<1>3. \A i \in 1..Len(bars) : bars[i] \in Candle
  BY <1>1, <1>2
<1>4. bars \in Seq(Candle)
  BY <1>2, <1>3
<1> QED
  BY <1>1, <1>4

(* The chart a sweep read before its newest candle opened or grew is the same up to that *)
(* candle.                                                                               *)
LEMMA EarlierAlike ==
  ASSUME PlanTypes, bars # <<>>, NEW chart \in Earlier
  PROVE  SettledBy(chart, History \o bars)
<1> DEFINE n == Len(bars)
           after == History \o bars
<1>1. /\ bars \in Seq(Candle) /\ History \in Seq(Candle) /\ n \in Nat \ {0}
      /\ Len(History) \in Nat /\ \A b \in Bar : b \in Candle
  <2>1. bars \in Seq(Candle) /\ History \in Seq(Candle) /\ \A b \in Bar : b \in Candle
    BY PlanCharts
  <2> QED
    BY <2>1
<1>2. PICK part : /\ chart = History \o part /\ part \in Seq(Candle) /\ Len(part) <= n
                  /\ \A k \in 1..(n - 1) : k <= Len(part) => part[k] = bars[k]
  <2>1. CASE chart = History \o Front(bars)
    <3> DEFINE front == Front(bars)
    <3>1. front = SubSeq(bars, 1, n - 1)
      BY DEF Front
    <3>2. \A k \in 1..(n - 1) : bars[k] \in Candle
      BY <1>1
    <3> HIDE DEF n
    <3>3. /\ front \in Seq(Candle) /\ Len(front) = n - 1
          /\ \A k \in 1..(n - 1) : front[k] = bars[k]
      BY <1>1, <3>1, <3>2
    <3> HIDE DEF front
    <3>4. Len(front) <= n
      BY <1>1, <3>3
    <3> QED
      BY <2>1, <3>3, <3>4 DEF front
  <2>2. CASE \E b \in Bar : chart = History \o [bars EXCEPT ![Len(bars)] = b]
    <3>1. PICK b \in Bar : chart = History \o [bars EXCEPT ![Len(bars)] = b]
      BY <2>2
    <3> DEFINE grown == [bars EXCEPT ![Len(bars)] = b]
    <3>2. /\ grown \in Seq(Candle) /\ Len(grown) = n
          /\ \A k \in 1..(n - 1) : grown[k] = bars[k]
      BY <1>1
    <3> HIDE DEF grown, n
    <3>3. Len(grown) <= n
      BY <1>1, <3>2
    <3> QED
      BY <3>1, <3>2, <3>3 DEF grown, n
  <2> QED
    BY <2>1, <2>2 DEF Earlier
<1>3. /\ chart \in Seq(Candle) /\ Len(chart) = Len(History) + Len(part)
      /\ (\A k \in 1..Len(History) : chart[k] = History[k])
      /\ \A k \in 1..Len(part) : chart[Len(History) + k] = part[k]
  BY <1>1, <1>2, Concatenated
<1>4. /\ after \in Seq(Candle) /\ Len(after) = Len(History) + n
      /\ (\A k \in 1..Len(History) : after[k] = History[k])
      /\ \A k \in 1..n : after[Len(History) + k] = bars[k]
  BY <1>1, Concatenated
<1>5. Len(part) \in Nat /\ Len(part) <= n
  BY <1>2
<1> HIDE DEF n, after
<1>6. Len(chart) <= Len(after)
  BY <1>1, <1>3, <1>4, <1>5
<1>7. ASSUME NEW k \in 1..(Len(chart) - 1)
      PROVE  chart[k] = after[k]
  <2>1. CASE k \in 1..Len(History)
    BY <1>3, <1>4, <2>1
  <2>2. CASE k \notin 1..Len(History)
    <3> DEFINE j == k - Len(History)
    <3>1. j \in 1..Len(part) /\ j \in 1..(n - 1) /\ j \in 1..n /\ j <= Len(part)
          /\ Len(History) + j = k
      BY <1>1, <1>3, <1>5, <2>2
    <3> HIDE DEF j
    <3>2. chart[k] = part[j] /\ after[k] = bars[j]
      BY <1>3, <1>4, <3>1
    <3>3. part[j] = bars[j]
      BY <1>2, <3>1
    <3> QED
      BY <3>2, <3>3
  <2> QED
    BY <2>1, <2>2
<1>8. SettledBy(chart, after)
  BY <1>3, <1>4, <1>6, <1>7, SettledAlike
<1> QED
  BY <1>8 DEF after

(* A plan is always of its types. *)
LEMMA PlanIsTyped == Spec => []PlanTypes
<1>1. Init => PlanTypes
  BY InitPlan DEF PlanInv
<1> QED
  BY <1>1, PlanTypesStep, PTL DEF Spec

(* On every chart a plan lives on, the swings the pattern templates read are one per       *)
(* plateau, alternate sides, make legs worth one and are the swings of the structure       *)
(* engine (SwingsAreSound): confirmed_pivots, zigzag_pivots and detect_structure.          *)
THEOREM SwingsStaySound == Spec => []SwingsAreSound
<1>1. PlanTypes => SwingsAreSound
  BY PlanCharts, AlwaysAlike DEF SwingsAreSound
<1> QED
  BY <1>1, PlanIsTyped, PTL

(* Whatever the newest candle does, what the nightly sweep stored before is what the whole *)
(* chart says, and no outcome behind an answer about the present reaches the candle that   *)
(* is asked about (CasesAreSettled): index_market_cases, store_cases, find_similar_cases.  *)
THEOREM CasesStaySettled == Spec => []CasesAreSettled
<1>1. PlanTypes => CasesAreSettled
  BY EarlierAlike DEF CasesAreSettled
<1> QED
  BY <1>1, PlanIsTyped, PTL
=============================================================================
