------------------------ MODULE OutcomeRecords_proofs ------------------------
(***************************************************************************)
(* Theorems about what becomes of a recorded outcome.  First, for every    *)
(* set of releases, symbols and plans, and whatever data the database      *)
(* holds: the schema, and the records in it, through upgrades and          *)
(* rollbacks (Deployments).  The shapes of the database come from the      *)
(* facts TLC computes in SchemaFacts; that data never changes them, and    *)
(* that no upgrade loses it, is proved here.  Then, for every set of       *)
(* buckets and outcomes, every window, floor and threshold: how a strategy *)
(* is judged by its outcomes (DecayLifecycle).                             *)
(***************************************************************************)
EXTENDS SchemaFacts, Deployments, DecayLifecycle, FiniteSetTheorems, WellFoundedInduction, TLAPS

(* Numbers that are not none have a least one. *)
LEMMA SomeLeast ==
  ASSUME NEW S, S \subseteq Nat, S # {}
  PROVE  \E n \in S : \A m \in S : n <= m
<1>1. PICK n \in S : \A m \in S : ~(<<m, n>> \in OpToRel(<, Nat))
  BY WFMin, NatLessThanWellFounded
<1>2. \A m \in S : ~(m < n)
  BY <1>1 DEF OpToRel
<1> QED
  BY <1>2

(* A set that holds 0 and the successor of each of its numbers below a bound holds all of *)
(* them up to the bound.                                                                   *)
LEMMA Climbing ==
  ASSUME NEW N \in Nat, NEW S, 0 \in S, \A n \in 1..N : n - 1 \in S => n \in S
  PROVE  \A n \in 0..N : n \in S
<1> DEFINE missing == {n \in 0..N : n \notin S}
<1> SUFFICES ASSUME missing # {} PROVE FALSE
  OBVIOUS
<1>1. missing \subseteq Nat
  OBVIOUS
<1>2. PICK n \in missing : \A m \in missing : n <= m
  <2> HIDE DEF missing
  <2> QED
    BY <1>1, SomeLeast
<1>3. n \in 1..N /\ n \notin S
  OBVIOUS
<1>4. n - 1 \in 0..N /\ ~(n <= n - 1)
  BY <1>3
<1> QED
  BY <1>2, <1>3, <1>4

(* What a transaction has made of a database after each of its first n statements. *)
Ran(f, n, d, L) ==
  /\ DOMAIN f = 0..n /\ f[0] = d
  /\ \A i \in 1..n : f[i] = Then(f[i - 1], L[i])

(* A transaction runs its statements one after the other. *)
LEMMA ExecuteRuns ==
  ASSUME NEW d, NEW L, Len(L) \in Nat
  PROVE  \E f : Ran(f, Len(L), d, L) /\ Execute(d, L) = f[Len(L)]
<1> DEFINE N == Len(L)
           Is(f, n) == f = [i \in 0..n |-> IF i = 0 THEN d ELSE Then(f[i - 1], L[i])]
           S == {n \in 0..N : \E f : Is(f, n)}
<1>1. d.ok => Execute(d, L) = (CHOOSE f : Is(f, N))[N]
  BY DEF Execute
<1>2. 0 \in S
  <2>1. Is([i \in 0..0 |-> d], 0)
    OBVIOUS
  <2>2. \E f : Is(f, 0)
    <3> HIDE DEF Is
    <3> QED
      BY <2>1
  <2> HIDE DEF Is
  <2> QED
    BY <2>2
<1>3. ASSUME NEW n \in 1..N, n - 1 \in S PROVE n \in S
  <2>1. PICK f : Is(f, n - 1)
    BY <1>3
  <2> DEFINE g == [i \in 0..n |-> IF i < n THEN f[i] ELSE Then(f[n - 1], L[n])]
  <2>2. \A i \in 0..n : g[i] = IF i = 0 THEN d ELSE Then(g[i - 1], L[i])
    <3> SUFFICES ASSUME NEW i \in 0..n PROVE g[i] = IF i = 0 THEN d ELSE Then(g[i - 1], L[i])
      OBVIOUS
    <3>1. CASE i = n
      <4>1. g[n] = Then(f[n - 1], L[n]) /\ g[n - 1] = f[n - 1]
        OBVIOUS
      <4> QED
        BY <3>1, <4>1
    <3>2. CASE i = 0
      BY <2>1, <3>2
    <3>3. CASE i \in 1..(n - 1)
      <4>1. g[i] = f[i] /\ g[i - 1] = f[i - 1] /\ i # 0 /\ i \in 0..(n - 1)
        BY <3>3
      <4>2. f[i] = IF i = 0 THEN d ELSE Then(f[i - 1], L[i])
        BY <2>1, <4>1
      <4> QED
        BY <4>1, <4>2
    <3> QED
      BY <3>1, <3>2, <3>3
  <2>3. Is(g, n)
    <3>1. g = [i \in 0..n |-> g[i]]
      OBVIOUS
    <3> HIDE DEF g
    <3> QED
      BY <2>2, <3>1
  <2> HIDE DEF Is, g
  <2> QED
    BY <2>3
<1>4. N \in S
  <2>1. N \in Nat
    OBVIOUS
  <2>2. \A n \in 1..N : n - 1 \in S => n \in S
    BY <1>3
  <2> HIDE DEF S, N
  <2>3. \A n \in 0..N : n \in S
    BY <1>2, <2>1, <2>2, Climbing
  <2> QED
    BY <2>1, <2>3
<1> DEFINE h == CHOOSE f : Is(f, N)
<1>5. Is(h, N)
  <2>1. \E f : Is(f, N)
    <3> HIDE DEF Is
    <3> QED
      BY <1>4
  <2> HIDE DEF Is
  <2> QED
    BY <2>1
<1>6. h[0] = d /\ \A i \in 1..N : h[i] = Then(h[i - 1], L[i])
  <2> HIDE DEF h
  <2>1. \A i \in 0..N : h[i] = IF i = 0 THEN d ELSE Then(h[i - 1], L[i])
    BY <1>5
  <2> QED
    BY <2>1
<1>7. DOMAIN h = 0..N
  <2> HIDE DEF h
  <2> QED
    BY <1>5
<1>8. Ran(h, N, d, L) /\ (d.ok => Execute(d, L) = h[N])
  <2> HIDE DEF h
  <2> QED
    BY <1>1, <1>6, <1>7 DEF h, Ran
<1>9. CASE ~d.ok
  <2> DEFINE f == [i \in 0..N |-> d]
  <2>1. Ran(f, N, d, L) /\ Execute(d, L) = f[N]
    BY <1>9 DEF Ran, Execute, Then
  <2> HIDE DEF f
  <2> QED
    BY <2>1
<1> QED
  BY <1>8, <1>9

(* What the migrations have made of a database at each revision of an upgrade. *)
Ascent(f, from, target, d) ==
  /\ f[from] = d
  /\ \A n \in (from + 1)..target : f[n] = Execute(f[n - 1], Upgrades[n])

(* An upgrade runs the pending migrations one after the other. *)
LEMMA UpgradeRuns ==
  ASSUME NEW d, NEW from \in Nat, NEW target \in Nat, from < target
  PROVE  \E f : Ascent(f, from, target, d) /\ UpgradeTo(d, from, target) = f[target]
<1> DEFINE Is(f, n) == f = [i \in from..n |-> IF i = from THEN d ELSE Execute(f[i - 1], Upgrades[i])]
           N == target - from
           S == {k \in 0..N : \E f : Is(f, from + k)}
<1>1. UpgradeTo(d, from, target) = (CHOOSE f : Is(f, target))[target]
  BY DEF UpgradeTo
<1>2. 0 \in S
  <2>1. Is([i \in from..(from + 0) |-> d], from + 0)
    OBVIOUS
  <2>2. \E f : Is(f, from + 0)
    <3> HIDE DEF Is
    <3> QED
      BY <2>1
  <2> HIDE DEF Is
  <2> QED
    BY <2>2
<1>3. ASSUME NEW k \in 1..N, k - 1 \in S PROVE k \in S
  <2> DEFINE n == from + k
             m == from + (k - 1)
  <2>1. n \in Nat /\ m = n - 1 /\ from <= m /\ m \in Nat /\ from < n
    OBVIOUS
  <2>2. PICK f : Is(f, m)
    <3> HIDE DEF Is
    <3> QED
      BY <1>3
  <2> HIDE DEF n, m
  <2> DEFINE g == [i \in from..n |-> IF i < n THEN f[i] ELSE Execute(f[n - 1], Upgrades[n])]
  <2>3. \A i \in from..n : g[i] = IF i = from THEN d ELSE Execute(g[i - 1], Upgrades[i])
    <3> SUFFICES ASSUME NEW i \in from..n
                 PROVE  g[i] = IF i = from THEN d ELSE Execute(g[i - 1], Upgrades[i])
      OBVIOUS
    <3>1. CASE i = n
      <4>1. g[n] = Execute(f[n - 1], Upgrades[n]) /\ g[n - 1] = f[n - 1]
        BY <2>1
      <4> QED
        BY <2>1, <3>1, <4>1
    <3>2. CASE i = from
      BY <2>1, <2>2, <3>2
    <3>3. CASE i # from /\ i # n
      <4>1. g[i] = f[i] /\ g[i - 1] = f[i - 1] /\ i \in from..m
        BY <2>1, <3>3
      <4>2. f[i] = IF i = from THEN d ELSE Execute(f[i - 1], Upgrades[i])
        BY <2>2, <4>1
      <4> QED
        BY <3>3, <4>1, <4>2
    <3> QED
      BY <3>1, <3>2, <3>3
  <2>4. Is(g, n)
    <3>1. g = [i \in from..n |-> g[i]]
      OBVIOUS
    <3> HIDE DEF g
    <3> QED
      BY <2>3, <3>1
  <2> HIDE DEF Is, g
  <2> QED
    BY <2>4 DEF n
<1>4. \E f : Is(f, target)
  <2>1. N \in Nat /\ from + N = target
    OBVIOUS
  <2>2. \A k \in 1..N : k - 1 \in S => k \in S
    BY <1>3
  <2> HIDE DEF S, N
  <2>3. \A k \in 0..N : k \in S
    BY <1>2, <2>1, <2>2, Climbing
  <2>4. N \in S
    BY <2>1, <2>3
  <2> HIDE DEF Is
  <2> QED
    BY <2>1, <2>4 DEF S
<1> DEFINE h == CHOOSE f : Is(f, target)
<1>5. Is(h, target)
  <2> HIDE DEF Is
  <2> QED
    BY <1>4
<1>6. \A i \in from..target : h[i] = IF i = from THEN d ELSE Execute(h[i - 1], Upgrades[i])
  <2> HIDE DEF h
  <2> QED
    BY <1>5
<1>7. Ascent(h, from, target, d) /\ UpgradeTo(d, from, target) = h[target]
  <2> HIDE DEF h
  <2>1. \A n \in (from + 1)..target : n \in from..target /\ n # from
    OBVIOUS
  <2> QED
    BY <1>1, <1>6, <2>1 DEF h, Ascent
<1> QED
  BY <1>7

(* The parts of a database, and those that are not data. *)
Parts == {"ok", "tables", "owned", "guards", "enabled", "forced", "granted", "role", "defaults",
          "demands", "candles", "keyed", "symbols", "rows", "outcomes"}
Structural == Parts \ {"ok", "symbols", "rows", "outcomes"}
IsDatabase(d) == DOMAIN d = Parts

(* A database in which only some parts have changed. *)
OnlyIn(e, d, F) == IsDatabase(e) /\ \A f \in Parts \ F : e[f] = d[f]

(* What a statement that has failed leaves. *)
Failed(e, d) == OnlyIn(e, d, {"ok"}) /\ ~e.ok

(* A statement that fails changes nothing else. *)
LEMMA Fails == ASSUME NEW d, IsDatabase(d) PROVE Failed(Fail(d), d)
BY DEF Fail, Failed, OnlyIn, IsDatabase, Parts

(* CREATE TABLE fails, or adds a table. *)
Created(e, d, s) ==
  /\ OnlyIn(e, d, {"tables", "owned", "granted", "candles"})
  /\ e.tables = [t \in DOMAIN d.tables \cup {s.table} |-> IF t = s.table THEN s.refs ELSE d.tables[t]]
  /\ e.owned = IF s.owned THEN d.owned \cup {s.table} ELSE d.owned
  /\ e.granted = IF d.defaults THEN d.granted \cup {s.table} ELSE d.granted
  /\ e.candles = IF s.table = "candles" THEN "plain" ELSE d.candles
Refused(d, s) == s.table \in DOMAIN d.tables \/ ~({r.to : r \in s.refs} \subseteq DOMAIN d.tables)

(* What CREATE TABLE does. *)
LEMMA Creates ==
  ASSUME NEW d, NEW s, IsDatabase(d)
  PROVE  IF Refused(d, s) THEN Failed(CreateTable(d, s), d) ELSE Created(CreateTable(d, s), d, s)
<1>1. CASE Refused(d, s)
  BY <1>1, Fails DEF CreateTable, Refused, Names
<1>2. CASE ~Refused(d, s)
  <2> DEFINE e == CreateTable(d, s)
  <2>1. e = [d EXCEPT !.tables  = [t \in Names(d) \cup {s.table} |->
                                     IF t = s.table THEN s.refs ELSE d.tables[t]],
                      !.owned   = IF s.owned THEN @ \cup {s.table} ELSE @,
                      !.granted = IF d.defaults THEN @ \cup {s.table} ELSE @,
                      !.candles = IF s.table = "candles" THEN "plain" ELSE @]
    BY <1>2 DEF CreateTable, Refused, Names
  <2> HIDE DEF e
  <2>2. OnlyIn(e, d, {"tables", "owned", "granted", "candles"})
    BY <2>1 DEF OnlyIn, IsDatabase, Parts
  <2>3. e.tables = [t \in Names(d) \cup {s.table} |-> IF t = s.table THEN s.refs ELSE d.tables[t]]
    BY <2>1 DEF IsDatabase, Parts
  <2>4. e.owned = IF s.owned THEN d.owned \cup {s.table} ELSE d.owned
    BY <2>1 DEF IsDatabase, Parts
  <2>5. e.granted = IF d.defaults THEN d.granted \cup {s.table} ELSE d.granted
    BY <2>1 DEF IsDatabase, Parts
  <2>6. e.candles = IF s.table = "candles" THEN "plain" ELSE d.candles
    BY <2>1 DEF IsDatabase, Parts
  <2> QED
    BY <1>2, <2>2, <2>3, <2>4, <2>5, <2>6 DEF Created, e, Names
<1> QED
  BY <1>1, <1>2

(* DROP TABLE fails, or takes everything of the table with it. *)
Dropped(e, d, t) ==
  /\ OnlyIn(e, d, {"tables", "owned", "granted", "enabled", "forced", "guards", "demands",
                   "candles", "rows", "symbols", "outcomes"})
  /\ e.tables = [u \in DOMAIN d.tables \ {t} |-> d.tables[u]]
  /\ e.owned = d.owned \ {t} /\ e.granted = d.granted \ {t} /\ e.enabled = d.enabled \ {t}
  /\ e.forced = d.forced \ {t} /\ e.guards = {g \in d.guards : g.table # t}
  /\ e.demands = {c \in d.demands : c.table # t}
  /\ e.candles = IF t = "candles" THEN "none" ELSE d.candles
  /\ e.rows = {r \in d.rows : r.table # t}
  /\ e.symbols = IF t = "symbols" THEN {} ELSE d.symbols
  /\ e.outcomes = IF t = "outcome_records" THEN {} ELSE d.outcomes

(* What DROP TABLE does. *)
LEMMA Drops ==
  ASSUME NEW d, NEW t, IsDatabase(d)
  PROVE  IF t \notin DOMAIN d.tables \/ Referenced(d, t)
           THEN Failed(DropTable(d, t), d) ELSE Dropped(DropTable(d, t), d, t)
<1>1. CASE t \notin DOMAIN d.tables \/ Referenced(d, t)
  BY <1>1, Fails DEF DropTable, Names
<1>2. CASE ~(t \notin DOMAIN d.tables \/ Referenced(d, t))
  <2> DEFINE e == DropTable(d, t)
  <2>1. e = [d EXCEPT !.tables  = [u \in Names(d) \ {t} |-> d.tables[u]],
                      !.owned   = @ \ {t}, !.granted = @ \ {t}, !.enabled = @ \ {t},
                      !.forced  = @ \ {t}, !.guards = {g \in @ : g.table # t},
                      !.demands = {c \in @ : c.table # t},
                      !.candles = IF t = "candles" THEN "none" ELSE @,
                      !.rows    = {r \in @ : r.table # t},
                      !.symbols = IF t = "symbols" THEN {} ELSE @,
                      !.outcomes = IF t = "outcome_records" THEN {} ELSE @]
    BY <1>2 DEF DropTable, Names
  <2> HIDE DEF e
  <2>2. OnlyIn(e, d, {"tables", "owned", "granted", "enabled", "forced", "guards", "demands",
                      "candles", "rows", "symbols", "outcomes"})
    BY <2>1 DEF OnlyIn, IsDatabase, Parts
  <2>3. e.tables = [u \in Names(d) \ {t} |-> d.tables[u]]
    BY <2>1 DEF IsDatabase, Parts
  <2>4. /\ e.owned = d.owned \ {t} /\ e.granted = d.granted \ {t} /\ e.enabled = d.enabled \ {t}
        /\ e.forced = d.forced \ {t}
    BY <2>1 DEF IsDatabase, Parts
  <2>5. e.guards = {g \in d.guards : g.table # t} /\ e.demands = {c \in d.demands : c.table # t}
    BY <2>1 DEF IsDatabase, Parts
  <2>6. /\ e.candles = IF t = "candles" THEN "none" ELSE d.candles
        /\ e.symbols = IF t = "symbols" THEN {} ELSE d.symbols
        /\ e.outcomes = IF t = "outcome_records" THEN {} ELSE d.outcomes
    BY <2>1 DEF IsDatabase, Parts
  <2>7. e.rows = {r \in d.rows : r.table # t}
    BY <2>1 DEF IsDatabase, Parts
  <2> QED
    BY <1>2, <2>2, <2>3, <2>4, <2>5, <2>6, <2>7 DEF Dropped, e, Names
<1> QED
  BY <1>1, <1>2

(* The other statements on the structure. *)
Guarded(e, d, s) ==
  /\ OnlyIn(e, d, {"enabled", "forced", "guards"})
  /\ e.enabled = d.enabled \cup {s.table} /\ e.forced = d.forced \cup {s.table}
  /\ e.guards = d.guards \cup {[table |-> s.table, via |-> s.via]}

(* What enabling the policies of a table does. *)
LEMMA Guards ==
  ASSUME NEW d, NEW s, IsDatabase(d)
  PROVE  IF s.table \notin DOMAIN d.tables THEN Failed(AddGuard(d, s), d)
                                           ELSE Guarded(AddGuard(d, s), d, s)
<1>1. CASE s.table \notin DOMAIN d.tables
  BY <1>1, Fails DEF AddGuard, Names
<1>2. CASE s.table \in DOMAIN d.tables
  <2> DEFINE e == AddGuard(d, s)
  <2>1. e = [d EXCEPT !.enabled = @ \cup {s.table}, !.forced = @ \cup {s.table},
                      !.guards = @ \cup {[table |-> s.table, via |-> s.via]}]
    BY <1>2 DEF AddGuard, Names
  <2> HIDE DEF e
  <2> QED
    BY <1>2, <2>1 DEF Guarded, OnlyIn, IsDatabase, Parts, e
<1> QED
  BY <1>1, <1>2

Unguarded(e, d, s) ==
  /\ OnlyIn(e, d, {"enabled", "guards"})
  /\ e.enabled = d.enabled \ {s.table} /\ e.guards = {g \in d.guards : g.table # s.table}
Demanded(e, d, s) ==
  /\ OnlyIn(e, d, {"demands"})
  /\ e.demands = d.demands \cup {[table |-> s.table, column |-> s.column]}
Relaxed(e, d, s) ==
  /\ OnlyIn(e, d, {"demands"})
  /\ e.demands = d.demands \ {[table |-> s.table, column |-> s.column]}
GrantedAll(e, d) == OnlyIn(e, d, {"granted"}) /\ e.granted = DOMAIN d.tables
Defaulted(e, d) == OnlyIn(e, d, {"defaults"}) /\ e.defaults = TRUE
InRole(e, d, s) ==
  /\ OnlyIn(e, d, {"role"})
  /\ e.role = IF s.do = "role" THEN (IF d.role = "none" THEN "nologin" ELSE d.role) ELSE s.do
RoleDropped(e, d) == OnlyIn(e, d, {"role"}) /\ e.role = "none"

(* What the statements on policies, columns, grants and roles do. *)
LEMMA StructureStatements ==
  ASSUME NEW d, NEW s, IsDatabase(d)
  PROVE  /\ s.do = "unguard"  => Unguarded(Apply(d, s), d, s)
         /\ s.do = "demand"   => Demanded(Apply(d, s), d, s)
         /\ s.do = "relax"    => Relaxed(Apply(d, s), d, s)
         /\ s.do = "grantAll" => GrantedAll(Apply(d, s), d)
         /\ s.do = "defaults" => Defaulted(Apply(d, s), d)
         /\ s.do = "role" \/ s.do = "login" \/ s.do = "nologin" => InRole(Apply(d, s), d, s)
         /\ s.do = "dropRole" => IF d.granted # {} \/ d.defaults THEN Failed(Apply(d, s), d)
                                 ELSE RoleDropped(Apply(d, s), d)
<1>1. s.do = "unguard" => Unguarded(Apply(d, s), d, s)
  <2> SUFFICES ASSUME s.do = "unguard" PROVE Unguarded(Apply(d, s), d, s)
    OBVIOUS
  <2> DEFINE e == Apply(d, s)
  <2>1. e = [d EXCEPT !.enabled = @ \ {s.table}, !.guards = {g \in @ : g.table # s.table}]
    BY DEF Apply
  <2> HIDE DEF e
  <2> QED
    BY <2>1 DEF Unguarded, OnlyIn, IsDatabase, Parts, e
<1>2. s.do = "demand" => Demanded(Apply(d, s), d, s)
  <2> SUFFICES ASSUME s.do = "demand" PROVE Demanded(Apply(d, s), d, s)
    OBVIOUS
  <2> DEFINE e == Apply(d, s)
  <2>1. e = [d EXCEPT !.demands = @ \cup {[table |-> s.table, column |-> s.column]}]
    BY DEF Apply
  <2> HIDE DEF e
  <2> QED
    BY <2>1 DEF Demanded, OnlyIn, IsDatabase, Parts, e
<1>3. s.do = "relax" => Relaxed(Apply(d, s), d, s)
  <2> SUFFICES ASSUME s.do = "relax" PROVE Relaxed(Apply(d, s), d, s)
    OBVIOUS
  <2> DEFINE e == Apply(d, s)
  <2>1. e = [d EXCEPT !.demands = @ \ {[table |-> s.table, column |-> s.column]}]
    BY DEF Apply
  <2> HIDE DEF e
  <2> QED
    BY <2>1 DEF Relaxed, OnlyIn, IsDatabase, Parts, e
<1>4. s.do = "grantAll" => GrantedAll(Apply(d, s), d)
  <2> SUFFICES ASSUME s.do = "grantAll" PROVE GrantedAll(Apply(d, s), d)
    OBVIOUS
  <2> DEFINE e == Apply(d, s)
  <2>1. e = [d EXCEPT !.granted = Names(d)]
    BY DEF Apply
  <2> HIDE DEF e
  <2> QED
    BY <2>1 DEF GrantedAll, OnlyIn, IsDatabase, Parts, e, Names
<1>5. s.do = "defaults" => Defaulted(Apply(d, s), d)
  <2> SUFFICES ASSUME s.do = "defaults" PROVE Defaulted(Apply(d, s), d)
    OBVIOUS
  <2> DEFINE e == Apply(d, s)
  <2>1. e = [d EXCEPT !.defaults = TRUE]
    BY DEF Apply
  <2> HIDE DEF e
  <2> QED
    BY <2>1 DEF Defaulted, OnlyIn, IsDatabase, Parts, e
<1>6. s.do = "role" \/ s.do = "login" \/ s.do = "nologin" => InRole(Apply(d, s), d, s)
  <2>1. ASSUME NEW to, NEW e, e = [d EXCEPT !.role = to] PROVE OnlyIn(e, d, {"role"}) /\ e.role = to
    BY <2>1 DEF OnlyIn, IsDatabase, Parts
  <2>2. s.do = "role" => Apply(d, s) = [d EXCEPT !.role = IF d.role = "none" THEN "nologin" ELSE d.role]
    BY DEF Apply
  <2>3. s.do = "login" => Apply(d, s) = [d EXCEPT !.role = "login"]
    BY DEF Apply
  <2>4. s.do = "nologin" => Apply(d, s) = [d EXCEPT !.role = "nologin"]
    BY DEF Apply
  <2> QED
    BY <2>1, <2>2, <2>3, <2>4 DEF InRole
<1>7. s.do = "dropRole" => IF d.granted # {} \/ d.defaults THEN Failed(Apply(d, s), d)
                           ELSE RoleDropped(Apply(d, s), d)
  <2> SUFFICES ASSUME s.do = "dropRole"
               PROVE  IF d.granted # {} \/ d.defaults THEN Failed(DropRole(d), d)
                      ELSE RoleDropped(DropRole(d), d)
    BY DEF Apply
  <2> QED
    BY Fails DEF DropRole, RoleDropped, OnlyIn, IsDatabase, Parts
<1> QED
  BY <1>1, <1>2, <1>3, <1>4, <1>5, <1>6, <1>7

(* The statements that meet data. *)
PartitionFails(d) == d.candles # "plain" /\ \E r \in d.rows : r.table = "candles"
Partitioned(e, d) ==
  /\ OnlyIn(e, d, {"candles"})
  /\ e.candles = IF d.candles = "plain" THEN "partitioned" ELSE "hollow"
Blocked(d) == \E r \in Foreign(d) : RuleOf(d, r.table) = "NO ACTION"
Golden(e, d) ==
  /\ OnlyIn(e, d, {"symbols", "rows"}) /\ e.symbols = {Gold}
  /\ e.rows = (d.rows \ Foreign(d)) \cup
                {[r EXCEPT !.symbol = "null"] :
                   r \in {x \in Foreign(d) : RuleOf(d, x.table) = "SET NULL"}}
KeyedBy(e, d, keyed) == OnlyIn(e, d, {"keyed", "outcomes"}) /\ e.keyed = keyed
Backfilled(d) ==
  {[o EXCEPT !.key = IF \E p \in d.outcomes : p.id < o.id /\ p.plan = o.plan THEN "dup" ELSE "rec"] :
     o \in d.outcomes}
Unkeyed(d) == {[o EXCEPT !.key = "none"] : o \in d.outcomes}

(* What the statements that meet data do. *)
LEMMA DataStatements ==
  ASSUME NEW d, NEW s, IsDatabase(d)
  PROVE  /\ s.do = "partition" => IF PartitionFails(d) THEN Failed(Apply(d, s), d)
                                  ELSE Partitioned(Apply(d, s), d)
         /\ s.do = "onlyGold"  => IF Blocked(d) THEN Failed(Apply(d, s), d) ELSE Golden(Apply(d, s), d)
         /\ s.do = "key"       => /\ KeyedBy(Apply(d, s), d, TRUE)
                                  /\ Apply(d, s).outcomes = Backfilled(d)
         /\ s.do = "unkey"     => /\ KeyedBy(Apply(d, s), d, FALSE)
                                  /\ Apply(d, s).outcomes = Unkeyed(d)
         /\ s.do = "seed"      => Apply(d, s) = d
         /\ s.do = "unseed"    => IF \E r \in d.rows : r.table = "workspace_members"
                                    THEN Failed(Apply(d, s), d) ELSE Apply(d, s) = d
<1>1. s.do = "partition" => IF PartitionFails(d) THEN Failed(Apply(d, s), d)
                            ELSE Partitioned(Apply(d, s), d)
  <2> SUFFICES ASSUME s.do = "partition"
               PROVE  IF PartitionFails(d) THEN Failed(PartitionCandles(d), d)
                      ELSE Partitioned(PartitionCandles(d), d)
    BY DEF Apply
  <2>1. PartitionFails(d) => PartitionCandles(d) = Fail(d)
    BY DEF PartitionCandles, PartitionFails
  <2>2. ASSUME ~PartitionFails(d) PROVE Partitioned(PartitionCandles(d), d)
    BY <2>2 DEF PartitionCandles, PartitionFails, Partitioned, OnlyIn, IsDatabase, Parts
  <2> QED
    BY <2>1, <2>2, Fails
<1>2. s.do = "onlyGold" => IF Blocked(d) THEN Failed(Apply(d, s), d) ELSE Golden(Apply(d, s), d)
  <2> SUFFICES ASSUME s.do = "onlyGold"
               PROVE  IF Blocked(d) THEN Failed(OnlyGold(d), d) ELSE Golden(OnlyGold(d), d)
    BY DEF Apply
  <2>1. Blocked(d) => OnlyGold(d) = Fail(d)
    BY DEF OnlyGold, Blocked
  <2>2. ASSUME ~Blocked(d) PROVE Golden(OnlyGold(d), d)
    <3> DEFINE e == OnlyGold(d)
    <3>1. e = [d EXCEPT !.symbols = {Gold},
                        !.rows = (@ \ Foreign(d)) \cup
                          {[r EXCEPT !.symbol = "null"] :
                             r \in {x \in Foreign(d) : RuleOf(d, x.table) = "SET NULL"}}]
      BY <2>2 DEF OnlyGold, Blocked
    <3> HIDE DEF e
    <3> QED
      BY <3>1 DEF Golden, OnlyIn, IsDatabase, Parts, e
  <2> QED
    BY <2>1, <2>2, Fails
<1>3. s.do = "key" => KeyedBy(Apply(d, s), d, TRUE) /\ Apply(d, s).outcomes = Backfilled(d)
  <2> SUFFICES ASSUME s.do = "key"
               PROVE  KeyedBy(BackfillKeys(d), d, TRUE) /\ BackfillKeys(d).outcomes = Backfilled(d)
    BY DEF Apply
  <2> DEFINE e == BackfillKeys(d)
  <2>1. e = [d EXCEPT !.keyed = TRUE, !.outcomes = Backfilled(d)]
    BY DEF BackfillKeys, Backfilled
  <2> HIDE DEF e
  <2> QED
    BY <2>1 DEF KeyedBy, OnlyIn, IsDatabase, Parts, e
<1>4. s.do = "unkey" => KeyedBy(Apply(d, s), d, FALSE) /\ Apply(d, s).outcomes = Unkeyed(d)
  <2> SUFFICES ASSUME s.do = "unkey"
               PROVE  KeyedBy(Apply(d, s), d, FALSE) /\ Apply(d, s).outcomes = Unkeyed(d)
    OBVIOUS
  <2> DEFINE e == Apply(d, s)
  <2>1. e = [d EXCEPT !.keyed = FALSE, !.outcomes = Unkeyed(d)]
    BY DEF Apply, Unkeyed
  <2> HIDE DEF e
  <2> QED
    BY <2>1 DEF KeyedBy, OnlyIn, IsDatabase, Parts, e
<1>5. s.do = "seed" => Apply(d, s) = d
  BY DEF Apply
<1>6. s.do = "unseed" => IF \E r \in d.rows : r.table = "workspace_members"
                           THEN Failed(Apply(d, s), d) ELSE Apply(d, s) = d
  <2>1. s.do = "unseed" => Apply(d, s) = DeleteRoles(d)
    BY DEF Apply
  <2> QED
    BY <2>1, Fails DEF DeleteRoles
<1> QED
  BY <1>1, <1>2, <1>3, <1>4, <1>5, <1>6

(* A shape a database has: its structure, without the data. *)
Shaped(d, b) ==
  /\ IsDatabase(d) /\ IsDatabase(b) /\ d.ok /\ b.ok /\ b.rows = {}
  /\ \A f \in Structural : d[f] = b[f]

(* Two databases of one shape that change in the same parts still have one shape. *)
LEMMA ShapedStill ==
  ASSUME NEW d, NEW b, Shaped(d, b), NEW F, NEW e, NEW c, "ok" \notin F,
         OnlyIn(e, d, F), OnlyIn(c, b, F), \A f \in F \cap Structural : e[f] = c[f],
         "rows" \in F => c.rows = {}
  PROVE  Shaped(e, c)
<1>1. \A f \in Structural : e[f] = c[f]
  BY DEF Shaped, OnlyIn, Structural
<1>2. e.ok = d.ok /\ c.ok = b.ok
  BY DEF OnlyIn, Parts
<1>3. c.rows = {}
  BY DEF OnlyIn, Shaped, Parts
<1> QED
  BY <1>1, <1>2, <1>3 DEF Shaped, OnlyIn

(* A statement changes the structure as it does without data, or it fails. *)
LEMMA StatementShapes ==
  ASSUME NEW d, NEW b, NEW s, s.do \in Kinds, Shaped(d, b), Apply(d, s).ok
  PROVE  Shaped(Apply(d, s), Apply(b, s))
<1> DEFINE e == Apply(d, s)
           c == Apply(b, s)
<1>0. /\ IsDatabase(d) /\ IsDatabase(b) /\ e.ok /\ b.rows = {} /\ \A f \in Structural : d[f] = b[f]
      /\ ~Failed(e, d)
  BY DEF Shaped, Failed
<1>a. /\ d.tables = b.tables /\ d.owned = b.owned /\ d.guards = b.guards /\ d.enabled = b.enabled
      /\ d.forced = b.forced /\ d.granted = b.granted /\ d.role = b.role /\ d.defaults = b.defaults
      /\ d.demands = b.demands /\ d.candles = b.candles /\ d.keyed = b.keyed
  BY <1>0 DEF Structural, Parts
<1>1. CASE s.do = "create"
  <2>1. e = CreateTable(d, s) /\ c = CreateTable(b, s)
    BY <1>1 DEF Apply
  <2> HIDE DEF e, c
  <2>2. ~Refused(d, s) /\ ~Refused(b, s)
    BY <1>0, <1>a, <2>1, Creates DEF Refused
  <2>3. Created(e, d, s) /\ Created(c, b, s)
    BY <1>0, <2>1, <2>2, Creates
  <2> DEFINE F == {"tables", "owned", "granted", "candles"}
  <2>4. e.tables = c.tables /\ e.owned = c.owned /\ e.granted = c.granted /\ e.candles = c.candles
    BY <1>a, <2>3 DEF Created
  <2>5. \A f \in F : e[f] = c[f]
    BY <2>4
  <2>6. OnlyIn(e, d, F) /\ OnlyIn(c, b, F) /\ "ok" \notin F /\ "rows" \notin F
    BY <2>3 DEF Created
  <2> HIDE DEF F
  <2> QED
    BY <2>5, <2>6, ShapedStill DEF e, c
<1>2. CASE s.do = "drop"
  <2>1. e = DropTable(d, s.table) /\ c = DropTable(b, s.table)
    BY <1>2 DEF Apply
  <2> HIDE DEF e, c
  <2>2. s.table \in DOMAIN d.tables /\ ~Referenced(d, s.table) /\ ~Referenced(b, s.table)
    BY <1>0, <1>a, <2>1, Drops DEF Referenced, Names
  <2>3. Dropped(e, d, s.table) /\ Dropped(c, b, s.table)
    BY <1>0, <1>a, <2>1, <2>2, Drops
  <2> DEFINE F == {"tables", "owned", "granted", "enabled", "forced", "guards", "demands",
                   "candles", "rows", "symbols", "outcomes"}
  <2>4. /\ e.tables = c.tables /\ e.owned = c.owned /\ e.granted = c.granted /\ e.candles = c.candles
        /\ e.enabled = c.enabled /\ e.forced = c.forced /\ e.guards = c.guards /\ e.demands = c.demands
        /\ c.rows = {}
    BY <1>0, <1>a, <2>3 DEF Dropped
  <2>5. \A f \in F \cap Structural : e[f] = c[f]
    BY <2>4 DEF Structural
  <2>6. OnlyIn(e, d, F) /\ OnlyIn(c, b, F) /\ "ok" \notin F
    BY <2>3 DEF Dropped
  <2> HIDE DEF F
  <2> QED
    BY <2>4, <2>5, <2>6, ShapedStill DEF e, c
<1>3. CASE s.do = "guard"
  <2>1. e = AddGuard(d, s) /\ c = AddGuard(b, s)
    BY <1>3 DEF Apply
  <2> HIDE DEF e, c
  <2>2. Guarded(e, d, s) /\ Guarded(c, b, s)
    BY <1>0, <1>a, <2>1, Guards
  <2> DEFINE F == {"enabled", "forced", "guards"}
  <2>3. \A f \in F : e[f] = c[f]
    BY <1>a, <2>2 DEF Guarded
  <2>4. OnlyIn(e, d, F) /\ OnlyIn(c, b, F) /\ "ok" \notin F /\ "rows" \notin F
    BY <2>2 DEF Guarded
  <2> HIDE DEF F
  <2> QED
    BY <2>3, <2>4, ShapedStill DEF e, c
<1>4. CASE s.do = "unguard"
  <2>1. Unguarded(e, d, s) /\ Unguarded(c, b, s)
    BY <1>0, <1>4, StructureStatements
  <2> HIDE DEF e, c
  <2> DEFINE F == {"enabled", "guards"}
  <2>3. \A f \in F : e[f] = c[f]
    BY <1>a, <2>1 DEF Unguarded
  <2>4. OnlyIn(e, d, F) /\ OnlyIn(c, b, F) /\ "ok" \notin F /\ "rows" \notin F
    BY <2>1 DEF Unguarded
  <2> HIDE DEF F
  <2> QED
    BY <2>3, <2>4, ShapedStill DEF e, c
<1>b. ASSUME NEW part, part \notin {"ok", "rows"}, OnlyIn(e, d, {part}), OnlyIn(c, b, {part}),
             e[part] = c[part]
      PROVE  Shaped(e, c)
  <2> HIDE DEF e, c
  <2> DEFINE F == {part}
  <2>1. \A f \in F \cap Structural : e[f] = c[f]
    BY <1>b
  <2>2. OnlyIn(e, d, F) /\ OnlyIn(c, b, F) /\ "ok" \notin F /\ "rows" \notin F
    BY <1>b
  <2> HIDE DEF F
  <2> QED
    BY <2>1, <2>2, ShapedStill
<1>5. CASE s.do = "demand"
  <2>1. Demanded(e, d, s) /\ Demanded(c, b, s)
    BY <1>0, <1>5, StructureStatements
  <2> HIDE DEF e, c
  <2>2. OnlyIn(e, d, {"demands"}) /\ OnlyIn(c, b, {"demands"}) /\ e["demands"] = c["demands"]
    BY <1>a, <2>1 DEF Demanded
  <2> QED
    BY <1>b, <2>2 DEF e, c
<1>6. CASE s.do = "relax"
  <2>1. Relaxed(e, d, s) /\ Relaxed(c, b, s)
    BY <1>0, <1>6, StructureStatements
  <2> HIDE DEF e, c
  <2>2. OnlyIn(e, d, {"demands"}) /\ OnlyIn(c, b, {"demands"}) /\ e["demands"] = c["demands"]
    BY <1>a, <2>1 DEF Relaxed
  <2> QED
    BY <1>b, <2>2 DEF e, c
<1>7. CASE s.do = "grantAll"
  <2>1. GrantedAll(e, d) /\ GrantedAll(c, b)
    BY <1>0, <1>7, StructureStatements
  <2> HIDE DEF e, c
  <2>2. OnlyIn(e, d, {"granted"}) /\ OnlyIn(c, b, {"granted"}) /\ e["granted"] = c["granted"]
    BY <1>a, <2>1 DEF GrantedAll
  <2> QED
    BY <1>b, <2>2 DEF e, c
<1>8. CASE s.do = "defaults"
  <2>1. Defaulted(e, d) /\ Defaulted(c, b)
    BY <1>0, <1>8, StructureStatements
  <2> HIDE DEF e, c
  <2>2. OnlyIn(e, d, {"defaults"}) /\ OnlyIn(c, b, {"defaults"}) /\ e["defaults"] = c["defaults"]
    BY <1>a, <2>1 DEF Defaulted
  <2> QED
    BY <1>b, <2>2 DEF e, c
<1>9. CASE s.do = "role" \/ s.do = "login" \/ s.do = "nologin"
  <2>1. InRole(e, d, s) /\ InRole(c, b, s)
    BY <1>0, <1>9, StructureStatements
  <2> HIDE DEF e, c
  <2>2. OnlyIn(e, d, {"role"}) /\ OnlyIn(c, b, {"role"}) /\ e["role"] = c["role"]
    BY <1>a, <2>1 DEF InRole
  <2> QED
    BY <1>b, <2>2 DEF e, c
<1>10. CASE s.do = "dropRole"
  <2>1. RoleDropped(e, d) /\ RoleDropped(c, b)
    BY <1>0, <1>a, <1>10, StructureStatements
  <2> HIDE DEF e, c
  <2>2. OnlyIn(e, d, {"role"}) /\ OnlyIn(c, b, {"role"}) /\ e["role"] = c["role"]
    BY <1>a, <2>1 DEF RoleDropped
  <2> QED
    BY <1>b, <2>2 DEF e, c
<1>11. CASE s.do = "partition"
  <2>1. ~PartitionFails(d) /\ ~PartitionFails(b)
    BY <1>0, <1>11, DataStatements DEF PartitionFails
  <2>2. Partitioned(e, d) /\ Partitioned(c, b)
    BY <1>0, <1>11, <2>1, DataStatements
  <2> HIDE DEF e, c
  <2> QED
    BY <1>a, <1>b, <2>2 DEF Partitioned, e, c
<1>12. CASE s.do = "onlyGold"
  <2>1. ~Blocked(d) /\ ~Blocked(b)
    BY <1>0, <1>12, DataStatements DEF Blocked, Foreign
  <2>2. Golden(e, d) /\ Golden(c, b)
    BY <1>0, <1>12, <2>1, DataStatements
  <2> HIDE DEF e, c
  <2> DEFINE F == {"symbols", "rows"}
  <2>3. \A f \in F \cap Structural : e[f] = c[f]
    BY DEF Structural
  <2>4. OnlyIn(e, d, F) /\ OnlyIn(c, b, F) /\ "ok" \notin F
    BY <2>2 DEF Golden
  <2>5. c.rows = {}
    BY <1>0, <2>2 DEF Golden, Foreign
  <2> HIDE DEF F
  <2> QED
    BY <2>3, <2>4, <2>5, ShapedStill DEF e, c
<1>13. CASE s.do = "key" \/ s.do = "unkey"
  <2> DEFINE keyed == s.do = "key"
  <2>1. KeyedBy(e, d, keyed) /\ KeyedBy(c, b, keyed)
    BY <1>0, <1>13, DataStatements
  <2> HIDE DEF e, c, keyed
  <2> DEFINE F == {"keyed", "outcomes"}
  <2>3. \A f \in F \cap Structural : e[f] = c[f]
    BY <2>1 DEF Structural, KeyedBy
  <2>4. OnlyIn(e, d, F) /\ OnlyIn(c, b, F) /\ "ok" \notin F /\ "rows" \notin F
    BY <2>1 DEF KeyedBy
  <2> HIDE DEF F
  <2> QED
    BY <2>3, <2>4, ShapedStill DEF e, c
<1>14. CASE s.do = "seed"
  BY <1>0, <1>14, DataStatements
<1>15. CASE s.do = "unseed"
  <2>1. e = d
    BY <1>0, <1>15, DataStatements
  <2>2. c = b
    BY <1>0, <1>15, DataStatements
  <2> QED
    BY <2>1, <2>2
<1> QED
  BY <1>1, <1>2, <1>3, <1>4, <1>5, <1>6, <1>7, <1>8, <1>9, <1>10, <1>11, <1>12, <1>13, <1>14, <1>15
  DEF Kinds

(* A transaction changes the structure as it does without data, or it fails. *)
LEMMA TransactionShapes ==
  ASSUME NEW d, NEW b, NEW L, Len(L) \in Nat, \A i \in 1..Len(L) : L[i].do \in Kinds,
         Shaped(d, b), Execute(d, L).ok
  PROVE  Shaped(Execute(d, L), Execute(b, L))
<1> DEFINE N == Len(L)
<1>1. PICK f : Ran(f, N, d, L) /\ Execute(d, L) = f[N]
  BY ExecuteRuns
<1>2. PICK g : Ran(g, N, b, L) /\ Execute(b, L) = g[N]
  BY ExecuteRuns
<1> DEFINE S == {i \in 0..N : f[i].ok => Shaped(f[i], g[i])}
<1>3. 0 \in S
  BY <1>1, <1>2 DEF Ran
<1>4. ASSUME NEW i \in 1..N, i - 1 \in S PROVE i \in S
  <2> DEFINE h == i - 1
  <2>1. f[i] = Then(f[h], L[i]) /\ g[i] = Then(g[h], L[i]) /\ L[i].do \in Kinds
    BY <1>1, <1>2 DEF Ran
  <2>2. f[h].ok => Shaped(f[h], g[h])
    BY <1>4
  <2> HIDE DEF h, N
  <2>3. ASSUME f[i].ok PROVE Shaped(f[i], g[i])
    <3>1. f[h].ok /\ f[i] = Apply(f[h], L[i])
      BY <2>1, <2>3 DEF Then
    <3>2. g[h].ok /\ g[i] = Apply(g[h], L[i])
      BY <2>1, <2>2, <3>1 DEF Then, Shaped
    <3> QED
      BY <2>1, <2>2, <2>3, <3>1, <3>2, StatementShapes
  <2> QED
    BY <2>3
<1>5. N \in S
  <2>1. N \in Nat
    OBVIOUS
  <2>2. \A i \in 1..N : i - 1 \in S => i \in S
    BY <1>4
  <2> HIDE DEF S, N
  <2>3. \A i \in 0..N : i \in S
    BY <1>3, <2>1, <2>2, Climbing
  <2> QED
    BY <2>1, <2>3
<1> QED
  BY <1>1, <1>2, <1>5

(* The rows a deployed release writes, and the symbols they may be on. *)
Written == [table : {"candles", "recommendations", "alerts", "workspace_members"},
            symbol : Others \cup {Gold, "null"}]
RowsOk(d) ==
  /\ d.rows \subseteq Written /\ d.symbols \subseteq Others \cup {Gold}
  /\ \A r \in d.rows : /\ r.table \in DOMAIN d.tables
                       /\ r.table = "workspace_members" => r.symbol = "null"

(* The recorded outcomes are numbered, and once there is a key exactly one counts per plan. *)
Recorded(O) ==
  /\ IsFiniteSet(O) /\ Cardinality(O) <= MaxOutcomes
  /\ O \subseteq [id : 1..Cardinality(O), plan : Plans, key : {"none", "rec", "dup"}]
  /\ \A o, p \in O : o.id = p.id => o = p
OneCounts(O) ==
  \A p \in {o.plan : o \in O} :
    \E o \in O : /\ o.plan = p /\ o.key = "rec"
                 /\ \A q \in O \ {o} : q.plan = p => q.key = "dup" /\ q.id > o.id
OutcomesOk(d) == Recorded(d.outcomes) /\ (d.keyed => OneCounts(d.outcomes))

(* Outcomes that only get another key stay the same records. *)
Rekeyed(O, E, g) ==
  /\ g \in [O -> [id : Nat, plan : Plans, key : {"none", "rec", "dup"}]]
  /\ E = {g[o] : o \in O}
  /\ \A o \in O : g[o].id = o.id /\ g[o].plan = o.plan

(* They stay as many, and numbered as they were. *)
LEMMA RekeyedIsRecorded ==
  ASSUME NEW O, NEW E, NEW g, Recorded(O), Rekeyed(O, E, g)
  PROVE  Recorded(E)
<1>1. \A o, p \in O : g[o] = g[p] => o = p
  BY DEF Rekeyed, Recorded
<1>2. g \in [O -> E] /\ \A e \in E : \E o \in O : g[o] = e
  <2>1. g = [o \in O |-> g[o]] /\ \A o \in O : g[o] \in E
    BY DEF Rekeyed
  <2> QED
    BY <2>1 DEF Rekeyed
<1>3. ExistsBijection(O, E)
  BY <1>1, <1>2 DEF ExistsBijection, Bijection, Injection, Surjection, IsInjective
<1>4. IsFiniteSet(E) /\ Cardinality(E) = Cardinality(O)
  BY <1>3, FS_Bijection DEF Recorded
<1>5. \A e \in E : e \in [id : 1..Cardinality(E), plan : Plans, key : {"none", "rec", "dup"}]
  <2> SUFFICES ASSUME NEW o \in O
               PROVE  g[o] \in [id : 1..Cardinality(O), plan : Plans, key : {"none", "rec", "dup"}]
    BY <1>4 DEF Rekeyed
  <2>1. o \in [id : 1..Cardinality(O), plan : Plans, key : {"none", "rec", "dup"}]
    BY DEF Recorded
  <2>2. g[o] \in [id : Nat, plan : Plans, key : {"none", "rec", "dup"}] /\ g[o].id = o.id
    BY DEF Rekeyed
  <2>3. g[o] = [id |-> g[o].id, plan |-> g[o].plan, key |-> g[o].key]
    BY <2>2
  <2>4. g[o].id \in 1..Cardinality(O) /\ g[o].plan \in Plans /\ g[o].key \in {"none", "rec", "dup"}
    BY <2>1, <2>2
  <2> QED
    BY <2>3, <2>4
<1>6. \A e, f \in E : e.id = f.id => e = f
  <2> SUFFICES ASSUME NEW o \in O, NEW p \in O, g[o].id = g[p].id PROVE g[o] = g[p]
    BY DEF Rekeyed
  <2> QED
    BY DEF Rekeyed, Recorded
<1> QED
  BY <1>4, <1>5, <1>6 DEF Recorded

(* The backfill and its undoing only give other keys. *)
LEMMA Rekeyings ==
  ASSUME NEW d, Recorded(d.outcomes)
  PROVE  /\ \E g : /\ Rekeyed(d.outcomes, Backfilled(d), g)
                   /\ \A o \in d.outcomes :
                        g[o].key = IF \E p \in d.outcomes : p.id < o.id /\ p.plan = o.plan
                                     THEN "dup" ELSE "rec"
         /\ \E g : Rekeyed(d.outcomes, Unkeyed(d), g)
<1> DEFINE O == d.outcomes
<1>1. \A o \in O : o \in [id : Nat, plan : Plans, key : {"none", "rec", "dup"}]
  BY FS_CardinalityType DEF Recorded
<1>2. ASSUME NEW o \in O, NEW k \in {"none", "rec", "dup"}
      PROVE  /\ [o EXCEPT !.key = k] \in [id : Nat, plan : Plans, key : {"none", "rec", "dup"}]
             /\ [o EXCEPT !.key = k].id = o.id /\ [o EXCEPT !.key = k].plan = o.plan
             /\ [o EXCEPT !.key = k].key = k
  BY <1>1, <1>2
<1>3. \E g : /\ Rekeyed(O, Backfilled(d), g)
             /\ \A o \in O : g[o].key = IF \E p \in O : p.id < o.id /\ p.plan = o.plan
                                          THEN "dup" ELSE "rec"
  <2> DEFINE k(o) == IF \E p \in O : p.id < o.id /\ p.plan = o.plan THEN "dup" ELSE "rec"
             g == [o \in O |-> [o EXCEPT !.key = k(o)]]
  <2>1. \A o \in O : k(o) \in {"none", "rec", "dup"}
    OBVIOUS
  <2>2. Backfilled(d) = {[o EXCEPT !.key = k(o)] : o \in O}
    BY DEF Backfilled
  <2> HIDE DEF k, O
  <2>3. \A o \in O : g[o] = [o EXCEPT !.key = k(o)]
    OBVIOUS
  <2>4. Backfilled(d) = {g[o] : o \in O}
    BY <2>2, <2>3
  <2>5. \A o \in O : /\ g[o] \in [id : Nat, plan : Plans, key : {"none", "rec", "dup"}]
                     /\ g[o].id = o.id /\ g[o].plan = o.plan /\ g[o].key = k(o)
    BY <1>2, <2>1, <2>3
  <2>6. g \in [O -> [id : Nat, plan : Plans, key : {"none", "rec", "dup"}]]
    BY <2>3, <2>5
  <2> HIDE DEF g
  <2>7. Rekeyed(O, Backfilled(d), g)
    BY <2>4, <2>5, <2>6 DEF Rekeyed
  <2> QED
    BY <2>5, <2>7 DEF k
<1>4. \E g : Rekeyed(O, Unkeyed(d), g)
  <2> DEFINE g == [o \in O |-> [o EXCEPT !.key = "none"]]
  <2>2. Unkeyed(d) = {[o EXCEPT !.key = "none"] : o \in O}
    BY DEF Unkeyed
  <2> HIDE DEF O
  <2>3. \A o \in O : g[o] = [o EXCEPT !.key = "none"]
    OBVIOUS
  <2>4. Unkeyed(d) = {g[o] : o \in O}
    BY <2>2, <2>3
  <2>5. \A o \in O : /\ g[o] \in [id : Nat, plan : Plans, key : {"none", "rec", "dup"}]
                     /\ g[o].id = o.id /\ g[o].plan = o.plan
    BY <1>2, <2>3
  <2>6. g \in [O -> [id : Nat, plan : Plans, key : {"none", "rec", "dup"}]]
    BY <2>3, <2>5
  <2> HIDE DEF g
  <2>7. Rekeyed(O, Unkeyed(d), g)
    BY <2>4, <2>5, <2>6 DEF Rekeyed
  <2> QED
    BY <2>7
<1> QED
  BY <1>3, <1>4

(* After the backfill the earliest outcome of a plan counts, and no other. *)
LEMMA BackfillCounts ==
  ASSUME NEW d, Recorded(d.outcomes)
  PROVE  OneCounts(Backfilled(d))
<1> DEFINE O == d.outcomes
           E == Backfilled(d)
<1>1. PICK g : /\ Rekeyed(O, E, g)
               /\ \A o \in O : g[o].key = IF \E p \in O : p.id < o.id /\ p.plan = o.plan
                                            THEN "dup" ELSE "rec"
  BY Rekeyings
<1>2. \A o, p \in O : o.id = p.id => o = p
  BY DEF Recorded
<1>3. \A o \in O : o.id \in Nat
  BY FS_CardinalityType DEF Recorded
<1> HIDE DEF O, E
<1>a. \A p \in {o.plan : o \in E} : \E x \in O : p = x.plan
  BY <1>1 DEF Rekeyed
<1> SUFFICES ASSUME NEW x \in O
             PROVE  \E o \in E : /\ o.plan = x.plan /\ o.key = "rec"
                                 /\ \A q \in E \ {o} : q.plan = x.plan => q.key = "dup" /\ q.id > o.id
  <2>1. OneCounts(E) => OneCounts(Backfilled(d))
    BY DEF E
  <2> QED
    BY <1>a, <2>1 DEF OneCounts
<1> DEFINE ids == {o.id : o \in {y \in O : y.plan = x.plan}}
<1>4. PICK n \in ids : \A m \in ids : n <= m
  <2>1. ids \subseteq Nat /\ ids # {}
    BY <1>3
  <2> HIDE DEF ids
  <2> QED
    BY <2>1, SomeLeast
<1>5. PICK o \in O : o.plan = x.plan /\ o.id = n
  OBVIOUS
<1>6. \A q \in O : q.plan = x.plan => o.id <= q.id
  BY <1>4, <1>5
<1>7. g[o] \in E /\ g[o].plan = x.plan /\ g[o].key = "rec"
  BY <1>1, <1>3, <1>5, <1>6 DEF Rekeyed
<1>8. ASSUME NEW e \in E \ {g[o]}, e.plan = x.plan PROVE e.key = "dup" /\ e.id > g[o].id
  <2>1. PICK q \in O : e = g[q]
    BY <1>8, <1>1 DEF Rekeyed
  <2>2. q.plan = x.plan /\ q # o /\ e.id = q.id /\ g[o].id = o.id
    BY <1>1, <1>8, <2>1 DEF Rekeyed
  <2>3. o.id < q.id
    BY <1>2, <1>3, <1>6, <2>2
  <2> QED
    BY <1>1, <1>5, <2>1, <2>2, <2>3
<1> QED
  BY <1>7, <1>8

(* What every database of a deployment holds. *)
Holds(d) == IsDatabase(d) /\ RowsOk(d) /\ OutcomesOk(d)

(* A statement that touches neither rows nor outcomes leaves them well formed. *)
LEMMA DataUntouched ==
  ASSUME NEW d, NEW e, NEW F, Holds(d), OnlyIn(e, d, F),
         F \cap {"rows", "symbols", "outcomes", "keyed"} = {},
         DOMAIN d.tables \subseteq DOMAIN e.tables
  PROVE  Holds(e)
<1>1. e.rows = d.rows /\ e.symbols = d.symbols /\ e.outcomes = d.outcomes /\ e.keyed = d.keyed
  BY DEF OnlyIn, Parts
<1> QED
  BY <1>1 DEF Holds, OnlyIn, RowsOk, OutcomesOk

(* Every statement keeps the data well formed. *)
LEMMA StatementHolds ==
  ASSUME NEW d, NEW s, s.do \in Kinds, Holds(d)
  PROVE  Holds(Apply(d, s))
<1> DEFINE e == Apply(d, s)
<1>0. IsDatabase(d) /\ RowsOk(d) /\ OutcomesOk(d)
  BY DEF Holds
<1>a. ASSUME NEW F, OnlyIn(e, d, F), F \cap {"rows", "symbols", "outcomes", "keyed", "tables"} = {}
      PROVE  Holds(e)
  <2> HIDE DEF e
  <2>1. F \cap {"rows", "symbols", "outcomes", "keyed"} = {}
    BY <1>a
  <2>2. e["tables"] = d["tables"]
    <3>1. "tables" \in Parts \ F
      BY <1>a DEF Parts
    <3> QED
      BY <1>a, <3>1 DEF OnlyIn
  <2> QED
    BY <1>a, <2>1, <2>2, DataUntouched
<1>b. Failed(e, d) => Holds(e)
  <2> DEFINE F == {"ok"}
  <2>1. F \cap {"rows", "symbols", "outcomes", "keyed", "tables"} = {}
    OBVIOUS
  <2> HIDE DEF F
  <2>2. OnlyIn(e, d, F) => Holds(e)
    BY <1>a, <2>1
  <2> QED
    BY <2>2 DEF Failed, F
<1>1. CASE s.do = "create"
  <2>1. e = CreateTable(d, s)
    BY <1>1 DEF Apply
  <2> HIDE DEF e
  <2>2. CASE Created(e, d, s)
    <3> DEFINE F == {"tables", "owned", "granted", "candles"}
    <3>1. F \cap {"rows", "symbols", "outcomes", "keyed"} = {} /\ OnlyIn(e, d, F)
      BY <2>2 DEF Created
    <3>2. DOMAIN d.tables \subseteq DOMAIN e.tables
      BY <2>2 DEF Created
    <3> HIDE DEF F
    <3> QED
      BY <3>1, <3>2, DataUntouched DEF e
  <2> QED
    BY <1>0, <1>b, <2>1, <2>2, Creates DEF e
<1>2. CASE s.do = "drop"
  <2>1. e = DropTable(d, s.table)
    BY <1>2 DEF Apply
  <2> HIDE DEF e
  <2>2. CASE Dropped(e, d, s.table)
    <3>1. /\ e.rows = {r \in d.rows : r.table # s.table} /\ e.symbols \subseteq d.symbols
          /\ e.outcomes = {} \/ e.outcomes = d.outcomes
          /\ DOMAIN e.tables = DOMAIN d.tables \ {s.table}
          /\ e.keyed = d.keyed /\ IsDatabase(e)
      BY <2>2 DEF Dropped, OnlyIn, Parts
    <3>2. RowsOk(e)
      BY <1>0, <3>1 DEF RowsOk
    <3>3. Recorded({}) /\ OneCounts({})
      BY FS_EmptySet, MaxOutcomesAssumption DEF Recorded, OneCounts
    <3>4. OutcomesOk(e)
      BY <1>0, <3>1, <3>3 DEF OutcomesOk
    <3> QED
      BY <3>1, <3>2, <3>4 DEF Holds, e
  <2> QED
    BY <1>0, <1>b, <2>1, <2>2, Drops DEF e
<1>3. CASE s.do = "guard"
  <2>1. e = AddGuard(d, s)
    BY <1>3 DEF Apply
  <2> HIDE DEF e
  <2>2. Failed(e, d) \/ OnlyIn(e, d, {"enabled", "forced", "guards"})
    BY <1>0, <2>1, Guards DEF Guarded
  <2> QED
    BY <1>a, <1>b, <2>2 DEF e
<1>4. CASE s.do \in {"unguard", "demand", "relax", "grantAll", "defaults", "role", "login", "nologin",
                     "dropRole", "partition"}
  <2>1. \/ OnlyIn(e, d, {"enabled", "guards"}) \/ OnlyIn(e, d, {"demands"}) \/ OnlyIn(e, d, {"granted"})
        \/ OnlyIn(e, d, {"defaults"}) \/ OnlyIn(e, d, {"role"}) \/ OnlyIn(e, d, {"candles"}) \/ Failed(e, d)
    <3>1. CASE s.do = "unguard"
      BY <1>0, <3>1, StructureStatements DEF Unguarded
    <3>2. CASE s.do = "demand"
      BY <1>0, <3>2, StructureStatements DEF Demanded
    <3>3. CASE s.do = "relax"
      BY <1>0, <3>3, StructureStatements DEF Relaxed
    <3>4. CASE s.do = "grantAll"
      BY <1>0, <3>4, StructureStatements DEF GrantedAll
    <3>5. CASE s.do = "defaults"
      BY <1>0, <3>5, StructureStatements DEF Defaulted
    <3>6. CASE s.do = "role" \/ s.do = "login" \/ s.do = "nologin"
      BY <1>0, <3>6, StructureStatements DEF InRole
    <3>7. CASE s.do = "dropRole"
      BY <1>0, <3>7, StructureStatements DEF RoleDropped
    <3>8. CASE s.do = "partition"
      BY <1>0, <3>8, DataStatements DEF Partitioned
    <3> QED
      BY <1>4, <3>1, <3>2, <3>3, <3>4, <3>5, <3>6, <3>7, <3>8
  <2> HIDE DEF e
  <2> QED
    BY <1>a, <1>b, <2>1 DEF e
<1>5. CASE s.do = "onlyGold"
  <2>1. Failed(e, d) \/ Golden(e, d)
    BY <1>0, <1>5, DataStatements
  <2> HIDE DEF e
  <2>2. CASE Golden(e, d)
    <3>1. e.tables = d.tables /\ e.outcomes = d.outcomes /\ e.keyed = d.keyed /\ IsDatabase(e)
          /\ e.symbols = {Gold}
      BY <2>2 DEF Golden, OnlyIn, Parts
    <3>2. \A r \in e.rows : r \in d.rows
            \/ \E x \in d.rows : r = [x EXCEPT !.symbol = "null"]
      BY <2>2 DEF Golden, Foreign
    <3>3. \A x \in d.rows : /\ [x EXCEPT !.symbol = "null"] \in Written
                            /\ [x EXCEPT !.symbol = "null"].table = x.table
                            /\ [x EXCEPT !.symbol = "null"].symbol = "null"
      BY <1>0 DEF RowsOk, Written
    <3>4. ASSUME NEW r \in e.rows
          PROVE  /\ r \in Written /\ r.table \in DOMAIN d.tables
                 /\ r.table = "workspace_members" => r.symbol = "null"
      <4>1. CASE r \in d.rows
        BY <1>0, <4>1 DEF RowsOk
      <4>2. ASSUME NEW x \in d.rows, r = [x EXCEPT !.symbol = "null"]
            PROVE  /\ r \in Written /\ r.table \in DOMAIN d.tables
                   /\ r.table = "workspace_members" => r.symbol = "null"
        <5>1. r \in Written /\ r.table = x.table /\ r.symbol = "null"
          BY <3>3, <4>2
        <5>2. x.table \in DOMAIN d.tables
          BY <1>0 DEF RowsOk
        <5> QED
          BY <5>1, <5>2
      <4> QED
        BY <3>2, <4>1, <4>2
    <3>5. e.symbols \subseteq Others \cup {Gold}
      BY <3>1
    <3>6. RowsOk(e)
      BY <3>1, <3>4, <3>5 DEF RowsOk
    <3> QED
      BY <1>0, <3>1, <3>6 DEF Holds, OutcomesOk, e
  <2> QED
    BY <1>b, <2>1, <2>2 DEF e
<1>6. CASE s.do = "key"
  <2>1. KeyedBy(e, d, TRUE) /\ e.outcomes = Backfilled(d)
    BY <1>0, <1>6, DataStatements
  <2> HIDE DEF e
  <2>2. e.tables = d.tables /\ e.rows = d.rows /\ e.symbols = d.symbols /\ IsDatabase(e)
    BY <2>1 DEF KeyedBy, OnlyIn, Parts
  <2>3. Recorded(e.outcomes)
    BY <1>0, <2>1, Rekeyings, RekeyedIsRecorded DEF OutcomesOk
  <2>4. OneCounts(e.outcomes)
    BY <1>0, <2>1, BackfillCounts DEF OutcomesOk
  <2> QED
    BY <1>0, <2>2, <2>3, <2>4 DEF Holds, RowsOk, OutcomesOk, e
<1>7. CASE s.do = "unkey"
  <2>1. KeyedBy(e, d, FALSE) /\ e.outcomes = Unkeyed(d)
    BY <1>0, <1>7, DataStatements
  <2> HIDE DEF e
  <2>2. e.tables = d.tables /\ e.rows = d.rows /\ e.symbols = d.symbols /\ IsDatabase(e) /\ ~e.keyed
    BY <2>1 DEF KeyedBy, OnlyIn, Parts
  <2>3. Recorded(e.outcomes)
    BY <1>0, <2>1, Rekeyings, RekeyedIsRecorded DEF OutcomesOk
  <2> QED
    BY <1>0, <2>2, <2>3 DEF Holds, RowsOk, OutcomesOk, e
<1>8. CASE s.do = "seed" \/ s.do = "unseed"
  <2>1. Failed(e, d) \/ e = d
    BY <1>0, <1>8, DataStatements
  <2> QED
    BY <1>b, <2>1
<1> QED
  BY <1>1, <1>2, <1>3, <1>4, <1>5, <1>6, <1>7, <1>8 DEF Kinds

(* So does every transaction. *)
LEMMA TransactionHolds ==
  ASSUME NEW d, NEW L, Len(L) \in Nat, \A i \in 1..Len(L) : L[i].do \in Kinds, Holds(d)
  PROVE  Holds(Execute(d, L))
<1> DEFINE N == Len(L)
<1>1. PICK f : Ran(f, N, d, L) /\ Execute(d, L) = f[N]
  BY ExecuteRuns
<1> DEFINE S == {i \in 0..N : Holds(f[i])}
<1>2. 0 \in S
  BY <1>1 DEF Ran
<1>3. ASSUME NEW i \in 1..N, i - 1 \in S PROVE i \in S
  <2> DEFINE h == i - 1
  <2>1. f[i] = Then(f[h], L[i]) /\ L[i].do \in Kinds /\ Holds(f[h])
    BY <1>1, <1>3 DEF Ran
  <2> HIDE DEF h, N
  <2> QED
    BY <2>1, StatementHolds DEF Then
<1>4. N \in S
  <2>1. N \in Nat
    OBVIOUS
  <2>2. \A i \in 1..N : i - 1 \in S => i \in S
    BY <1>3
  <2> HIDE DEF S, N
  <2>3. \A i \in 0..N : i \in S
    BY <1>2, <2>1, <2>2, Climbing
  <2> QED
    BY <2>1, <2>3
<1> QED
  BY <1>1, <1>4

(* What an upgrade may do to the rows: candles may go, an alert may lose its symbol. *)
Pairs(O) == {<<o.id, o.plan>> : o \in O}
Same(d, e) == e.rows = d.rows /\ e.symbols = d.symbols /\ Pairs(e.outcomes) = Pairs(d.outcomes)
Nulled(r) == [r EXCEPT !.symbol = "null"]
Kept(d, e) ==
  /\ \A r \in d.rows : \/ r.table = "candles" \/ r \in e.rows
                       \/ r.table = "alerts" /\ Nulled(r) \in e.rows
  /\ Pairs(e.outcomes) = Pairs(d.outcomes)

(* What is kept by one migration and by the next is kept by both. *)
LEMMA KeptByBoth ==
  ASSUME NEW d, NEW e, NEW f, RowsOk(d), Kept(d, e), Kept(e, f)
  PROVE  Kept(d, f)
<1> SUFFICES ASSUME NEW r \in d.rows, r.table # "candles", r \notin f.rows
             PROVE  r.table = "alerts" /\ Nulled(r) \in f.rows
  BY DEF Kept
<1>1. r = [table |-> r.table, symbol |-> r.symbol]
  BY DEF RowsOk, Written
<1>2. CASE r \in e.rows
  BY <1>2 DEF Kept
<1>3. CASE r.table = "alerts" /\ Nulled(r) \in e.rows
  <2>1. Nulled(r) = [table |-> "alerts", symbol |-> "null"]
    BY <1>1, <1>3 DEF Nulled
  <2> DEFINE x == Nulled(r)
  <2>2. x.table = "alerts" /\ Nulled(x) = x
    BY <2>1 DEF Nulled
  <2>3. x \in e.rows
    BY <1>3
  <2> HIDE DEF x
  <2>4. x \in f.rows
    BY <2>2, <2>3 DEF Kept
  <2> QED
    BY <1>3, <2>4 DEF x
<1> QED
  BY <1>2, <1>3 DEF Kept

(* A statement that only adds keeps every row and every outcome. *)
LEMMA GrowingKeeps ==
  ASSUME NEW d, NEW s, s.do \in Growing, Holds(d)
  PROVE  Same(d, Apply(d, s))
<1> DEFINE e == Apply(d, s)
<1>0. IsDatabase(d) /\ Recorded(d.outcomes)
  BY DEF Holds, OutcomesOk
<1>a. ASSUME NEW F, OnlyIn(e, d, F), F \cap {"rows", "symbols", "outcomes"} = {} PROVE Same(d, e)
  <2> HIDE DEF e
  <2>1. e["rows"] = d["rows"] /\ e["symbols"] = d["symbols"] /\ e["outcomes"] = d["outcomes"]
    <3>1. "rows" \in Parts \ F /\ "symbols" \in Parts \ F /\ "outcomes" \in Parts \ F
      BY <1>a DEF Parts
    <3> QED
      BY <1>a, <3>1 DEF OnlyIn
  <2> QED
    BY <2>1 DEF Same
<1>1. CASE s.do # "key" /\ s.do # "seed"
  <2>1. \/ OnlyIn(e, d, {"tables", "owned", "granted", "candles"})
        \/ OnlyIn(e, d, {"enabled", "forced", "guards"})
        \/ OnlyIn(e, d, {"demands"}) \/ OnlyIn(e, d, {"granted"}) \/ OnlyIn(e, d, {"defaults"})
        \/ OnlyIn(e, d, {"role"}) \/ OnlyIn(e, d, {"candles"}) \/ OnlyIn(e, d, {"ok"})
    <3>1. CASE s.do = "create"
      <4>1. e = CreateTable(d, s)
        BY <3>1 DEF Apply
      <4>2. Failed(e, d) \/ Created(e, d, s)
        BY <1>0, <4>1, Creates
      <4> HIDE DEF e
      <4> QED
        BY <4>2 DEF Created, Failed
    <3>2. CASE s.do = "guard"
      <4>1. e = AddGuard(d, s)
        BY <3>2 DEF Apply
      <4> QED
        BY <1>0, <4>1, Guards DEF Guarded, Failed
    <3>3. CASE s.do = "demand"
      BY <1>0, <3>3, StructureStatements DEF Demanded
    <3>4. CASE s.do = "relax"
      BY <1>0, <3>4, StructureStatements DEF Relaxed
    <3>5. CASE s.do = "grantAll"
      BY <1>0, <3>5, StructureStatements DEF GrantedAll
    <3>6. CASE s.do = "defaults"
      BY <1>0, <3>6, StructureStatements DEF Defaulted
    <3>7. CASE s.do = "role" \/ s.do = "login"
      BY <1>0, <3>7, StructureStatements DEF InRole
    <3>8. CASE s.do = "partition"
      BY <1>0, <3>8, DataStatements DEF Partitioned, Failed
    <3> QED
      BY <1>1, <3>1, <3>2, <3>3, <3>4, <3>5, <3>6, <3>7, <3>8 DEF Growing
  <2> HIDE DEF e
  <2> QED
    BY <1>a, <2>1 DEF e
<1>2. CASE s.do = "seed"
  BY <1>0, <1>2, DataStatements DEF Same
<1>3. CASE s.do = "key"
  <2>1. KeyedBy(e, d, TRUE) /\ e.outcomes = Backfilled(d)
    BY <1>0, <1>3, DataStatements
  <2> HIDE DEF e
  <2>2. e.rows = d.rows /\ e.symbols = d.symbols
    BY <2>1 DEF KeyedBy, OnlyIn, Parts
  <2>3. PICK g : Rekeyed(d.outcomes, e.outcomes, g)
    BY <1>0, <2>1, Rekeyings
  <2>4. Pairs(e.outcomes) = Pairs(d.outcomes)
    BY <2>3 DEF Rekeyed, Pairs
  <2> QED
    BY <2>2, <2>4 DEF Same, e
<1> QED
  BY <1>1, <1>2, <1>3

(* A statement that only adds succeeds wherever it does without data. *)
LEMMA GrowingSucceeds ==
  ASSUME NEW d, NEW b, NEW s, s.do \in Growing, Shaped(d, b), Apply(b, s).ok,
         s.do = "partition" => d.rows = {}
  PROVE  Apply(d, s).ok
<1> DEFINE e == Apply(d, s)
           c == Apply(b, s)
<1>0. IsDatabase(d) /\ IsDatabase(b) /\ d.ok /\ ~Failed(c, b) /\ d.tables = b.tables
  BY DEF Shaped, Failed, Structural, Parts
<1>a. ASSUME NEW F, OnlyIn(e, d, F), "ok" \notin F PROVE e["ok"]
  <2> HIDE DEF e
  <2> QED
    BY <1>0, <1>a DEF OnlyIn, Parts
<1>1. CASE s.do # "key" /\ s.do # "seed"
  <2>1. \/ OnlyIn(e, d, {"tables", "owned", "granted", "candles"})
        \/ OnlyIn(e, d, {"enabled", "forced", "guards"})
        \/ OnlyIn(e, d, {"demands"}) \/ OnlyIn(e, d, {"granted"}) \/ OnlyIn(e, d, {"defaults"})
        \/ OnlyIn(e, d, {"role"}) \/ OnlyIn(e, d, {"candles"})
    <3>1. CASE s.do = "create"
      <4>1. e = CreateTable(d, s) /\ c = CreateTable(b, s)
        BY <3>1 DEF Apply
      <4>2. ~Refused(d, s)
        BY <1>0, <4>1, Creates DEF Refused
      <4>3. Created(e, d, s)
        BY <1>0, <4>1, <4>2, Creates
      <4> HIDE DEF e
      <4> QED
        BY <4>3 DEF Created
    <3>2. CASE s.do = "guard"
      <4>1. e = AddGuard(d, s) /\ c = AddGuard(b, s)
        BY <3>2 DEF Apply
      <4>2. s.table \in DOMAIN d.tables
        BY <1>0, <4>1, Guards
      <4> QED
        BY <1>0, <4>1, <4>2, Guards DEF Guarded
    <3>3. CASE s.do = "demand"
      BY <1>0, <3>3, StructureStatements DEF Demanded
    <3>4. CASE s.do = "relax"
      BY <1>0, <3>4, StructureStatements DEF Relaxed
    <3>5. CASE s.do = "grantAll"
      BY <1>0, <3>5, StructureStatements DEF GrantedAll
    <3>6. CASE s.do = "defaults"
      BY <1>0, <3>6, StructureStatements DEF Defaulted
    <3>7. CASE s.do = "role" \/ s.do = "login"
      BY <1>0, <3>7, StructureStatements DEF InRole
    <3>8. CASE s.do = "partition"
      <4>1. ~PartitionFails(d)
        BY <3>8 DEF PartitionFails
      <4> QED
        BY <1>0, <3>8, <4>1, DataStatements DEF Partitioned
    <3> QED
      BY <1>1, <3>1, <3>2, <3>3, <3>4, <3>5, <3>6, <3>7, <3>8 DEF Growing
  <2> HIDE DEF e
  <2> QED
    BY <1>a, <2>1 DEF e
<1>2. CASE s.do = "seed"
  BY <1>0, <1>2, DataStatements
<1>3. CASE s.do = "key"
  <2>1. OnlyIn(e, d, {"keyed", "outcomes"})
    BY <1>0, <1>3, DataStatements DEF KeyedBy
  <2> HIDE DEF e
  <2> QED
    BY <1>a, <2>1 DEF e
<1> QED
  BY <1>1, <1>2, <1>3

(* So a migration of such statements keeps the data, and succeeds where it does without. *)
LEMMA TransactionGrows ==
  ASSUME NEW d, NEW b, NEW L, Len(L) \in Nat, \A i \in 1..Len(L) : L[i].do \in Growing,
         Shaped(d, b), Holds(d), Execute(b, L).ok,
         (\E i \in 1..Len(L) : L[i].do = "partition") => d.rows = {}
  PROVE  Execute(d, L).ok /\ Same(d, Execute(d, L))
<1> DEFINE N == Len(L)
<1>1. PICK f : Ran(f, N, d, L) /\ Execute(d, L) = f[N]
  BY ExecuteRuns
<1>2. PICK g : Ran(g, N, b, L) /\ Execute(b, L) = g[N]
  BY ExecuteRuns
<1> DEFINE S == {i \in 0..N : Holds(f[i]) /\ (g[i].ok => Shaped(f[i], g[i]) /\ Same(d, f[i]))}
<1>3. 0 \in S
  BY <1>1, <1>2 DEF Ran, Same
<1>4. ASSUME NEW i \in 1..N, i - 1 \in S PROVE i \in S
  <2> DEFINE h == i - 1
  <2>1. f[i] = Then(f[h], L[i]) /\ g[i] = Then(g[h], L[i]) /\ L[i].do \in Growing /\ L[i].do \in Kinds
    BY <1>1, <1>2 DEF Ran, Growing, Kinds
  <2>2. Holds(f[h]) /\ (g[h].ok => Shaped(f[h], g[h]) /\ Same(d, f[h]))
    BY <1>4
  <2>3. L[i].do = "partition" => d.rows = {}
    OBVIOUS
  <2> HIDE DEF h, N
  <2>4. Holds(f[i])
    BY <2>1, <2>2, StatementHolds DEF Then
  <2>5. ASSUME g[i].ok PROVE Shaped(f[i], g[i]) /\ Same(d, f[i])
    <3>1. g[h].ok /\ g[i] = Apply(g[h], L[i])
      BY <2>1, <2>5 DEF Then
    <3>2. Shaped(f[h], g[h]) /\ Same(d, f[h]) /\ f[h].ok
      BY <2>2, <3>1 DEF Shaped
    <3>3. f[i] = Apply(f[h], L[i])
      BY <2>1, <3>2 DEF Then
    <3>4. L[i].do = "partition" => f[h].rows = {}
      BY <2>3, <3>2 DEF Same
    <3>5. Apply(f[h], L[i]).ok
      BY <2>1, <2>5, <3>1, <3>2, <3>4, GrowingSucceeds
    <3>6. Shaped(f[i], g[i])
      BY <2>1, <3>1, <3>2, <3>3, <3>5, StatementShapes
    <3>7. Same(f[h], f[i])
      BY <2>1, <2>2, <3>3, GrowingKeeps
    <3> QED
      BY <3>2, <3>6, <3>7 DEF Same
  <2> QED
    BY <2>4, <2>5
<1>5. N \in S
  <2>1. N \in Nat
    OBVIOUS
  <2>2. \A i \in 1..N : i - 1 \in S => i \in S
    BY <1>4
  <2> HIDE DEF S, N
  <2>3. \A i \in 0..N : i \in S
    BY <1>3, <2>1, <2>2, Climbing
  <2> QED
    BY <2>1, <2>3
<1> QED
  BY <1>1, <1>2, <1>5 DEF Shaped

(* A plan on a symbol that 018 deletes. *)
ForeignPlan(d) == \E r \in d.rows : r.table = "recommendations" /\ r.symbol \in Others

(* A database at a revision: it has one of the revision's shapes, well-formed data, and rows *)
(* only once there is a role to write them.                                                 *)
Five == 5 \in Releases
At(n, d) ==
  /\ \E b : <<n, b>> \in Shapes[Five] /\ Shaped(d, b)
  /\ Holds(d) /\ (d.rows # {} => n >= 6)

(* What a shape is. *)
LEMMA ShapeFacts ==
  ASSUME NEW n, NEW b, <<n, b>> \in Shapes[Five]
  PROVE  /\ n \in 0..25 /\ IsDatabase(b) /\ b.ok /\ b.rows = {}
         /\ b.role = "login" => n >= 6
         /\ b.granted \subseteq DOMAIN b.tables
         /\ \A t \in DOMAIN b.tables : {r.to : r \in b.tables[t]} \subseteq DOMAIN b.tables
<1>1. Five \in BOOLEAN
  BY DEF Five
<1> DEFINE p == <<n, b>>
<1>2. p \in Shapes[Five] /\ p[1] = n /\ p[2] = b
  OBVIOUS
<1>3. DOMAIN EmptyDatabase = Parts
  BY DEF EmptyDatabase, Parts
<1> HIDE DEF p
<1>4. n \in 0..25 /\ IsDatabase(b) /\ b.ok /\ b.rows = {}
  BY <1>1, <1>2, <1>3, ShapeFact, HeadFact DEF IsDatabase
<1>5. b.role = "login" => n >= 6
  BY <1>1, <1>2, RoleFact
<1>6. /\ b.granted \subseteq DOMAIN b.tables
      /\ \A t \in DOMAIN b.tables : {r.to : r \in b.tables[t]} \subseteq DOMAIN b.tables
  BY <1>1, <1>2, TableFact DEF Names
<1> QED
  BY <1>4, <1>5, <1>6

(* The shape a migration makes of a shape. *)
LEMMA ShapeUpgrades ==
  ASSUME NEW n \in 1..25, NEW b, <<n - 1, b>> \in Shapes[Five]
  PROVE  Execute(b, Upgrades[n]).ok /\ <<n, Execute(b, Upgrades[n])>> \in Shapes[Five]
<1>1. Five \in BOOLEAN
  BY DEF Five
<1> DEFINE p == <<n - 1, b>>
<1>2. p \in Shapes[Five] /\ p[1] = n - 1 /\ p[2] = b
  OBVIOUS
<1> HIDE DEF p
<1>3. Upgraded(p) = <<n, Execute(b, Upgrades[n])>>
  <2>1. p[1] + 1 = n
    BY <1>2
  <2> QED
    BY <1>2, <2>1 DEF Upgraded
<1>4. Upgraded(p)[2].ok /\ Upgraded(p) \in Shapes[Five]
  BY <1>1, <1>2, ClosureFact, HeadFact
<1> QED
  BY <1>3, <1>4

(* 018 is refused for a plan on another symbol only, and loses candles only. *)
LEMMA GoldKeepsOrBlocks ==
  ASSUME NEW d, At(17, d), NEW s, s.do = "onlyGold"
  PROVE  IF Apply(d, s).ok THEN Kept(d, Apply(d, s)) ELSE ForeignPlan(d)
<1> DEFINE e == Apply(d, s)
<1>1. PICK b : <<17, b>> \in Shapes[Five] /\ Shaped(d, b)
  BY DEF At
<1>2. IsDatabase(d) /\ d.ok /\ RowsOk(d) /\ d.tables = b.tables
  BY <1>1 DEF At, Holds, Shaped, Structural, Parts
<1>3. \A t \in {"recommendations", "alerts", "candles"} : t \in DOMAIN d.tables =>
        RuleOf(d, t) = IF t = "recommendations" THEN "NO ACTION"
                       ELSE IF t = "alerts" THEN "SET NULL" ELSE "CASCADE"
  <2> DEFINE p == <<17, b>>
  <2>1. p \in Shapes[Five] /\ p[1] = 17 /\ p[2] = b /\ Five \in BOOLEAN
    BY <1>1 DEF Five
  <2> HIDE DEF p
  <2>2. /\ "recommendations" \in DOMAIN b.tables => RuleOf(b, "recommendations") = "NO ACTION"
        /\ "alerts" \in DOMAIN b.tables => RuleOf(b, "alerts") = "SET NULL"
        /\ "candles" \in DOMAIN b.tables => RuleOf(b, "candles") = "CASCADE"
    BY <2>1, SymbolFact DEF Names
  <2>3. \A t : RuleOf(d, t) = RuleOf(b, t)
    BY <1>2 DEF RuleOf
  <2> QED
    BY <1>2, <2>2, <2>3
<1>4. ASSUME NEW r \in Foreign(d)
      PROVE  /\ r \in d.rows /\ r.symbol \in Others /\ r.table \in DOMAIN d.tables
             /\ r.table \in {"recommendations", "alerts", "candles"}
  <2>1. r \in d.rows /\ r.symbol \in d.symbols /\ r.symbol # Gold
    BY <1>4 DEF Foreign
  <2>2. r.symbol \in Others /\ r.symbol # "null"
    BY <1>2, <2>1, OthersAssumption DEF RowsOk
  <2> QED
    BY <1>2, <2>1, <2>2 DEF RowsOk, Written
<1>5. CASE Blocked(d)
  <2>1. PICK r \in Foreign(d) : RuleOf(d, r.table) = "NO ACTION"
    BY <1>5 DEF Blocked
  <2>2. r.table = "recommendations"
    BY <1>3, <1>4, <2>1
  <2>3. ForeignPlan(d)
    BY <1>4, <2>2 DEF ForeignPlan
  <2>4. ~e.ok
    BY <1>2, <1>5, DataStatements DEF Failed
  <2> QED
    BY <2>3, <2>4
<1>6. CASE ~Blocked(d)
  <2>1. Golden(e, d)
    BY <1>2, <1>6, DataStatements
  <2> HIDE DEF e
  <2>2. e.ok /\ e.outcomes = d.outcomes
    BY <1>2, <2>1 DEF Golden, OnlyIn, Parts
  <2>3. ASSUME NEW r \in d.rows
        PROVE  r.table = "candles" \/ r \in e.rows \/ (r.table = "alerts" /\ Nulled(r) \in e.rows)
    <3>1. CASE r \notin Foreign(d)
      BY <2>1, <3>1 DEF Golden
    <3>2. CASE r \in Foreign(d) /\ r.table = "recommendations"
      BY <1>3, <1>4, <1>6, <3>2 DEF Blocked
    <3>3. CASE r \in Foreign(d) /\ r.table = "alerts"
      <4>1. RuleOf(d, r.table) = "SET NULL"
        BY <1>3, <1>4, <3>3
      <4> QED
        BY <2>1, <3>3, <4>1 DEF Golden, Nulled
    <3> QED
      BY <1>4, <3>1, <3>2, <3>3
  <2> QED
    BY <2>2, <2>3 DEF Kept, e
<1> QED
  BY <1>5, <1>6

(* What is left of a database by an upgrade that has come to revision n. *)
Come(n, d0, d) == At(n, d) /\ Kept(d0, d) /\ (n < 18 => d.rows = d0.rows)

(* A migration brings the database one revision further, or a foreign plan is in its way. *)
LEMMA MigrationClimbs ==
  ASSUME NEW n \in 1..25, NEW d0, RowsOk(d0), NEW d, Come(n - 1, d0, d)
  PROVE  IF Execute(d, Upgrades[n]).ok THEN Come(n, d0, Execute(d, Upgrades[n])) ELSE ForeignPlan(d0)
<1> DEFINE L == Upgrades[n]
           e == Execute(d, L)
<1>1. PICK b : <<n - 1, b>> \in Shapes[Five] /\ Shaped(d, b)
  BY DEF Come, At
<1>2. Execute(b, L).ok /\ <<n, Execute(b, L)>> \in Shapes[Five]
  BY <1>1, ShapeUpgrades
<1>3. Len(L) \in Nat /\ \A i \in 1..Len(L) : L[i].do \in Kinds
  BY StatementFact, HeadFact
<1>4. Holds(d) /\ Kept(d0, d) /\ (d.rows # {} => n - 1 >= 6) /\ (n - 1 < 18 => d.rows = d0.rows)
  BY DEF Come, At
<1>5. Holds(e)
  BY <1>3, <1>4, TransactionHolds
<1>6. e.ok => Shaped(e, Execute(b, L))
  BY <1>1, <1>3, TransactionShapes
<1>7. CASE n # 18
  <2>1. n \in (1..HeadRevision) \ {18}
    BY <1>7, HeadFact
  <2>2. \A i \in 1..Len(L) : L[i].do \in Growing
    BY <2>1, UpgradeFact
  <2>3. (\E i \in 1..Len(L) : L[i].do = "partition") => d.rows = {}
    <3>1. CASE n = 5
      BY <1>4, <3>1
    <3>2. CASE n # 5
      BY <3>2, HeadFact, UpgradeFact
    <3> QED
      BY <3>1, <3>2
  <2> HIDE DEF L
  <2>4. e.ok /\ Same(d, e)
    BY <1>1, <1>2, <1>3, <1>4, <2>2, <2>3, TransactionGrows
  <2> HIDE DEF e
  <2>5. Kept(d0, e) /\ e.rows = d.rows
    BY <1>4, <2>4 DEF Kept, Same
  <2>6. At(n, e)
    BY <1>2, <1>4, <1>5, <1>6, <2>4, <2>5 DEF At
  <2>7. n < 18 => e.rows = d0.rows
    BY <1>4, <2>5
  <2> QED
    BY <2>4, <2>5, <2>6, <2>7 DEF Come, e, L
<1>8. CASE n = 18
  <2> DEFINE s == L[1]
  <2>1. Len(L) = 1 /\ s.do = "onlyGold"
    BY <1>8, UpgradeFact
  <2>2. e = Apply(d, s)
    <3>1. PICK f : Ran(f, Len(L), d, L) /\ Execute(d, L) = f[Len(L)]
      BY <1>3, ExecuteRuns
    <3>2. f[1] = Then(f[0], L[1]) /\ f[0] = d /\ e = f[1]
      BY <2>1, <3>1 DEF Ran
    <3>3. d.ok
      BY <1>1 DEF Shaped
    <3> QED
      BY <3>2, <3>3 DEF Then
  <2>3. At(17, d)
    BY <1>8 DEF Come
  <2> HIDE DEF L, e, s
  <2>4. IF e.ok THEN Kept(d, e) ELSE ForeignPlan(d)
    BY <2>1, <2>2, <2>3, GoldKeepsOrBlocks
  <2>5. ASSUME ~e.ok PROVE ForeignPlan(d0)
    BY <1>4, <1>8, <2>4, <2>5 DEF ForeignPlan
  <2>6. ASSUME e.ok PROVE Come(n, d0, e)
    <3>1. Kept(d0, e)
      BY <1>4, <2>4, <2>6, KeptByBoth
    <3>2. At(n, e)
      BY <1>2, <1>5, <1>6, <1>8, <2>6 DEF At
    <3> QED
      BY <1>8, <3>1, <3>2 DEF Come
  <2> QED
    BY <2>5, <2>6 DEF e, L
<1> QED
  BY <1>7, <1>8

(* A transaction that starts with a failure ends with it. *)
LEMMA FailureStays ==
  ASSUME NEW d, ~d.ok, NEW L, Len(L) \in Nat
  PROVE  ~Execute(d, L).ok
<1> DEFINE N == Len(L)
<1>1. PICK f : Ran(f, N, d, L) /\ Execute(d, L) = f[N]
  BY ExecuteRuns
<1> DEFINE S == {i \in 0..N : ~f[i].ok}
<1>2. 0 \in S
  BY <1>1 DEF Ran
<1>3. ASSUME NEW i \in 1..N, i - 1 \in S PROVE i \in S
  <2> DEFINE h == i - 1
  <2>1. f[i] = Then(f[h], L[i]) /\ ~f[h].ok
    BY <1>1, <1>3 DEF Ran
  <2> HIDE DEF h, N
  <2> QED
    BY <2>1 DEF Then
<1>4. N \in S
  <2>1. N \in Nat
    OBVIOUS
  <2>2. \A i \in 1..N : i - 1 \in S => i \in S
    BY <1>3
  <2> HIDE DEF S, N
  <2>3. \A i \in 0..N : i \in S
    BY <1>2, <2>1, <2>2, Climbing
  <2> QED
    BY <2>1, <2>3
<1> QED
  BY <1>1, <1>4

(* An upgrade comes to its target with everything kept, or a foreign plan is in its way. *)
LEMMA UpgradeClimbs ==
  ASSUME NEW from \in 0..25, NEW target \in 1..25, from < target, NEW d, At(from, d)
  PROVE  IF UpgradeTo(d, from, target).ok THEN Come(target, d, UpgradeTo(d, from, target))
         ELSE ForeignPlan(d)
<1> DEFINE N == target - from
<1>1. PICK f : Ascent(f, from, target, d) /\ UpgradeTo(d, from, target) = f[target]
  BY UpgradeRuns
<1>2. RowsOk(d)
  BY DEF At, Holds
<1> DEFINE S == {k \in 0..N : IF f[from + k].ok THEN Come(from + k, d, f[from + k]) ELSE ForeignPlan(d)}
<1>3. 0 \in S
  <2>1. Come(from, d, d) /\ f[from] = d /\ d.ok
    BY <1>1 DEF Come, Kept, Ascent, At, Shaped
  <2>2. from + 0 = from /\ 0 \in 0..N
    OBVIOUS
  <2> HIDE DEF N
  <2> QED
    BY <2>1, <2>2
<1>4. ASSUME NEW k \in 1..N, k - 1 \in S PROVE k \in S
  <2> DEFINE n == from + k
             m == from + (k - 1)
  <2>1. n \in 1..25 /\ m = n - 1 /\ n \in (from + 1)..target /\ k \in 0..N
    OBVIOUS
  <2>2. IF f[m].ok THEN Come(m, d, f[m]) ELSE ForeignPlan(d)
    BY <1>4
  <2> HIDE DEF n, m, N
  <2>3. f[n] = Execute(f[m], Upgrades[n])
    BY <1>1, <2>1 DEF Ascent
  <2>4. IF f[n].ok THEN Come(n, d, f[n]) ELSE ForeignPlan(d)
    <3>1. CASE f[m].ok
      <4>1. Come(n - 1, d, f[m])
        BY <2>1, <2>2, <3>1
      <4>2. IF Execute(f[m], Upgrades[n]).ok THEN Come(n, d, Execute(f[m], Upgrades[n])) ELSE ForeignPlan(d)
        BY <1>2, <2>1, <4>1, MigrationClimbs
      <4> QED
        BY <2>3, <4>2
    <3>2. CASE ~f[m].ok
      <4>1. Len(Upgrades[n]) \in Nat
        BY <2>1, StatementFact, HeadFact
      <4>2. ~f[n].ok
        BY <2>3, <3>2, <4>1, FailureStays
      <4> QED
        BY <2>2, <3>2, <4>2
    <3> QED
      BY <3>1, <3>2
  <2> QED
    BY <2>1, <2>4 DEF n
<1>5. N \in S /\ from + N = target
  <2>1. N \in Nat /\ from + N = target
    OBVIOUS
  <2>2. \A k \in 1..N : k - 1 \in S => k \in S
    BY <1>4
  <2> HIDE DEF S, N
  <2>3. \A k \in 0..N : k \in S
    BY <1>3, <2>1, <2>2, Climbing
  <2> QED
    BY <2>1, <2>3
<1>6. IF f[target].ok THEN Come(target, d, f[target]) ELSE ForeignPlan(d)
  <2> HIDE DEF N
  <2> QED
    BY <1>5
<1> QED
  BY <1>1, <1>6

(* A rollback undoes the latest migration, or fails; 006 cannot be undone. *)
LEMMA RollbackDescends ==
  ASSUME NEW n \in 1..25, n = 5 => Five, NEW d, At(n, d), Execute(d, Downgrades[n]).ok
  PROVE  n # 6 /\ At(n - 1, Execute(d, Downgrades[n]))
<1> DEFINE L == Downgrades[n]
           e == Execute(d, L)
<1>1. PICK b : <<n, b>> \in Shapes[Five] /\ Shaped(d, b)
  BY DEF At
<1>2. Len(L) \in Nat /\ \A i \in 1..Len(L) : L[i].do \in Kinds
  BY StatementFact, HeadFact
<1>3. Holds(d) /\ (d.rows # {} => n >= 6)
  BY DEF At
<1>4. Holds(e) /\ Shaped(e, Execute(b, L)) /\ Execute(b, L).ok
  BY <1>1, <1>2, <1>3, TransactionHolds, TransactionShapes DEF Shaped
<1> DEFINE p == <<n, b>>
<1>5. p \in Shapes[Five] /\ p[1] = n /\ p[2] = b /\ Five \in BOOLEAN /\ n \in RolledBack(Five)
  BY <1>1, HeadFact DEF Five, RolledBack
<1> HIDE DEF p
<1>6. Downgraded(p) = <<n - 1, Execute(b, L)>> /\ Downgraded(p)[2].ok
  BY <1>4, <1>5 DEF Downgraded
<1>7. Downgraded(p) \in Shapes[Five]
  BY <1>5, <1>6, ClosureFact
<1>8. n # 6
  BY <1>5, <1>6, RoleFact
<1>9. e.rows # {} => n - 1 >= 6
  <2>1. CASE d.rows = {}
    <3>1. Shaped(d, d)
      BY <1>1, <2>1 DEF Shaped
    <3>2. Shaped(e, e)
      BY <1>2, <3>1, TransactionShapes
    <3> QED
      BY <3>2 DEF Shaped
  <2>2. CASE d.rows # {}
    BY <1>3, <1>8, <2>2
  <2> QED
    BY <2>1, <2>2
<1>10. <<n - 1, Execute(b, L)>> \in Shapes[Five]
  BY <1>6, <1>7
<1> HIDE DEF e, L
<1> QED
  BY <1>4, <1>8, <1>9, <1>10 DEF At, e, L

(* A row that a deployed release writes leaves the structure as it is. *)
LEMMA WritesKeepTheShape ==
  ASSUME NEW n, NEW d, At(n, d), NEW e, NEW part, part \in {"rows", "symbols", "outcomes"},
         OnlyIn(e, d, {part}), Holds(e), part = "rows" => n >= 6
  PROVE  At(n, e)
<1>1. PICK b : <<n, b>> \in Shapes[Five] /\ Shaped(d, b)
  BY DEF At
<1>2. Shaped(e, b)
  <2> DEFINE F == {part}
  <2>1. /\ "ok" \notin F /\ OnlyIn(e, d, F) /\ OnlyIn(b, b, F) /\ b.rows = {}
        /\ F \cap Structural = {}
    BY <1>1 DEF Shaped, OnlyIn, Structural
  <2> HIDE DEF F
  <2> QED
    BY <1>1, <2>1, ShapedStill
<1>3. e.rows # {} => n >= 6
  <2>1. part # "rows" => e["rows"] = d["rows"]
    BY DEF OnlyIn, Parts
  <2> QED
    BY <2>1 DEF At
<1> QED
  BY <1>1, <1>2, <1>3 DEF At

(* The role writes only from 006 on, and only to tables there are. *)
LEMMA WritersAreGranted ==
  ASSUME NEW n, NEW d, At(n, d), NEW t, CanWrite(d, t)
  PROVE  n \in 0..25 /\ n >= 6 /\ t \in DOMAIN d.tables
<1>1. PICK b : <<n, b>> \in Shapes[Five] /\ Shaped(d, b)
  BY DEF At
<1>2. d.role = b.role /\ d.granted = b.granted /\ d.tables = b.tables
  BY <1>1 DEF Shaped, Structural, Parts
<1> QED
  BY <1>1, <1>2, ShapeFacts DEF CanWrite

(* The outcomes of a database are still counted once after one more is recorded. *)
LEMMA OutcomeIsRecorded ==
  ASSUME NEW d, OutcomesOk(d), NEW plan \in Plans, Cardinality(d.outcomes) < MaxOutcomes,
         ~(d.keyed /\ \E o \in d.outcomes : o.plan = plan /\ o.key = "rec"),
         NEW x, x = [id |-> Cardinality(d.outcomes) + 1, plan |-> plan,
                     key |-> IF d.keyed THEN "rec" ELSE "none"]
  PROVE  Recorded(d.outcomes \cup {x}) /\ (d.keyed => OneCounts(d.outcomes \cup {x}))
<1> DEFINE O == d.outcomes
           E == O \cup {x}
           n == Cardinality(O)
<1>1. /\ IsFiniteSet(O) /\ n \in Nat
      /\ O \subseteq [id : 1..n, plan : Plans, key : {"none", "rec", "dup"}]
      /\ \A o, p \in O : o.id = p.id => o = p
  BY FS_CardinalityType DEF OutcomesOk, Recorded
<1>2. x.id = n + 1 /\ x.plan = plan /\ x.key = (IF d.keyed THEN "rec" ELSE "none")
  OBVIOUS
<1>3. x \notin O
  BY <1>1, <1>2
<1>4. IsFiniteSet(E) /\ Cardinality(E) = n + 1
  BY <1>1, <1>3, FS_AddElement
<1>5. \A o \in O : o \in [id : 1..(n + 1), plan : Plans, key : {"none", "rec", "dup"}]
  <2> SUFFICES ASSUME NEW o \in O
               PROVE  o \in [id : 1..(n + 1), plan : Plans, key : {"none", "rec", "dup"}]
    OBVIOUS
  <2> HIDE DEF n, O
  <2>1. o \in [id : 1..n, plan : Plans, key : {"none", "rec", "dup"}]
    BY <1>1
  <2> QED
    BY <1>1, <2>1
<1>6. x \in [id : 1..(n + 1), plan : Plans, key : {"none", "rec", "dup"}]
  <2> HIDE DEF n
  <2> QED
    BY <1>1, <1>2 DEF n
<1>7. E \subseteq [id : 1..Cardinality(E), plan : Plans, key : {"none", "rec", "dup"}]
  <2> HIDE DEF n, O
  <2> QED
    BY <1>4, <1>5, <1>6
<1>8. \A o, p \in E : o.id = p.id => o = p
  <2>1. \A o \in O : o.id # x.id
    BY <1>1, <1>2
  <2> QED
    BY <1>1, <2>1
<1>9. n + 1 <= MaxOutcomes
  BY <1>1, MaxOutcomesAssumption
<1>10. Recorded(E)
  <2> HIDE DEF n, E
  <2> QED
    BY <1>4, <1>7, <1>8, <1>9 DEF Recorded
<1>11. ASSUME d.keyed PROVE OneCounts(E)
  <2>1. OneCounts(O)
    BY <1>11 DEF OutcomesOk
  <2>2. \A o \in O : o.plan # plan
    <3> SUFFICES ASSUME NEW o \in O, o.plan = plan PROVE FALSE
      OBVIOUS
    <3>1. plan \in {y.plan : y \in O}
      OBVIOUS
    <3> HIDE DEF O
    <3>2. \E r \in O : r.plan = plan /\ r.key = "rec"
      BY <2>1, <3>1 DEF OneCounts
    <3> QED
      BY <1>11, <3>2 DEF O
  <2> HIDE DEF n, O
  <2> SUFFICES ASSUME NEW y \in E
               PROVE  \E o \in E : /\ o.plan = y.plan /\ o.key = "rec"
                                   /\ \A q \in E \ {o} : q.plan = y.plan => q.key = "dup" /\ q.id > o.id
    BY DEF OneCounts
  <2>3. CASE y.plan = plan
    <3>1. x \in E /\ x.plan = y.plan /\ x.key = "rec"
      BY <1>2, <1>11, <2>3
    <3>2. \A q \in E \ {x} : q.plan # y.plan
      BY <2>2, <2>3
    <3> QED
      BY <3>1, <3>2
  <2>4. CASE y.plan # plan
    <3>1. y \in O
      BY <1>2, <2>4
    <3>2. PICK o \in O : /\ o.plan = y.plan /\ o.key = "rec"
                         /\ \A q \in O \ {o} : q.plan = y.plan => q.key = "dup" /\ q.id > o.id
      BY <2>1, <3>1 DEF OneCounts
    <3>3. \A q \in E \ {o} : q.plan = y.plan => q \in O \ {o}
      BY <1>2, <2>4
    <3> QED
      BY <3>2, <3>3
  <2> QED
    BY <2>3, <2>4
<1> QED
  BY <1>10, <1>11

(* A new database is at revision 0. *)
LEMMA EmptyIsAtStart == At(0, EmptyDatabase)
<1> DEFINE d == EmptyDatabase
<1>1. DOMAIN d = Parts
  BY DEF EmptyDatabase, Parts
<1>2. d.ok /\ d.rows = {} /\ d.symbols = {} /\ d.outcomes = {} /\ d.keyed = FALSE
  BY DEF EmptyDatabase
<1>3. <<0, d>> \in Shapes[Five]
  <2>1. Five \in BOOLEAN
    BY DEF Five
  <2> QED
    BY <2>1, ShapeFact
<1> HIDE DEF d
<1>4. Shaped(d, d)
  BY <1>1, <1>2 DEF Shaped, IsDatabase
<1>5. Holds(d)
  BY <1>1, <1>2, FS_EmptySet, MaxOutcomesAssumption
  DEF Holds, IsDatabase, RowsOk, OutcomesOk, Recorded, OneCounts
<1> QED
  BY <1>2, <1>3, <1>4, <1>5 DEF At, d

(* The inductive invariant: the database has one of the shapes of its revision, whatever data *)
(* it holds, and an upgrade was refused only over a plan that is still there.                 *)
DeploymentInv ==
  /\ At(revision, db)
  /\ revision = 5 => Five
  /\ last \in {"none", "upgrade", "downgrade", "failed upgrade", "failed downgrade"}
  /\ last = "failed upgrade" => ForeignPlan(db)

(* A deployment either reaches its release with everything kept, or is refused. *)
LEMMA DeployKeeps ==
  ASSUME DeploymentInv, NEW target \in Releases, Deploy(target)
  PROVE  DeploymentInv' /\ (revision' > revision => Kept(db, db'))
<1> DEFINE e == UpgradeTo(db, revision, target)
<1>1. revision \in 0..25 /\ target \in 1..25 /\ revision < target
  BY ShapeFacts, ReleasesAssumption, HeadFact DEF DeploymentInv, At, Deploy
<1>2. At(revision, db)
  BY DEF DeploymentInv
<1>3. IF e.ok THEN Come(target, db, e) ELSE ForeignPlan(db)
  BY <1>1, <1>2, UpgradeClimbs
<1>4. Settle(e, target, "upgrade", "failed upgrade")
  BY DEF Deploy
<1> HIDE DEF e
<1>5. CASE e.ok
  <2>1. revision' = target /\ db' = e /\ last' = "upgrade"
    BY <1>4, <1>5 DEF Settle
  <2>2. At(target, e) /\ Kept(db, e) /\ (target = 5 => Five)
    BY <1>3, <1>5 DEF Come, Five
  <2> QED
    BY <2>1, <2>2 DEF DeploymentInv
<1>6. CASE ~e.ok
  <2>1. revision' = revision /\ db' = db /\ last' = "failed upgrade"
    BY <1>4, <1>6 DEF Settle
  <2>2. ~(revision' > revision)
    <3>1. revision \in Int
      BY <1>1
    <3>2. revision' = revision
      BY <2>1
    <3> QED
      BY <3>1, <3>2
  <2>3. DeploymentInv'
    BY <1>3, <1>6, <2>1 DEF DeploymentInv
  <2> QED
    BY <2>2, <2>3
<1> QED
  BY <1>5, <1>6

(* A rollback goes back one revision, or changes nothing. *)
LEMMA RollbackKeeps ==
  ASSUME DeploymentInv, Rollback
  PROVE  DeploymentInv' /\ ~(revision' > revision)
<1> DEFINE e == Execute(db, Downgrades[revision])
<1>1. revision \in 1..25
  <2>1. revision \in 0..25
    BY ShapeFacts DEF DeploymentInv, At
  <2>2. revision > 0
    BY DEF Rollback
  <2> QED
    BY <2>1, <2>2
<1>2. At(revision, db) /\ (revision = 5 => Five)
  BY DEF DeploymentInv
<1>3. e.ok => revision # 6 /\ At(revision - 1, e)
  BY <1>1, <1>2, RollbackDescends
<1>4. Settle(e, revision - 1, "downgrade", "failed downgrade")
  BY DEF Rollback
<1> HIDE DEF e
<1>5. CASE e.ok
  <2>1. revision' = revision - 1 /\ db' = e /\ last' = "downgrade"
    BY <1>4, <1>5 DEF Settle
  <2>2. ~(revision' > revision) /\ revision' # 5
    BY <1>1, <1>3, <1>5, <2>1
  <2>3. DeploymentInv'
    BY <1>3, <1>5, <2>1, <2>2 DEF DeploymentInv
  <2> QED
    BY <2>2, <2>3
<1>6. CASE ~e.ok
  <2>1. revision' = revision /\ db' = db /\ last' = "failed downgrade"
    BY <1>4, <1>6 DEF Settle
  <2>2. ~(revision' > revision)
    <3>1. revision \in Int
      BY <1>1
    <3>2. revision' = revision
      BY <2>1
    <3> QED
      BY <3>1, <3>2
  <2>3. DeploymentInv'
    BY <2>1 DEF DeploymentInv
  <2> QED
    BY <2>2, <2>3
<1> QED
  BY <1>5, <1>6

(* What a deployed release writes keeps the invariant. *)
LEMMA WritesKeep ==
  ASSUME DeploymentInv,
         \/ \E symbol \in Others \cup {Gold} : AskFor(symbol)
         \/ \E table \in {"candles", "recommendations", "alerts"}, symbol \in Others \cup {Gold} :
              WriteRow(table, symbol)
         \/ InviteMember
         \/ \E plan \in Plans : RecordOutcome(plan)
  PROVE  DeploymentInv' /\ revision' = revision
<1>0. /\ At(revision, db) /\ IsDatabase(db) /\ RowsOk(db) /\ OutcomesOk(db)
      /\ revision \in 0..25
  BY ShapeFacts DEF DeploymentInv, At, Holds
<1>a. ASSUME NEW part \in {"rows", "symbols", "outcomes"}, OnlyIn(db', db, {part}), Holds(db'),
             part = "rows" => revision >= 6, db.rows \subseteq db'.rows, UNCHANGED <<revision, last>>
      PROVE  DeploymentInv'
  <2>1. At(revision, db')
    BY <1>0, <1>a, WritesKeepTheShape
  <2>2. ForeignPlan(db) => ForeignPlan(db')
    BY <1>a DEF ForeignPlan
  <2> QED
    BY <1>a, <2>1, <2>2 DEF DeploymentInv
<1>b. ASSUME NEW row \in Written, row.table \in DOMAIN db.tables, revision >= 6,
             row.table = "workspace_members" => row.symbol = "null",
             db' = [db EXCEPT !.rows = @ \cup {row}], UNCHANGED <<revision, last>>
      PROVE  DeploymentInv'
  <2>1. OnlyIn(db', db, {"rows"}) /\ db'.rows = db.rows \cup {row}
    BY <1>0, <1>b DEF OnlyIn, IsDatabase, Parts
  <2>2. db'.symbols = db.symbols /\ db'.tables = db.tables /\ db'.outcomes = db.outcomes
          /\ db'.keyed = db.keyed
    BY <2>1 DEF OnlyIn, Parts
  <2>3. Holds(db')
    BY <1>0, <1>b, <2>1, <2>2 DEF Holds, RowsOk, OutcomesOk, OnlyIn
  <2> QED
    BY <1>a, <1>b, <2>1, <2>3
<1>1. ASSUME NEW symbol \in Others \cup {Gold}, AskFor(symbol) PROVE DeploymentInv' /\ revision' = revision
  <2>1. db' = [db EXCEPT !.symbols = @ \cup {symbol}] /\ UNCHANGED <<revision, last>>
    BY <1>1 DEF AskFor
  <2>2. OnlyIn(db', db, {"symbols"}) /\ db'.symbols = db.symbols \cup {symbol}
    BY <1>0, <2>1 DEF OnlyIn, IsDatabase, Parts
  <2>3. db'.rows = db.rows /\ db'.tables = db.tables /\ db'.outcomes = db.outcomes
          /\ db'.keyed = db.keyed
    BY <2>2 DEF OnlyIn, Parts
  <2>4. Holds(db')
    BY <1>0, <2>2, <2>3 DEF Holds, RowsOk, OutcomesOk, OnlyIn
  <2> QED
    BY <1>a, <2>1, <2>2, <2>3, <2>4
<1>2. ASSUME NEW table \in {"candles", "recommendations", "alerts"}, NEW symbol \in Others \cup {Gold},
             WriteRow(table, symbol)
      PROVE  DeploymentInv' /\ revision' = revision
  <2> DEFINE row == [table |-> table, symbol |-> symbol]
  <2>1. db' = [db EXCEPT !.rows = @ \cup {row}] /\ UNCHANGED <<revision, last>> /\ CanWrite(db, table)
    BY <1>2 DEF WriteRow
  <2>2. revision >= 6 /\ table \in DOMAIN db.tables
    BY <1>0, <2>1, WritersAreGranted
  <2>3. row \in Written /\ row.table = table /\ table # "workspace_members"
    BY DEF Written
  <2> HIDE DEF row
  <2> QED
    BY <1>b, <2>1, <2>2, <2>3
<1>3. ASSUME InviteMember PROVE DeploymentInv' /\ revision' = revision
  <2> DEFINE row == [table |-> "workspace_members", symbol |-> "null"]
  <2>1. db' = [db EXCEPT !.rows = @ \cup {row}] /\ UNCHANGED <<revision, last>>
          /\ CanWrite(db, "workspace_members")
    BY <1>3 DEF InviteMember
  <2>2. revision >= 6 /\ "workspace_members" \in DOMAIN db.tables
    BY <1>0, <2>1, WritersAreGranted
  <2>3. row \in Written /\ row.table = "workspace_members" /\ row.symbol = "null"
    BY DEF Written
  <2> HIDE DEF row
  <2> QED
    BY <1>b, <2>1, <2>2, <2>3
<1>4. ASSUME NEW plan \in Plans, RecordOutcome(plan) PROVE DeploymentInv' /\ revision' = revision
  <2> DEFINE x == [id |-> Cardinality(db.outcomes) + 1, plan |-> plan,
                   key |-> IF db.keyed THEN "rec" ELSE "none"]
  <2>1. /\ db' = [db EXCEPT !.outcomes = @ \cup {x}] /\ UNCHANGED <<revision, last>>
        /\ Cardinality(db.outcomes) < MaxOutcomes
        /\ ~(db.keyed /\ \E o \in db.outcomes : o.plan = plan /\ o.key = "rec")
    BY <1>4 DEF RecordOutcome
  <2>2. Recorded(db.outcomes \cup {x}) /\ (db.keyed => OneCounts(db.outcomes \cup {x}))
    BY <1>0, <2>1, OutcomeIsRecorded
  <2> HIDE DEF x
  <2>3. OnlyIn(db', db, {"outcomes"}) /\ db'.outcomes = db.outcomes \cup {x}
    BY <1>0, <2>1 DEF OnlyIn, IsDatabase, Parts
  <2>4. db'.rows = db.rows /\ db'.tables = db.tables /\ db'.symbols = db.symbols /\ db'.keyed = db.keyed
    BY <2>3 DEF OnlyIn, Parts
  <2>5. Holds(db')
    BY <1>0, <2>2, <2>3, <2>4 DEF Holds, RowsOk, OutcomesOk, OnlyIn
  <2> QED
    BY <1>a, <2>1, <2>3, <2>4, <2>5
<1> QED
  BY <1>1, <1>2, <1>3, <1>4

(* The invariant is inductive, and an upgrade keeps the records. *)
LEMMA StepKeeps ==
  ASSUME DeploymentInv, Next
  PROVE  DeploymentInv' /\ (revision' > revision => Kept(db, db'))
<1>1. ASSUME NEW target \in Releases, Deploy(target)
      PROVE  DeploymentInv' /\ (revision' > revision => Kept(db, db'))
  BY <1>1, DeployKeeps
<1>2. CASE Rollback
  BY <1>2, RollbackKeeps
<1>3. revision \in 0..25
  BY ShapeFacts DEF DeploymentInv, At
<1>4. CASE ~Rollback /\ \A target \in Releases : ~Deploy(target)
  <2>1. DeploymentInv' /\ revision' = revision
    BY <1>4, WritesKeep DEF Next
  <2> QED
    BY <1>3, <2>1
<1> QED
  BY <1>1, <1>2, <1>4

(* The invariant holds from the first installation on. *)
THEOREM DeploymentInvariant == Spec => []DeploymentInv
<1>1. Init => DeploymentInv
  <2> SUFFICES ASSUME Init PROVE DeploymentInv
    OBVIOUS
  <2>1. At(revision, db)
    BY EmptyIsAtStart DEF Init
  <2> QED
    BY <2>1 DEF Init, DeploymentInv
<1>2. DeploymentInv /\ [Next]_vars => DeploymentInv'
  <2>1. DeploymentInv /\ UNCHANGED vars => DeploymentInv'
    BY DEF DeploymentInv, vars
  <2> QED
    BY <2>1, StepKeeps
<1> QED
  BY <1>1, <1>2, PTL DEF Spec

(* The keys of the tables lead to tables and the rows lie in them, at every revision and *)
(* whatever upgrades and rollbacks came before.                                          *)
THEOREM DeploymentTypes == Spec => []TypeOK
<1>1. DeploymentInv => TypeOK
  <2> SUFFICES ASSUME DeploymentInv PROVE TypeOK
    OBVIOUS
  <2>1. PICK b : <<revision, b>> \in Shapes[Five] /\ Shaped(db, b)
    BY DEF DeploymentInv, At
  <2>2. db.ok /\ db.tables = b.tables
    BY <2>1 DEF Shaped, Structural, Parts
  <2>3. revision \in 0..HeadRevision
    BY <2>1, ShapeFacts, HeadFact
  <2>4. \A t \in DOMAIN db.tables : {r.to : r \in db.tables[t]} \subseteq DOMAIN db.tables
    BY <2>1, <2>2, ShapeFacts
  <2>5. RowsOk(db) /\ Recorded(db.outcomes)
    BY DEF DeploymentInv, At, Holds, OutcomesOk
  <2>6. db.outcomes \subseteq [id : 1..MaxOutcomes, plan : Plans, key : {"none", "rec", "dup"}]
    <3> DEFINE O == db.outcomes
               n == Cardinality(O)
    <3>1. /\ O \subseteq [id : 1..n, plan : Plans, key : {"none", "rec", "dup"}]
          /\ n \in Nat /\ n <= MaxOutcomes /\ MaxOutcomes \in Nat
      BY <2>5, FS_CardinalityType, MaxOutcomesAssumption DEF Recorded
    <3> HIDE DEF O, n
    <3>2. \A o \in O : o \in [id : 1..MaxOutcomes, plan : Plans, key : {"none", "rec", "dup"}]
      BY <3>1
    <3> QED
      BY <3>2 DEF O
  <2> QED
    BY <2>2, <2>3, <2>4, <2>5, <2>6 DEF TypeOK, DeploymentInv, RowsOk, Names
<1> QED
  BY <1>1, DeploymentInvariant, PTL

(* An upgrade is refused for one reason only, a plan on a symbol that 018 deletes. *)
THEOREM OnlyForeignPlansRefuse == Spec => []OnlyForeignPlansBlock
<1>1. DeploymentInv => OnlyForeignPlansBlock
  BY DEF DeploymentInv, ForeignPlan, OnlyForeignPlansBlock
<1> QED
  BY <1>1, DeploymentInvariant, PTL

(* Once outcomes are keyed exactly one counts per plan, the earliest. *)
THEOREM OutcomesCountOnce == Spec => []OneOutcomeCounts
<1>1. DeploymentInv => OneOutcomeCounts
  BY DEF DeploymentInv, At, Holds, OutcomesOk, OneCounts, OneOutcomeCounts
<1> QED
  BY <1>1, DeploymentInvariant, PTL

(* No upgrade loses a plan, a member or an outcome, nor an alert but for its symbol. *)
THEOREM RecordsSurviveUpgrades == Spec => UpgradesKeepRecords
<1>1. DeploymentInv /\ [Next]_vars =>
        [revision' > revision =>
           /\ \A r \in db.rows : Survives(r)
           /\ {<<o.id, o.plan>> : o \in db.outcomes} = {<<o.id, o.plan>> : o \in db'.outcomes}]_vars
  <2> SUFFICES ASSUME DeploymentInv, Next, revision' > revision
               PROVE  /\ \A r \in db.rows : Survives(r)
                      /\ {<<o.id, o.plan>> : o \in db.outcomes} = {<<o.id, o.plan>> : o \in db'.outcomes}
    OBVIOUS
  <2>1. Kept(db, db')
    BY StepKeeps
  <2> QED
    BY <2>1 DEF Kept, Pairs, Nulled, Survives
<1> QED
  BY <1>1, DeploymentInvariant, PTL DEF Spec, UpgradesKeepRecords

(* At the head the ORM and the database agree, however the database came there. *)
THEOREM HeadMatchesOrm == Spec => []OrmMatchesHead
<1>1. DeploymentInv => OrmMatchesHead
  <2> SUFFICES ASSUME DeploymentInv, revision = HeadRevision PROVE MatchesOrm(db)
    BY DEF OrmMatchesHead
  <2>1. PICK b : <<revision, b>> \in Shapes[Five] /\ Shaped(db, b)
    BY DEF DeploymentInv, At
  <2> DEFINE p == <<revision, b>>
  <2>2. p \in Shapes[Five] /\ p[1] = HeadRevision /\ p[2] = b /\ Five \in BOOLEAN
    BY <2>1 DEF Five
  <2> HIDE DEF p
  <2>3. MatchesOrm(b)
    BY <2>2, OrmFact
  <2>4. db.tables = b.tables
    BY <2>1 DEF Shaped, Structural, Parts
  <2> QED
    BY <2>3, <2>4 DEF MatchesOrm, Names
<1> QED
  BY <1>1, DeploymentInvariant, PTL

(* What a database that reached the head without a rollback of 005 has there. *)
LEMMA HeadShape ==
  ASSUME 5 \notin Releases, DeploymentInv, revision = HeadRevision
  PROVE  \E b : Shaped(db, b) /\ Structure(b) = FreshStructure /\ Serves(b)
<1>1. PICK b : <<revision, b>> \in Shapes[Five] /\ Shaped(db, b)
  BY DEF DeploymentInv, At
<1> DEFINE p == <<revision, b>>
<1>2. p \in Shapes[FALSE] /\ p[1] = HeadRevision /\ p[2] = b
  <2>1. Five = FALSE
    BY DEF Five
  <2> QED
    BY <1>1, <2>1
<1> HIDE DEF p
<1> QED
  BY <1>1, <1>2, FreshFact

(* If no release was cut at 005, a database at the head has the schema of a fresh one, through *)
(* whatever rollbacks it came there.                                                           *)
THEOREM HeadSchemaIsFresh == ASSUME 5 \notin Releases PROVE Spec => []SameSchemaAtHead
<1>1. DeploymentInv => SameSchemaAtHead
  <2> SUFFICES ASSUME DeploymentInv, revision = HeadRevision PROVE Structure(db) = FreshStructure
    BY DEF SameSchemaAtHead
  <2>1. PICK b : Shaped(db, b) /\ Structure(b) = FreshStructure
    BY HeadShape
  <2>2. Structure(db) = Structure(b)
    BY <2>1 DEF Structure, Shaped, Structural, Parts
  <2> QED
    BY <2>1, <2>2
<1> QED
  BY <1>1, DeploymentInvariant, PTL

(* And it serves its tenants: every table they own has its row filter, and the role can write. *)
THEOREM HeadServesItsTenants == ASSUME 5 \notin Releases PROVE Spec => []ServesItsTenants
<1>1. DeploymentInv => ServesItsTenants
  <2> SUFFICES ASSUME DeploymentInv, revision = HeadRevision PROVE Serves(db)
    BY DEF ServesItsTenants
  <2>1. PICK b : Shaped(db, b) /\ Serves(b)
    BY HeadShape
  <2>2. /\ db.tables = b.tables /\ db.role = b.role /\ db.granted = b.granted /\ db.demands = b.demands
        /\ db.candles = b.candles /\ db.owned = b.owned /\ db.enabled = b.enabled
        /\ db.forced = b.forced /\ db.guards = b.guards
    BY <2>1 DEF Shaped, Structural, Parts
  <2> QED
    BY <2>1, <2>2 DEF Serves, CanWrite, Names
<1> QED
  BY <1>1, DeploymentInvariant, PTL
-----------------------------------------------------------------------------
Verdict == [state : LifecycleState, streak : Nat]

(* A streak never counts more readings than there have been since the state changed.    *)
StreakIsEarned ==
  /\ verdict \in [Bucket -> Verdict]
  /\ since \in [Bucket -> 0..RecoveryStreak]
  /\ \A b \in Bucket : since[b] < RecoveryStreak => verdict[b].streak <= since[b]

(* Whatever the windows hold, they say one of the states. *)
LEMMA TargetIsAState == \A rows : Target(rows) \in LifecycleState
BY DEF Target, LifecycleState

(* The states are ordered by number. *)
LEMMA OrderOfAState == \A s \in LifecycleState : Order[s] \in Int
BY DEF Order, LifecycleState

(* What an evaluation writes is a verdict. *)
LEMMA EvaluationType ==
  ASSUME NEW v \in Verdict, NEW rows
  PROVE  /\ Demoted(v, rows) \in Verdict
         /\ Held(v, rows) \in Verdict
         /\ Climbed(v, rows) \in Verdict
         /\ Settled("disabled", 0) \in Verdict
BY TargetIsAState DEF Verdict, LifecycleState, Demoted, Held, Climbed, Settled

(* Remembering a verdict keeps the invariant when its streak grows by one at most while *)
(* the state stays, and starts again when the state changes.                            *)
LEMMA RememberKeeps ==
  ASSUME StreakIsEarned, NEW b \in Bucket, NEW v \in Verdict, Remember(b, v),
         v.state # verdict[b].state => v.streak = 0,
         v.state = verdict[b].state => v.streak <= verdict[b].streak + 1
  PROVE  StreakIsEarned'
<1>1. RecoveryStreak \in Nat \ {0}
  BY ThresholdAssumption
<1>2. verdict' \in [Bucket -> Verdict] /\ since' \in [Bucket -> 0..RecoveryStreak]
  BY <1>1 DEF Remember, StreakIsEarned
<1>3. ASSUME NEW c \in Bucket, since'[c] < RecoveryStreak PROVE verdict'[c].streak <= since'[c]
  <2>1. CASE c # b
    BY <1>3, <2>1 DEF Remember, StreakIsEarned
  <2>2. CASE c = b /\ v.state # verdict[b].state
    BY <1>1, <2>2 DEF Remember, StreakIsEarned
  <2>3. CASE c = b /\ v.state = verdict[b].state
    <3>1. verdict'[b] = v /\ verdict[b].streak \in Nat /\ v.streak \in Nat
      BY DEF Remember, StreakIsEarned, Verdict
    <3>2. since[b] \in 0..RecoveryStreak
            /\ since'[b] = IF since[b] < RecoveryStreak THEN since[b] + 1 ELSE since[b]
      BY <2>3 DEF Remember, StreakIsEarned
    <3>3. verdict[b].streak <= since[b]
      BY <1>1, <1>3, <2>3, <3>2 DEF StreakIsEarned
    <3> QED BY <1>1, <1>3, <2>3, <3>1, <3>2, <3>3
  <2> QED BY <2>1, <2>2, <2>3
<1> QED BY <1>2, <1>3 DEF StreakIsEarned

(* A promotion of the bucket that was judged, and of no other, has its readings. *)
PromotionIsEarned(b) ==
  Worse(verdict[b].state, verdict'[b].state) => since[b] + 1 >= RecoveryStreak

(* A verdict stored for one bucket promotes no other bucket, and that one only if earned. *)
LEMMA RememberTouchesOne ==
  ASSUME StreakIsEarned, NEW b \in Bucket, NEW v \in Verdict, Remember(b, v),
         Worse(verdict[b].state, v.state) => since[b] + 1 >= RecoveryStreak
  PROVE  \A c \in Bucket : PromotionIsEarned(c)
<1> SUFFICES ASSUME NEW c \in Bucket PROVE PromotionIsEarned(c)
  OBVIOUS
<1>1. CASE c = b
  BY <1>1 DEF Remember, StreakIsEarned, PromotionIsEarned
<1>2. CASE c # b
  <2>1. verdict'[c] = verdict[c] /\ verdict[c].state \in LifecycleState
    BY <1>2 DEF Remember, StreakIsEarned, Verdict
  <2> QED BY <2>1, OrderOfAState DEF PromotionIsEarned, Worse
<1> QED BY <1>1, <1>2

(* Every evaluation keeps the streaks earned, and promotes only what has earned it. *)
LEMMA StepIsEarned ==
  ASSUME StreakIsEarned, DecayNext
  PROVE  StreakIsEarned' /\ \A c \in Bucket : PromotionIsEarned(c)
<1>1. PICK b, rows : /\ b \in Bucket
                     /\ \/ Leave(b, rows) \/ Disable(b, rows)
                        \/ Demote(b, rows) \/ Hold(b, rows) \/ Climb(b, rows)
  BY DEF DecayNext, Record
<1> DEFINE v == verdict[b]
<1>2. b \in Bucket /\ v \in Verdict /\ v.state \in LifecycleState /\ v.streak \in Nat /\ Order[v.state] \in Int
  BY <1>1, OrderOfAState DEF StreakIsEarned, Verdict
<1>3. RecoveryStreak \in Nat \ {0} /\ since[b] \in 0..RecoveryStreak
  BY <1>2, ThresholdAssumption DEF StreakIsEarned
<1>4. CASE Leave(b, rows)
  <2>1. verdict' = verdict /\ since' = since
    BY <1>4 DEF Leave
  <2>2. \A c \in Bucket : Order[verdict[c].state] \in Int
    BY OrderOfAState DEF StreakIsEarned, Verdict
  <2> QED BY <2>1, <2>2 DEF StreakIsEarned, PromotionIsEarned, Worse
<1>5. CASE Disable(b, rows)
  <2>1. Remember(b, Settled("disabled", 0)) /\ v.state # "disabled"
    BY <1>5 DEF Disable, Judged
  <2>2. Settled("disabled", 0) \in Verdict
    BY DEF Settled, Verdict, LifecycleState
  <2>3. ~Worse(v.state, "disabled")
    BY <1>2 DEF Worse, Order, LifecycleState
  <2>4. Settled("disabled", 0).state = "disabled" /\ Settled("disabled", 0).streak = 0
    BY DEF Settled
  <2> QED BY <1>2, <2>1, <2>2, <2>3, <2>4, RememberKeeps, RememberTouchesOne
<1>6. CASE Demote(b, rows)
  <2>1. Remember(b, Demoted(v, rows)) /\ Worse(Target(rows), v.state)
    BY <1>6 DEF Demote
  <2>2. Demoted(v, rows) \in Verdict
    BY <1>2, EvaluationType
  <2>3. Target(rows) # v.state /\ ~Worse(v.state, Target(rows))
    BY <1>2, <2>1, TargetIsAState, OrderOfAState DEF Worse
  <2>4. Demoted(v, rows).state = Target(rows) /\ Demoted(v, rows).streak = 0
    BY DEF Demoted, Settled
  <2> QED BY <1>2, <2>1, <2>2, <2>3, <2>4, RememberKeeps, RememberTouchesOne
<1>7. CASE Hold(b, rows)
  <2>1. Remember(b, Held(v, rows))
    BY <1>7 DEF Hold
  <2>2. Held(v, rows) \in Verdict
    BY <1>2, EvaluationType
  <2>3. Held(v, rows).state = v.state /\ Held(v, rows).streak <= v.streak + 1
    BY <1>2 DEF Held, Settled
  <2>4. ~Worse(v.state, Held(v, rows).state)
    BY <1>2, <2>3 DEF Worse
  <2> QED BY <1>2, <2>1, <2>2, <2>3, <2>4, RememberKeeps, RememberTouchesOne
<1>8. CASE Climb(b, rows)
  <2>1. Remember(b, Climbed(v, rows)) /\ Worse(v.state, Target(rows))
    BY <1>8 DEF Climb
  <2>2. Climbed(v, rows) \in Verdict
    BY <1>2, EvaluationType
  <2>3. CASE v.streak + 1 < RecoveryStreak
    <3>1. Climbed(v, rows).state = v.state /\ Climbed(v, rows).streak = v.streak + 1
      BY <2>3 DEF Climbed, Settled
    <3>2. ~Worse(v.state, v.state)
      BY <1>2 DEF Worse
    <3> QED BY <1>2, <2>1, <2>2, <3>1, <3>2, RememberKeeps, RememberTouchesOne
  <2>4. CASE ~(v.streak + 1 < RecoveryStreak)
    <3>1. Climbed(v, rows).state = Target(rows) /\ Climbed(v, rows).streak = 0
      BY <2>4 DEF Climbed, Settled
    <3>2. Target(rows) # v.state
      BY <1>2, <2>1 DEF Worse
    <3>3. since[b] + 1 >= RecoveryStreak
      BY <1>2, <1>3, <2>4 DEF StreakIsEarned
    <3> QED BY <1>2, <2>1, <2>2, <3>1, <3>2, <3>3, RememberKeeps, RememberTouchesOne
  <2> QED BY <2>3, <2>4
<1> QED BY <1>1, <1>4, <1>5, <1>6, <1>7, <1>8

(* No bucket starts with a streak it did not earn. *)
LEMMA InitIsEarned == DecayInit => StreakIsEarned
BY ThresholdAssumption DEF DecayInit, StreakIsEarned, Verdict, LifecycleState

(* The streak of a bucket counts readings it really had since its state last changed.   *)
THEOREM StreakInvariant == DecaySpec => []StreakIsEarned
<1>1. StreakIsEarned /\ UNCHANGED decayVars => StreakIsEarned'
  BY DEF StreakIsEarned, decayVars
<1> QED BY InitIsEarned, StepIsEarned, <1>1, PTL DEF DecaySpec

(* One good result does not re-promote a strategy: whatever came between, RecoveryStreak *)
(* judged readings separate a promotion from the last change of the bucket's state.      *)
THEOREM PromotionsAreEarned == DecaySpec => PromotionTakesReadings
<1>1. StreakIsEarned /\ [DecayNext]_decayVars
        => [\A b \in Bucket : Worse(verdict[b].state, verdict'[b].state)
              => since[b] + 1 >= RecoveryStreak]_decayVars
  BY StepIsEarned DEF PromotionIsEarned
<1> QED BY StreakInvariant, <1>1, PTL DEF DecaySpec, PromotionTakesReadings

(* What the workspace remembers is a sequence of outcomes. *)
Row == [bucket : Bucket, won : BOOLEAN, r : Int \cup {None}]
LogOfRows == log \in Seq(Row)

(* The windows of an evaluation start with the outcome that caused it.                  *)
LEMMA RecordPutsItsRowFirst ==
  ASSUME LogOfRows, NEW b \in Bucket, NEW o \in Outcome, Record(b, o)
  PROVE  LogOfRows' /\ Head(log').bucket = b
<1> DEFINE row == [bucket |-> b, won |-> o.won, r |-> o.r]
           all == <<row>> \o log
           k == IF Len(log) < 2 * Window THEN Len(log) + 1 ELSE 2 * Window
<1>1. row \in Row
  BY OutcomeAssumption DEF Row
<1>2. all \in Seq(Row) /\ Len(all) = Len(log) + 1 /\ all[1] = row
  BY <1>1 DEF LogOfRows
<1>3. k \in 1..Len(all)
  BY <1>2, ThresholdAssumption DEF LogOfRows
<1>4. log' = SubSeq(all, 1, k)
  BY DEF Record
<1> HIDE DEF all, k
<1>5. log' \in Seq(Row) /\ Len(log') = k /\ log'[1] = all[1]
  BY <1>2, <1>3, <1>4
<1> QED
  BY <1>2, <1>3, <1>5 DEF LogOfRows

(* A judged bucket is left at the state the windows say, or at one that is worse.       *)
LEMMA EvaluationIsNeverBetter ==
  ASSUME StreakIsEarned, LogOfRows, DecayNext, NEW b \in Bucket,
         Head(log').bucket = b, Judged(verdict[b], log')
  PROVE  ~Worse(Target(log'), verdict'[b].state)
<1> DEFINE v == verdict[b]
<1>1. \/ Leave(b, log') \/ Disable(b, log') \/ Demote(b, log') \/ Hold(b, log') \/ Climb(b, log')
  <2>1. PICK c \in Bucket, o \in Outcome : Record(c, o)
    BY DEF DecayNext
  <2>2. c = b
    BY <2>1, RecordPutsItsRowFirst
  <2> QED
    BY <2>1, <2>2 DEF Record
<1>2. v \in Verdict /\ verdict \in [Bucket -> Verdict]
  BY DEF StreakIsEarned
<1>3. /\ Order[v.state] \in Int /\ Order[Target(log')] \in Int
      /\ ~Worse(Target(log'), Target(log'))
      /\ ~Worse(Target(log'), "disabled")
  <2>1. Target(log') \in LifecycleState /\ v.state \in LifecycleState
    BY <1>2, TargetIsAState DEF Verdict
  <2> QED
    BY <2>1 DEF Worse, Order, LifecycleState
<1>4. ASSUME NEW w, Remember(b, w) PROVE verdict'[b].state = w.state
  BY <1>2, <1>4 DEF Remember
<1>5. CASE Leave(b, log')
  BY <1>5 DEF Leave
<1>6. CASE Disable(b, log')
  BY <1>3, <1>4, <1>6 DEF Disable, Settled
<1>7. CASE Demote(b, log')
  BY <1>3, <1>4, <1>7 DEF Demote, Demoted, Settled
<1>8. CASE Hold(b, log')
  <2>1. verdict'[b].state = Target(log')
    BY <1>4, <1>8 DEF Hold, Held, Settled
  <2> QED
    BY <1>3, <2>1
<1>9. CASE Climb(b, log')
  <2>1. Remember(b, Climbed(v, log')) /\ Worse(v.state, Target(log'))
    BY <1>9 DEF Climb
  <2>2. Climbed(v, log').state \in {v.state, Target(log')}
    BY DEF Climbed, Settled
  <2>3. ~Worse(Target(log'), v.state)
    BY <1>3, <2>1 DEF Worse
  <2> QED
    BY <1>3, <1>4, <2>1, <2>2, <2>3
<1> QED
  BY <1>1, <1>5, <1>6, <1>7, <1>8, <1>9

(* A downgrade takes effect immediately: a bucket that has just been judged never stands *)
(* better than its two windows say.                                                      *)
THEOREM JudgedAsRead == DecaySpec => NeverBetterThanItsReading
<1>1. DecayInit => LogOfRows
  BY DEF DecayInit, LogOfRows
<1>2. LogOfRows /\ [DecayNext]_decayVars => LogOfRows'
  <2>1. LogOfRows /\ DecayNext => LogOfRows'
    BY RecordPutsItsRowFirst DEF DecayNext
  <2> QED
    BY <2>1 DEF decayVars, LogOfRows
<1>3. StreakIsEarned /\ LogOfRows /\ [DecayNext]_decayVars
        => [\A b \in Bucket : (Head(log').bucket = b /\ Judged(verdict[b], log'))
              => ~Worse(Target(log'), verdict'[b].state)]_decayVars
  BY EvaluationIsNeverBetter
<1> QED
  BY StreakInvariant, <1>1, <1>2, <1>3, PTL DEF DecaySpec, NeverBetterThanItsReading
==============================================================================
