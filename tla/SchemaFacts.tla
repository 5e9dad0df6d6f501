----------------------------- MODULE SchemaFacts -----------------------------
(***************************************************************************)
(* Closed facts about the migrations, for TLC to compute: the shapes a     *)
(* database can have at each revision, whatever upgrades and rollbacks it  *)
(* went through, and what every statement, upgrade and rollback does to    *)
(* each.  A shape is a revision with a database that holds no data.        *)
(***************************************************************************)
EXTENDS Models

\* The revisions a rollback can start from.  005 is one of them only if a release was cut
\* there: the downgrade of 006 never succeeds.
RolledBack(five) == (1..HeadRevision) \ (IF five THEN {} ELSE {5})

Upgraded(p) == <<p[1] + 1, Execute(p[2], Upgrades[p[1] + 1])>>
Downgraded(p) == <<p[1] - 1, Execute(p[2], Downgrades[p[1]])>>

NextShapes(five, p) ==
  (IF p[1] < HeadRevision THEN {Upgraded(p)} ELSE {})
    \cup {q \in (IF p[1] \in RolledBack(five) THEN {Downgraded(p)} ELSE {}) : q[2].ok}

\* The shapes by how many steps it takes to reach them first.
Wider(five, reach) ==
  IF reach.new = {} THEN reach
  ELSE LET new == UNION {NextShapes(five, p) : p \in reach.new} \ reach.all
       IN  [all |-> reach.all \cup new, new |-> new]
MaxSteps == 50
Shapes ==
  [five \in BOOLEAN |->
     LET reach[n \in 0..MaxSteps] ==
           IF n = 0 THEN LET first == {<<0, EmptyDatabase>>} IN [all |-> first, new |-> first]
           ELSE Wider(five, reach[n - 1])
     IN  reach[MaxSteps].all]
-----------------------------------------------------------------------------
Kinds == {"create", "drop", "guard", "unguard", "demand", "relax", "grantAll", "defaults", "role",
          "login", "nologin", "dropRole", "partition", "onlyGold", "key", "unkey", "seed", "unseed"}
\* The statements of an upgrade that meet no data they could fail on, or lose.
Growing == {"create", "guard", "demand", "relax", "grantAll", "defaults", "role", "login",
            "partition", "key", "seed"}

ASSUME HeadFact == HeadRevision = 25 /\ Len(Downgrades) = HeadRevision

\* Every migration is a list of statements the model knows.
ASSUME StatementFact ==
  \A n \in 1..HeadRevision :
    /\ Len(Upgrades[n]) \in Nat /\ Len(Downgrades[n]) \in Nat
    /\ \A i \in 1..Len(Upgrades[n]) : Upgrades[n][i].do \in Kinds
    /\ \A i \in 1..Len(Downgrades[n]) : Downgrades[n][i].do \in Kinds

\* Only 018 deletes rows on the way up, and only 005, which comes before any, repartitions.
ASSUME UpgradeFact ==
  /\ \A n \in (1..HeadRevision) \ {18} : \A i \in 1..Len(Upgrades[n]) : Upgrades[n][i].do \in Growing
  /\ \A n \in (1..HeadRevision) \ {5} :
       \A i \in 1..Len(Upgrades[n]) : Upgrades[n][i].do # "partition"
  /\ Len(Upgrades[18]) = 1 /\ Upgrades[18][1].do = "onlyGold"

\* A new database has a shape, and no shape holds a row.
ASSUME ShapeFact ==
  \A five \in BOOLEAN :
    /\ <<0, EmptyDatabase>> \in Shapes[five]
    /\ \A p \in Shapes[five] :
         /\ p = <<p[1], p[2]>> /\ p[1] \in 0..HeadRevision
         /\ DOMAIN p[2] = DOMAIN EmptyDatabase /\ p[2].ok
         /\ p[2].rows = {} /\ p[2].outcomes = {}

\* Every shape can be upgraded, and what an upgrade or a rollback makes of a shape is one.
ASSUME ClosureFact ==
  \A five \in BOOLEAN : \A p \in Shapes[five] :
    /\ p[1] < HeadRevision => Upgraded(p)[2].ok /\ Upgraded(p) \in Shapes[five]
    /\ (p[1] \in RolledBack(five) /\ Downgraded(p)[2].ok) => Downgraded(p) \in Shapes[five]

\* No shape at 006 can be rolled back: the tables of 006 are granted to the role it drops.
ASSUME RoleFact ==
  \A five \in BOOLEAN : \A p \in Shapes[five] :
    /\ p[2].role = "login" => p[1] >= 6
    /\ p[1] = 6 => ~Downgraded(p)[2].ok

\* Foreign keys lead to tables, only tables are granted, and the role writes to no others.
ASSUME TableFact ==
  \A five \in BOOLEAN : \A p \in Shapes[five] :
    /\ p[2].granted \subseteq Names(p[2])
    /\ \A t \in Names(p[2]) : {r.to : r \in p[2].tables[t]} \subseteq Names(p[2])

\* What 018 does to the rows of a symbol it deletes.
ASSUME SymbolFact ==
  \A five \in BOOLEAN : \A p \in Shapes[five] :
    p[1] = 17 =>
      /\ "recommendations" \in Names(p[2]) => RuleOf(p[2], "recommendations") = "NO ACTION"
      /\ "alerts" \in Names(p[2]) => RuleOf(p[2], "alerts") = "SET NULL"
      /\ "candles" \in Names(p[2]) => RuleOf(p[2], "candles") = "CASCADE"

\* The schema of the head.  A rollback from 005 leaves a candles table without partitions,
\* which neither is a fresh one's nor takes a row.
ASSUME OrmFact ==
  \A five \in BOOLEAN : \A p \in Shapes[five] : p[1] = HeadRevision => MatchesOrm(p[2])
ASSUME FreshFact ==
  \A p \in Shapes[FALSE] :
    p[1] = HeadRevision => Structure(p[2]) = FreshStructure /\ Serves(p[2])
=============================================================================
