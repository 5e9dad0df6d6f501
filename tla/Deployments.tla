------------------------------ MODULE Deployments ------------------------------
(***************************************************************************)
(* Releases of the system over one database.  A deployment runs `alembic   *)
(* upgrade` before the API starts, as one transaction; a rollback runs     *)
(* `alembic downgrade -1`; between the two the deployed release writes     *)
(* rows.  The rows kept are the ones a migration can meet: candles, plans, *)
(* alerts, members and recorded outcomes.                                  *)
(***************************************************************************)
EXTENDS Models

CONSTANTS
  Releases,    \* the revisions a release was cut at, the head among them
  Others,      \* symbols asked for before gold became the only one
  Plans,       \* plans that can end
  MaxOutcomes  \* bound: outcomes recorded in a behaviour

ASSUME ReleasesAssumption == Releases \subseteq 1..HeadRevision /\ HeadRevision \in Releases
ASSUME OthersAssumption == {Gold, "null"} \cap Others = {}
ASSUME MaxOutcomesAssumption == MaxOutcomes \in Nat

VARIABLES
  revision,  \* alembic_version: how many migrations are applied
  db,        \* the database (Schema)
  last       \* how the latest deployment or rollback ended
vars == <<revision, db, last>>

Init == revision = 0 /\ db = EmptyDatabase /\ last = "none"

\* Slip for a mutant run: what ran before the failing statement stays.
SettlesHalfway(result, target, done, refused) ==
  /\ revision' = IF result.ok THEN target ELSE revision
  /\ db' = result /\ last' = IF result.ok THEN done ELSE refused

\* The transaction commits, and alembic_version with it, or nothing happened.
Settle(result, target, done, refused) ==
  IF result.ok THEN revision' = target /\ db' = result /\ last' = done
               ELSE UNCHANGED <<revision, db>> /\ last' = refused

Deploy(target) ==
  /\ target > revision
  /\ Settle(UpgradeTo(db, revision, target), target, "upgrade", "failed upgrade")

Rollback ==
  /\ revision > 0
  /\ Settle(Execute(db, Downgrades[revision]), revision - 1, "downgrade", "failed downgrade")

\* Until 018 a symbol row was made for whatever a caller asked.
AskFor(symbol) ==
  /\ revision < 18 /\ CanWrite(db, "symbols") /\ symbol \notin db.symbols
  /\ db' = [db EXCEPT !.symbols = @ \cup {symbol}]
  /\ UNCHANGED <<revision, last>>

WriteRow(table, symbol) ==
  /\ table \in Names(db) /\ CanWrite(db, table) /\ symbol \in db.symbols
  /\ db' = [db EXCEPT !.rows = @ \cup {[table |-> table, symbol |-> symbol]}]
  /\ UNCHANGED <<revision, last>>

InviteMember ==
  /\ CanWrite(db, "workspace_members")
  /\ db' = [db EXCEPT !.rows = @ \cup {[table |-> "workspace_members", symbol |-> "null"]}]
  /\ UNCHANGED <<revision, last>>

\* Every component that sees a plan end records it.  With the key a repeat conflicts and
\* writes nothing; a release from before the key writes another row.
RecordOutcome(plan) ==
  /\ CanWrite(db, "outcome_records") /\ Cardinality(db.outcomes) < MaxOutcomes
  /\ ~(db.keyed /\ \E o \in db.outcomes : o.plan = plan /\ o.key = "rec")
  /\ db' = [db EXCEPT !.outcomes = @ \cup
              {[id |-> Cardinality(@) + 1, plan |-> plan, key |-> IF db.keyed THEN "rec" ELSE "none"]}]
  /\ UNCHANGED <<revision, last>>

Next ==
  \/ \E target \in Releases : Deploy(target)
  \/ Rollback
  \/ \E symbol \in Others \cup {Gold} : AskFor(symbol)
  \/ \E table \in {"candles", "recommendations", "alerts"}, symbol \in Others \cup {Gold} :
       WriteRow(table, symbol)
  \/ InviteMember
  \/ \E plan \in Plans : RecordOutcome(plan)

Spec == Init /\ [][Next]_vars
-----------------------------------------------------------------------------
\* Types of the variables: the keys of the tables lead to tables, the rows lie in them.
TypeOK ==
  /\ revision \in 0..HeadRevision /\ db.ok
  /\ last \in {"none", "upgrade", "downgrade", "failed upgrade", "failed downgrade"}
  /\ \A t \in Names(db) : {r.to : r \in db.tables[t]} \subseteq Names(db)
  /\ {r.table : r \in db.rows} \subseteq Names(db)
  /\ db.symbols \subseteq Others \cup {Gold}
  /\ db.outcomes \subseteq [id : 1..MaxOutcomes, plan : Plans, key : {"none", "rec", "dup"}]

\* However a database came to the head revision, through whatever rollbacks, it has the
\* schema of a fresh installation: a statement that is skipped because something is already
\* there (IF NOT EXISTS) or a downgrade that leaves something behind does not show.
SameSchemaAtHead == revision = HeadRevision => Structure(db) = FreshStructure

\* At the head no table was forgotten by a migration: each has its row filter where it needs
\* one, and the runtime role can insert into it.
ServesItsTenants == revision = HeadRevision => Serves(db)

\* At the head the ORM and the database agree on the tables and, as far as the order of
\* inserts depends on them, on the references.
OrmMatchesHead == revision = HeadRevision => MatchesOrm(db)

\* A migration never loses what users or the learning pipeline wrote: plans, members and
\* outcomes survive every upgrade, and an alert survives with or without its symbol.
Survives(r) == r.table = "candles" \/ r \in db'.rows
               \/ (r.table = "alerts" /\ [r EXCEPT !.symbol = "null"] \in db'.rows)
UpgradesKeepRecords ==
  [][revision' > revision =>
       /\ \A r \in db.rows : Survives(r)
       /\ {<<o.id, o.plan>> : o \in db.outcomes} = {<<o.id, o.plan>> : o \in db'.outcomes}]_vars

\* An upgrade is refused for one reason only: a plan on a symbol that 018 deletes.  Every
\* other database, at every revision and after every rollback, reaches every release.
OnlyForeignPlansBlock ==
  last = "failed upgrade" =>
    \E r \in db.rows : r.table = "recommendations" /\ r.symbol \in Others

\* Once outcomes are keyed, a plan that has any has exactly one that counts, the earliest,
\* even if releases from before the key recorded it several times.
OneOutcomeCounts ==
  db.keyed =>
    \A p \in {o.plan : o \in db.outcomes} :
      \E o \in db.outcomes :
        /\ o.plan = p /\ o.key = "rec"
        /\ \A q \in db.outcomes \ {o} : q.plan = p => q.key = "dup" /\ q.id > o.id
=============================================================================
