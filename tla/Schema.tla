------------------------------- MODULE Schema -------------------------------
(***************************************************************************)
(* The database as the migrations of alembic/versions build it: the tables *)
(* with their foreign keys, the row guards of workspace-owned tables, the  *)
(* grants of the application role, and the few rows a migration's success  *)
(* depends on.  A migration is a sequence of statements; Apply executes    *)
(* one.  Columns and indexes are kept only where a statement or a writer   *)
(* can fail on them.                                                       *)
(***************************************************************************)
EXTENDS Integers, Sequences, FiniteSets, SequencesExt

\* A foreign key: the table it references and what the deletion of a parent does.
Cascade(t)  == [to |-> t, rule |-> "CASCADE"]
SetNull(t)  == [to |-> t, rule |-> "SET NULL"]
NoAction(t) == [to |-> t, rule |-> "NO ACTION"]

\* The two keys of a row that belongs to a workspace.
Home == {Cascade("organizations"), Cascade("workspaces")}

\* Statements.  Owned: the table has tenant_id and workspace_id columns.
Table(t, refs) == [do |-> "create", table |-> t, refs |-> refs, owned |-> FALSE]
Owned(t, refs) == [do |-> "create", table |-> t, refs |-> refs, owned |-> TRUE]
Drop(t)        == [do |-> "drop", table |-> t]
Guard(t)       == [do |-> "guard", table |-> t, via |-> t]  \* enable, force, policy on the two columns
GuardVia(t, p) == [do |-> "guard", table |-> t, via |-> p]  \* the same, by the parent's columns
Unguard(t)     == [do |-> "unguard", table |-> t]           \* drop the policy, disable; FORCE stays
Demand(t, c)   == [do |-> "demand", table |-> t, column |-> c] \* NOT NULL, and no writer fills it
Relax(t, c)    == [do |-> "relax", table |-> t, column |-> c]
Do(what)       == [do |-> what, table |-> "-"]

Each(op(_), names) == [i \in 1..Len(names) |-> op(names[i])]

Gold == "XAUUSD"

EmptyDatabase ==
  [ok |-> TRUE, tables |-> <<>>, owned |-> {}, guards |-> {}, enabled |-> {}, forced |-> {},
   granted |-> {}, role |-> "none", defaults |-> FALSE, demands |-> {}, candles |-> "none",
   keyed |-> FALSE, symbols |-> {}, rows |-> {}, outcomes |-> {}]

Names(d) == DOMAIN d.tables
Fail(d) == [d EXCEPT !.ok = FALSE]
Referenced(d, t) == \E u \in Names(d) \ {t} : \E r \in d.tables[u] : r.to = t

\* CREATE TABLE: the name is free and every parent exists.  What the role gets on a new
\* table is decided by ALTER DEFAULT PRIVILEGES.
CreateTable(d, s) ==
  IF s.table \in Names(d) \/ ~({r.to : r \in s.refs} \subseteq Names(d)) THEN Fail(d)
  ELSE [d EXCEPT !.tables  = [t \in Names(d) \cup {s.table} |->
                                IF t = s.table THEN s.refs ELSE d.tables[t]],
                 !.owned   = IF s.owned THEN @ \cup {s.table} ELSE @,
                 !.granted = IF d.defaults THEN @ \cup {s.table} ELSE @,
                 !.candles = IF s.table = "candles" THEN "plain" ELSE @]

\* DROP TABLE: refused while another table references it; rows, guards and grants go with it.
DropTable(d, t) ==
  IF t \notin Names(d) \/ Referenced(d, t) THEN Fail(d)
  ELSE [d EXCEPT !.tables  = [u \in Names(d) \ {t} |-> d.tables[u]],
                 !.owned   = @ \ {t}, !.granted = @ \ {t}, !.enabled = @ \ {t},
                 !.forced  = @ \ {t}, !.guards = {g \in @ : g.table # t},
                 !.demands = {c \in @ : c.table # t},
                 !.candles = IF t = "candles" THEN "none" ELSE @,
                 !.rows    = {r \in @ : r.table # t},
                 !.symbols = IF t = "symbols" THEN {} ELSE @,
                 !.outcomes = IF t = "outcome_records" THEN {} ELSE @]

AddGuard(d, s) ==
  IF s.table \notin Names(d) THEN Fail(d)
  ELSE [d EXCEPT !.enabled = @ \cup {s.table}, !.forced = @ \cup {s.table},
                 !.guards = @ \cup {[table |-> s.table, via |-> s.via]}]

\* candles_partitioned takes over the name of candles.  A partition is created IF NOT EXISTS:
\* one that still belongs to an earlier partitioned candles is kept there, and dropped with it.
PartitionCandles(d) ==
  CASE d.candles = "plain"                                         -> [d EXCEPT !.candles = "partitioned"]
    [] d.candles # "plain" /\ (\E r \in d.rows : r.table = "candles") -> Fail(d)
    [] OTHER                                                       -> [d EXCEPT !.candles = "hollow"]

\* DELETE FROM symbols WHERE code <> gold, through the foreign keys of the rows on them.
RuleOf(d, t) == (CHOOSE r \in d.tables[t] : r.to = "symbols").rule
Foreign(d)   == {r \in d.rows : r.symbol \in d.symbols \ {Gold}}

\* Slips for the mutant runs, here and below: plans deleted with their symbol; the latest
\* repeat taken for the record; a role dropped with its grants; a table forgotten by a
\* downgrade; a child table without a policy.
DropsForeignPlans(d) == [d EXCEPT !.symbols = {Gold}, !.rows = @ \ Foreign(d)]

OnlyGold(d) ==
  IF \E r \in Foreign(d) : RuleOf(d, r.table) = "NO ACTION" THEN Fail(d)
  ELSE [d EXCEPT !.symbols = {Gold},
                 !.rows = (@ \ Foreign(d)) \cup
                          {[r EXCEPT !.symbol = "null"] :
                             r \in {x \in Foreign(d) : RuleOf(d, x.table) = "SET NULL"}}]

\* The backfill of 023: the first outcome of a plan takes the plan's key, a repeat recorded
\* before the key existed is kept under a key of its own.
LatestIsRecord(d) ==
  [d EXCEPT !.keyed = TRUE,
            !.outcomes = {[o EXCEPT !.key = IF \E p \in d.outcomes : p.id > o.id /\ p.plan = o.plan
                                              THEN "dup" ELSE "rec"] : o \in d.outcomes}]

BackfillKeys(d) ==
  [d EXCEPT !.keyed = TRUE,
            !.outcomes = {[o EXCEPT !.key = IF \E p \in d.outcomes : p.id < o.id /\ p.plan = o.plan
                                              THEN "dup" ELSE "rec"] : o \in d.outcomes}]

\* DELETE FROM roles, which members reference without a rule.
DeleteRoles(d) == IF \E r \in d.rows : r.table = "workspace_members" THEN Fail(d) ELSE d

\* DROP ROLE: PostgreSQL refuses while the role still has a privilege on anything.
DropRoleOwned(d) == [d EXCEPT !.role = "none", !.granted = {}, !.defaults = FALSE]

DropRole(d) == IF d.granted # {} \/ d.defaults THEN Fail(d) ELSE [d EXCEPT !.role = "none"]

\* What the runtime role of core/config can insert into.
CanWrite(d, t) ==
  /\ d.role = "login" /\ t \in d.granted
  /\ ~\E c \in d.demands : c.table = t
  /\ t = "candles" => d.candles # "hollow"

Apply(d, s) ==
  CASE s.do = "create"    -> CreateTable(d, s)
    [] s.do = "drop"      -> DropTable(d, s.table)
    [] s.do = "guard"     -> AddGuard(d, s)
    [] s.do = "unguard"   -> [d EXCEPT !.enabled = @ \ {s.table},
                                       !.guards = {g \in @ : g.table # s.table}]
    [] s.do = "demand"    -> [d EXCEPT !.demands = @ \cup {[table |-> s.table, column |-> s.column]}]
    [] s.do = "relax"     -> [d EXCEPT !.demands = @ \ {[table |-> s.table, column |-> s.column]}]
    [] s.do = "grantAll"  -> [d EXCEPT !.granted = Names(d)]
    [] s.do = "defaults"  -> [d EXCEPT !.defaults = TRUE]
    [] s.do = "role"      -> [d EXCEPT !.role = IF @ = "none" THEN "nologin" ELSE @]
    [] s.do = "login"     -> [d EXCEPT !.role = "login"]
    [] s.do = "nologin"   -> [d EXCEPT !.role = "nologin"]
    [] s.do = "dropRole"  -> DropRole(d)
    [] s.do = "partition" -> PartitionCandles(d)
    [] s.do = "onlyGold"  -> OnlyGold(d)
    [] s.do = "key"       -> BackfillKeys(d)
    [] s.do = "unkey"     -> [d EXCEPT !.keyed = FALSE,
                                       !.outcomes = {[o EXCEPT !.key = "none"] : o \in @}]
    [] s.do = "seed"      -> d
    [] s.do = "unseed"    -> DeleteRoles(d)
-----------------------------------------------------------------------------
Upgrade001 ==
  <<Table("organizations", {}), Table("users", {}),
    Table("organization_members", {Cascade("organizations"), Cascade("users")})>>
Downgrade001 == Each(Drop, <<"organization_members", "users", "organizations">>)

Upgrade002 == <<Table("sessions", {Cascade("users")}), Table("auth_tokens", {Cascade("users")})>>
Downgrade002 == Each(Drop, <<"auth_tokens", "sessions">>)

Access003 ==
  <<Table("roles", {}), Table("permissions", {}),
    Table("role_permissions", {Cascade("permissions"), Cascade("roles")}), Table("plans", {}),
    Table("workspaces", {Cascade("users"), Cascade("organizations")}),
    Owned("workspace_members", {NoAction("roles"), Cascade("users")} \cup Home)>>
Market003 ==
  <<Table("symbols", {}), Table("candles", {Cascade("symbols")}),
    Table("subscriptions", {NoAction("plans"), Cascade("organizations")}), Table("feature_flags", {})>>
Dialogue003 ==
  <<Owned("conversations", {Cascade("users")} \cup Home),
    Owned("messages", {Cascade("conversations")} \cup Home)>>
Plans003 ==
  <<Owned("recommendations", {NoAction("symbols")} \cup Home),
    Owned("theses", {Cascade("recommendations")} \cup Home),
    Owned("trades", {SetNull("recommendations"), NoAction("symbols")} \cup Home),
    Owned("watchlists", Home),
    Table("watchlist_items", {NoAction("symbols"), Cascade("watchlists")})>>
Memory003 ==
  <<Owned("agent_episodes", Home), Owned("agent_memories", Home),
    Owned("memory_embeddings", Home), Demand("memory_embeddings", "embedding_json"),
    Owned("lessons", Home), Owned("chart_annotations", Home), Owned("usage_records", Home)>>
Upgrade003 == Access003 \o Market003 \o Dialogue003 \o Plans003 \o Memory003
Downgrade003 ==
  Each(Drop, <<"usage_records", "chart_annotations", "lessons", "memory_embeddings", "agent_memories",
               "agent_episodes", "watchlist_items", "watchlists", "trades", "theses",
               "recommendations", "messages", "conversations", "feature_flags", "subscriptions",
               "candles", "symbols", "workspace_members", "workspaces", "plans",
               "role_permissions", "permissions", "roles">>)

\* Roles, permissions and the FREE plan; the rows are seen by no other statement here.
Upgrade004 == <<Do("seed")>>
Downgrade004 == <<Do("unseed")>>

Runs005 ==
  <<Owned("agent_runs", {SetNull("users")} \cup Home), Table("agent_traces", {Cascade("agent_runs")})>>
Learning005 ==
  <<Owned("outcome_records", Home), Owned("strategy_stats", Home)>>
Profiles005 ==
  <<Owned("symbol_profiles", Home), Owned("calibration_bins", Home), Owned("oanda_connections", Home)>>
RLS_WORKSPACE_TABLES ==
  <<"conversations", "messages", "agent_episodes", "agent_memories", "memory_embeddings", "lessons",
    "symbol_profiles", "strategy_stats", "chart_annotations", "oanda_connections", "trades",
    "recommendations", "theses", "outcome_records", "agent_runs", "calibration_bins",
    "usage_records", "watchlists">>
Candles005 == <<Do("partition")>>
Upgrade005 ==
  Runs005 \o Learning005 \o Profiles005 \o Candles005
    \o <<GuardVia("agent_traces", "agent_runs")>> \o Each(Guard, RLS_WORKSPACE_TABLES)
Downgrade005 ==
  Each(Unguard, Reverse(RLS_WORKSPACE_TABLES)) \o <<Unguard("agent_traces")>>
    \o Each(Drop, <<"oanda_connections", "calibration_bins", "symbol_profiles", "strategy_stats",
                    "outcome_records", "agent_traces", "agent_runs">>)

\* The runtime role: it may use the tables of now, and from 007 on those created later.
Upgrade006 == <<Do("role"), Do("grantAll")>>
Downgrade006 == <<Do("dropRole")>>
Upgrade007 == <<Do("login"), Do("grantAll"), Do("defaults")>>
Downgrade007 == <<Do("nologin")>>

Upgrade008 ==
  <<Table("market_events", {Cascade("symbols")}), Table("structures", {Cascade("symbols")}),
    Table("price_zones", {Cascade("symbols")})>>
Downgrade008 == Each(Drop, <<"price_zones", "structures", "market_events">>)

\* From here on the workspace columns of a new table carry no foreign key.
Upgrade009 == <<Table("news_events", {}), Owned("research_items", {}), Guard("research_items")>>
Downgrade009 == Each(Drop, <<"research_items", "news_events">>)

Upgrade010 == <<Table("model_configs", {})>>
Downgrade010 == <<Drop("model_configs")>>

Upgrade011 == <<Owned("thesis_events", {}), Guard("thesis_events")>>
Downgrade011 == <<Drop("thesis_events")>>

Upgrade012 ==
  <<Owned("alerts", {Cascade("users"), SetNull("symbols")}), Owned("notifications", {Cascade("users")}),
    Owned("journal_entries", {Cascade("users")})>>
    \o Each(Guard, <<"alerts", "notifications", "journal_entries">>)
AlertsStay012 == Each(Drop, <<"journal_entries", "notifications">>)
Downgrade012 == Each(Drop, <<"journal_entries", "notifications", "alerts">>)

Upgrade013 ==
  <<Owned("mcp_sessions", {Cascade("users")}), Owned("mcp_audit_events", {SetNull("mcp_sessions")})>>
    \o Each(Guard, <<"mcp_sessions", "mcp_audit_events">>)
Downgrade013 == Each(Drop, <<"mcp_audit_events", "mcp_sessions">>)

Upgrade014 == <<Table("billing_webhook_events", {})>>
Downgrade014 == <<Drop("billing_webhook_events")>>

Upgrade015 == <<Owned("api_keys", {Cascade("users")} \cup Home), Guard("api_keys")>>
Downgrade015 == <<Drop("api_keys")>>

Upgrade016 == <<Table("platform_secrets", {})>>
Downgrade016 == <<Drop("platform_secrets")>>

NoPolicy017 == <<>>
Upgrade017 == <<GuardVia("watchlist_items", "watchlists")>>
Downgrade017 == <<Unguard("watchlist_items")>>

\* Gold is seeded, every other symbol deleted; nothing is undone on the way down.
Upgrade018 == <<Do("onlyGold")>>
Downgrade018 == <<>>

Upgrade019 == <<Table("prompt_versions", {})>>
Downgrade019 == <<Drop("prompt_versions")>>

Upgrade020 ==
  <<Owned("telegram_links", {NoAction("users")}), Owned("telegram_link_codes", {NoAction("users")})>>
    \o Each(Guard, <<"telegram_links", "telegram_link_codes">>)
Downgrade020 ==
  Each(Unguard, <<"telegram_links", "telegram_link_codes">>)
    \o Each(Drop, <<"telegram_link_codes", "telegram_links">>)

Upgrade021 ==
  <<Owned("recommendation_revisions", {Cascade("recommendations")}), Guard("recommendation_revisions")>>
Downgrade021 == <<Unguard("recommendation_revisions"), Drop("recommendation_revisions")>>

Upgrade022 ==
  <<Owned("recommendation_reevaluations", {Cascade("recommendations")}),
    Guard("recommendation_reevaluations")>>
Downgrade022 == <<Unguard("recommendation_reevaluations"), Drop("recommendation_reevaluations")>>

Upgrade023 == <<Do("key")>>
Downgrade023 == <<Do("unkey")>>

Upgrade024 == <<Table("market_cases", {NoAction("symbols")})>>
Downgrade024 == <<Drop("market_cases")>>

\* The column comes back nullable.
Upgrade025 == <<Relax("memory_embeddings", "embedding_json")>>
Downgrade025 == <<>>

Upgrades ==
  <<Upgrade001, Upgrade002, Upgrade003, Upgrade004, Upgrade005, Upgrade006, Upgrade007, Upgrade008,
    Upgrade009, Upgrade010, Upgrade011, Upgrade012, Upgrade013, Upgrade014, Upgrade015, Upgrade016,
    Upgrade017, Upgrade018, Upgrade019, Upgrade020, Upgrade021, Upgrade022, Upgrade023, Upgrade024,
    Upgrade025>>
Downgrades ==
  <<Downgrade001, Downgrade002, Downgrade003, Downgrade004, Downgrade005, Downgrade006, Downgrade007,
    Downgrade008, Downgrade009, Downgrade010, Downgrade011, Downgrade012, Downgrade013, Downgrade014,
    Downgrade015, Downgrade016, Downgrade017, Downgrade018, Downgrade019, Downgrade020, Downgrade021,
    Downgrade022, Downgrade023, Downgrade024, Downgrade025>>
HeadRevision == Len(Upgrades)

\* A transaction of statements: the first that fails undoes all of them, and none follows it.
Then(d, s) == IF d.ok THEN Apply(d, s) ELSE d
Execute(d, statements) ==
  IF ~d.ok THEN d
  ELSE LET after[i \in 0..Len(statements)] ==
             IF i = 0 THEN d ELSE Then(after[i - 1], statements[i])
       IN  after[Len(statements)]

\* alembic upgrade <target>: every pending migration in one transaction (env.py).
UpgradeTo(d, from, target) ==
  LET after[n \in from..target] ==
        IF n = from THEN d ELSE Execute(after[n - 1], Upgrades[n])
  IN  after[target]
=============================================================================
