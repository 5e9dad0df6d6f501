-------------------------------- MODULE Models --------------------------------
(***************************************************************************)
(* The tables and references the ORM of app/models declares.  The unit of  *)
(* work orders the inserts of one flush by these references, not by the    *)
(* ones the migrations created.                                            *)
(***************************************************************************)
EXTENDS Schema

\* A mapped class: its table and the references it declares; the mixin adds the two home keys.
Mapped(t, refs) == t :> refs
WorkspaceOwnedMixin(t, refs) == Mapped(t, refs \cup Home)

AlertModel == WorkspaceOwnedMixin("alerts", {NoAction("users"), SetNull("symbols")})
ApiKeyModel == WorkspaceOwnedMixin("api_keys", {})
AuthTokenModel == Mapped("auth_tokens", {Cascade("users")})
BillingModel == Mapped("billing_webhook_events", {})
CandleModel == Mapped("candles", {Cascade("symbols")})
AnnotationModel == WorkspaceOwnedMixin("chart_annotations", {})
ConversationModels ==
  WorkspaceOwnedMixin("conversations", {Cascade("users")})
    @@ WorkspaceOwnedMixin("messages", {Cascade("conversations")})
FeatureFlagModel == Mapped("feature_flags", {})
JournalModel == WorkspaceOwnedMixin("journal_entries", {NoAction("users")})
LearningModels ==
  WorkspaceOwnedMixin("agent_runs", {NoAction("users")})
    @@ Mapped("agent_traces", {Cascade("agent_runs")})
    @@ WorkspaceOwnedMixin("outcome_records", {}) @@ WorkspaceOwnedMixin("strategy_stats", {})
    @@ WorkspaceOwnedMixin("symbol_profiles", {}) @@ WorkspaceOwnedMixin("calibration_bins", {})
ArtifactModels ==
  Mapped("market_events", {Cascade("symbols")}) @@ Mapped("structures", {Cascade("symbols")})
    @@ Mapped("price_zones", {Cascade("symbols")})
MarketCaseModel == Mapped("market_cases", {NoAction("symbols")})
McpModels ==
  WorkspaceOwnedMixin("mcp_sessions", {NoAction("users")})
    @@ WorkspaceOwnedMixin("mcp_audit_events", {SetNull("mcp_sessions")})
MemoryModels ==
  WorkspaceOwnedMixin("agent_episodes", {}) @@ WorkspaceOwnedMixin("agent_memories", {})
    @@ WorkspaceOwnedMixin("memory_embeddings", {}) @@ WorkspaceOwnedMixin("lessons", {})
ModelConfigModel == Mapped("model_configs", {})
NewsModels == Mapped("news_events", {}) @@ WorkspaceOwnedMixin("research_items", {})
NotificationModel == WorkspaceOwnedMixin("notifications", {NoAction("users")})
OandaConnectionModel == WorkspaceOwnedMixin("oanda_connections", {})
OrganizationModel == Mapped("organizations", {})
OrganizationMemberModel == Mapped("organization_members", {Cascade("organizations"), Cascade("users")})
PlanModel == Mapped("plans", {})
PlatformSecretModel == Mapped("platform_secrets", {})
PromptModel == Mapped("prompt_versions", {})
RbacModels ==
  Mapped("roles", {}) @@ Mapped("permissions", {})
    @@ Mapped("role_permissions", {Cascade("roles"), Cascade("permissions")})
RecommendationModel == WorkspaceOwnedMixin("recommendations", {NoAction("symbols")})
ThesisModel == WorkspaceOwnedMixin("theses", {Cascade("recommendations")})
RevisionModels ==
  WorkspaceOwnedMixin("recommendation_revisions", {Cascade("recommendations")})
    @@ WorkspaceOwnedMixin("recommendation_reevaluations", {Cascade("recommendations")})
SessionModel == Mapped("sessions", {Cascade("users")})
\* TenantOwnedMixin has the column and no reference.
SubscriptionModel == Mapped("subscriptions", {NoAction("plans")})
SymbolModel == Mapped("symbols", {})
TelegramModels ==
  WorkspaceOwnedMixin("telegram_links", {NoAction("users")})
    @@ WorkspaceOwnedMixin("telegram_link_codes", {NoAction("users")})
ThesisEventModel == WorkspaceOwnedMixin("thesis_events", {})
TradeModel == WorkspaceOwnedMixin("trades", {SetNull("recommendations"), NoAction("symbols")})
UsageModel == WorkspaceOwnedMixin("usage_records", {})
UserModel == Mapped("users", {})
\* Slip for a mutant run: the item's column without its reference.
ItemsWithoutSymbol ==
  WorkspaceOwnedMixin("watchlists", {}) @@ Mapped("watchlist_items", {Cascade("watchlists")})

WatchlistModels ==
  WorkspaceOwnedMixin("watchlists", {}) @@ Mapped("watchlist_items", {Cascade("watchlists"), NoAction("symbols")})
WorkspaceModel == Mapped("workspaces", {Cascade("organizations"), Cascade("users")})
WorkspaceMemberModel ==
  Mapped("workspace_members", {NoAction("roles"), Cascade("users")} \cup Home)

Orm ==
  AlertModel @@ ApiKeyModel @@ AuthTokenModel @@ BillingModel @@ CandleModel @@ AnnotationModel
    @@ ConversationModels @@ FeatureFlagModel @@ JournalModel @@ LearningModels @@ ArtifactModels
    @@ MarketCaseModel @@ McpModels @@ MemoryModels @@ ModelConfigModel @@ NewsModels
    @@ NotificationModel @@ OandaConnectionModel @@ OrganizationModel @@ OrganizationMemberModel
    @@ PlanModel @@ PlatformSecretModel @@ PromptModel @@ RbacModels @@ RecommendationModel
    @@ ThesisModel @@ RevisionModels @@ SessionModel @@ SubscriptionModel @@ SymbolModel
    @@ TelegramModels @@ ThesisEventModel @@ TradeModel @@ UsageModel @@ UserModel
    @@ WatchlistModels @@ WorkspaceModel @@ WorkspaceMemberModel

\* A workspace, and its subscription, come in a flush after their organization; an API key
\* belongs to the user of the request.
FlushedBefore == {<<"subscriptions", "organizations">>, <<"api_keys", "users">>}

Parents(refs) == {r.to : r \in refs}
-----------------------------------------------------------------------------
\* The schema of a database: what it holds of structure, without its rows.
Structure(d) ==
  <<d.tables, d.owned, d.guards, d.enabled, d.forced, d.granted, d.role, d.demands, d.candles, d.keyed>>

FreshStructure == Structure(UpgradeTo(EmptyDatabase, 0, HeadRevision))

\* Every workspace-owned table but the membership boundary filters its rows by workspace,
\* forced on the table's owner too, every child table of one filters through its parent, and
\* the runtime role can insert into each.
Serves(d) ==
  \A t \in Names(d) :
    /\ CanWrite(d, t)
    /\ t \in d.owned \ {"workspace_members"} =>
         t \in d.enabled \cap d.forced /\ [table |-> t, via |-> t] \in d.guards
    /\ t \notin d.owned =>
         \A r \in d.tables[t] : r.to \in d.owned =>
           t \in d.enabled \cap d.forced /\ [table |-> t, via |-> r.to] \in d.guards

\* The ORM maps exactly the tables there are.  Every reference the database enforces is one
\* the unit of work orders inserts by, or its parent comes from an earlier flush; the only
\* references it orders by for nothing are the home keys.
MatchesOrm(d) ==
  /\ Names(d) = DOMAIN Orm
  /\ \A t \in Names(d) :
       /\ \A p \in Parents(d.tables[t]) \ Parents(Orm[t]) : <<t, p>> \in FlushedBefore
       /\ Parents(Orm[t]) \subseteq Parents(d.tables[t]) \cup Parents(Home)
=============================================================================
