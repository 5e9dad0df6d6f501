-------------------------------- MODULE Tools --------------------------------
(***************************************************************************)
(* The read tools of agents/tools, one definition per tool, and the        *)
(* dispatcher both callers share: the decision stage's browse loop and the *)
(* MCP transport.  Of a payload only the owners of the rows it was made    *)
(* from are kept; the tables and their policies are those of Schema at its *)
(* head revision.                                                          *)
(***************************************************************************)
EXTENDS FiniteSets, TLC

DB == INSTANCE Schema
AtHead == DB!UpgradeTo(DB!EmptyDatabase, 0, DB!HeadRevision)
Guarded == {g.table : g \in AtHead.guards}

\* reads: the tables; by: the scope columns the query itself compares, beyond the policy;
\* quiet: a failing statement is swallowed inside the tool.
Platform(tables) == [scope |-> "platform", reads |-> tables, by |-> {}, quiet |-> FALSE]
Workspace(tables, columns) ==
  [scope |-> "workspace", reads |-> tables, by |-> columns, quiet |-> FALSE]
Quiet(tool) == [tool EXCEPT !.quiet = TRUE]

Bars == {"symbols", "candles"}
-----------------------------------------------------------------------------
\* agents/tools/registry: stored candles and what is computed from them.
GetCandles == Platform(Bars)
GetIndicators == Platform(Bars)
GetStructure == Platform(Bars)
GetChartImage == Quiet(Platform(Bars))  \* a frame that cannot be drawn is reported as missing
GetDataCoverage == Platform(Bars)
MarketTools ==
  [get_candles |-> GetCandles, get_indicators |-> GetIndicators, get_structure |-> GetStructure,
   get_chart_image |-> GetChartImage, get_data_coverage |-> GetDataCoverage]

\* agents/tools/engine_tools: the engines over stored candles, the calendar, the news.
GetGeometry == Platform(Bars)
GetZones == Platform(Bars)
GetLiquidity == Platform(Bars)
GetVolatilityRegime == Platform(Bars)
LoadLadder == Bars
GetMtfBias == Platform(LoadLadder)
GetPriceContext == Platform(Bars)
GetTimeframeRead == Platform(LoadLadder)
GetSessionStatus == Platform({})
GetNews == Platform({"news_events"})
EngineTools ==
  [get_geometry |-> GetGeometry, get_zones |-> GetZones, get_liquidity |-> GetLiquidity,
   get_volatility_regime |-> GetVolatilityRegime, get_mtf_bias |-> GetMtfBias,
   get_price_context |-> GetPriceContext, get_timeframe_read |-> GetTimeframeRead,
   get_session_status |-> GetSessionStatus, get_news |-> GetNews]

\* agents/tools/record_tools: the workspace's own rows.
Home == {"workspace"}
Own == {"workspace", "user"}
GetWorkspaceContext == Workspace({}, Home)
ListRecommendations == Workspace({"recommendations", "symbols"}, Home)
GetRecommendation == Workspace({"recommendations", "symbols"}, Home)
GetRecommendationRevisions == Workspace({"recommendations", "recommendation_revisions"}, Home)
GetReevaluationHistory == Workspace({"recommendations", "recommendation_reevaluations"}, Home)
ListTrades == Workspace({"trades", "symbols"}, Home)
ListJournalEntries == Workspace({"journal_entries"}, Own)
\* Slip for a mutant run: the alerts of everyone in the workspace.
ListEveryAlert == Workspace({"alerts"}, Home)
ListAlerts == Workspace({"alerts"}, Own)
ListWatchlists == Workspace({"watchlists", "watchlist_items", "symbols", "candles"}, Home)
ListChartAnnotations == Workspace({"chart_annotations"}, Home)
ListTheses == Workspace({"theses"}, Home)
RecordTools ==
  [get_workspace_context |-> GetWorkspaceContext, list_recommendations |-> ListRecommendations,
   get_recommendation |-> GetRecommendation,
   get_recommendation_revisions |-> GetRecommendationRevisions,
   get_reevaluation_history |-> GetReevaluationHistory, list_trades |-> ListTrades,
   list_journal_entries |-> ListJournalEntries, list_alerts |-> ListAlerts,
   list_watchlists |-> ListWatchlists, list_chart_annotations |-> ListChartAnnotations,
   list_theses |-> ListTheses]

\* agents/tools/learning_tools: the workspace's record, where the policy is often the only
\* scoping, and the market's case memory, which belongs to nobody.
GetStrategyStats == Workspace({"strategy_stats"}, {})
GetStrategySupport == Workspace({"strategy_stats"}, {})
GetCalibration == Workspace({"calibration_bins"}, Home)
GetTradingDna == Workspace({"outcome_records", "recommendations", "trades"}, {})
ListLessons == Workspace({"lessons"}, {})
SearchMemories ==
  Quiet(Workspace({"agent_memories", "calibration_bins", "symbol_profiles", "memory_embeddings"}, Home))
GetPerformanceSummary ==
  Workspace({"recommendations", "trades", "outcome_records", "calibration_bins"}, Home)
FingerprintProbe == Bars
FindSimilarCases == Platform(FingerprintProbe \cup {"market_cases"})
GetCaseOutcomeStats == Platform(FingerprintProbe \cup {"market_cases"})
LearningTools ==
  [get_strategy_stats |-> GetStrategyStats, get_strategy_support |-> GetStrategySupport,
   get_calibration |-> GetCalibration, get_trading_dna |-> GetTradingDna,
   list_lessons |-> ListLessons, search_memories |-> SearchMemories,
   get_performance_summary |-> GetPerformanceSummary,
   find_similar_cases |-> FindSimilarCases, get_case_outcome_stats |-> GetCaseOutcomeStats]

\* A name registered twice fails the import, so none is.
Families == <<MarketTools, EngineTools, RecordTools, LearningTools>>
ASSUME RegistryAssumption ==
  \A i, j \in DOMAIN Families : i # j => DOMAIN Families[i] \cap DOMAIN Families[j] = {}
\* The tables whose policy is a query's only scoping have one; those a platform tool reads
\* belong to nobody.
ASSUME PoliciesAssumption ==
  /\ {"strategy_stats", "outcome_records", "recommendations", "trades", "lessons"} \subseteq Guarded
  /\ {"symbols", "candles", "news_events", "market_cases"} \cap (AtHead.owned \cup Guarded) = {}
Family(name) == CHOOSE i \in DOMAIN Families : name \in DOMAIN Families[i]
TOOLS == [name \in UNION {DOMAIN Families[i] : i \in DOMAIN Families} |-> Families[Family(name)][name]]
-----------------------------------------------------------------------------
\* The owners of the rows of a table that a query sees: those the policy lets through the
\* transaction's binding, less those the query's own columns exclude.  A shared table's rows
\* have no owner.
Seen(table, by, owners, bound, cx) ==
  IF table \notin AtHead.owned \cup Guarded THEN {}
  ELSE {o \in owners : /\ table \in Guarded => o.workspace = bound
                       /\ "workspace" \in by => o.workspace = cx.workspace
                       /\ "user" \in by => o.user = cx.user}

NoTenant == [user |-> "-", workspace |-> "-"]
Failure == {"none", "argument", "statement"}

\* dispatch_tool: what comes back, and the state of the transaction it leaves.  An error is
\* data; after a failed statement the transaction refuses every further one.
Dispatch(name, cx, tx, bound, owners, failure) ==
  LET tool  == TOOLS[name]
      fails == tool.reads # {} /\ (tx = "aborted" \/ failure = "statement")
      Answer(error, t, rows) == [error |-> error, tx |-> t, rows |-> rows]
  IN CASE name \notin DOMAIN TOOLS                   -> Answer("unknown_tool", tx, {})
       [] tool.scope = "workspace" /\ cx = NoTenant  -> Answer("workspace_context_required", tx, {})
       [] failure = "argument"                       -> Answer("ValueError", tx, {})
       [] fails /\ tool.quiet                        -> Answer("none", "aborted", {})
       [] fails /\ ~tool.quiet                       -> Answer("DBAPIError", "aborted", {})
       [] OTHER -> Answer("none", tx, UNION {Seen(t, tool.by, owners, bound, cx) : t \in tool.reads})

\* mcp/runtime: the names published before the registry existed.
TOOL_ALIASES ==
  "market.get_candles" :> "get_candles" @@ "chart.get_annotations" :> "list_chart_annotations"
    @@ "recommendation.get" :> "get_recommendation"
    @@ "workspace.get_context" :> "get_workspace_context"
ResolveToolName(name) == IF name \in DOMAIN TOOL_ALIASES THEN TOOL_ALIASES[name] ELSE name
=============================================================================
