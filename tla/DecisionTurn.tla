---------------------------- MODULE DecisionTurn ----------------------------
(***************************************************************************)
(* One analysis, from the readings to the verdict: the gates of            *)
(* agents/orchestrator in their order, the synthesizer's attempts and      *)
(* repairs, the browse loop with its tools, the provider's retries, and    *)
(* the adversarial review of services/analysis_service.  Prices are kept   *)
(* as their side of entry; a conversation as its turns, without wording.   *)
(***************************************************************************)
EXTENDS Integers, Sequences, FiniteSets, SequencesExt, FiniteSetsExt

CONSTANTS
  Markets,            \* what the readings can find (see Reading)
  Shapes,             \* the plans a reply can describe (see Shape)
  Requests,           \* the tool calls a reply can ask for, each a name with its arguments
  Errors,             \* what a provider can fail with (see Normalized)
  MaxToolIterations,  \* tools/loop: 5
  MaxRepairs,         \* synthesizer: 2
  MaxRetries          \* providers/llm/common: 2

ASSUME BoundsAssumption == {MaxToolIterations, MaxRepairs, MaxRetries} \subseteq Nat
ASSUME RequestsAssumption == \A tools \in Requests : Len(tools) \in Nat

VARIABLES
  market,     \* what the readings of this run find
  pc,         \* "gates", "waiting" for the provider, "review" or "done"
  attempt,    \* attempts of the synthesizer, the current one included
  problem,    \* what the last rejected reply was rejected for
  talk,       \* the synthesizer's conversation
  loop,       \* the browse loop's conversation, as it is sent
  iteration,  \* browse rounds of this attempt
  cache,      \* tool calls already made in this attempt
  tries,      \* retries of the pending completion
  sent,       \* completions asked for, retries left out
  decision    \* the decision, then the verdict
vars == <<market, pc, attempt, problem, talk, loop, iteration, cache, tries, sent, decision>>

Minutes == [M1 |-> 1, M5 |-> 5, M15 |-> 15]

\* missing: readings the run lacks.  source: the series fetched; chosen: the frame selected;
\* age: minutes since the newest source candle opened; measured: some level was measured.
Reading == [missing : SUBSET {"candles", "engines", "frame", "cost", "session", "prompt", "provider"},
            source : DOMAIN Minutes, chosen : DOMAIN Minutes, age : Nat,
            measured : BOOLEAN, news : {"unconfigured", "none", "old", "fresh"},
            bias : {"BULLISH", "BEARISH", "NEUTRAL"}, exhausted : BOOLEAN, reviewable : BOOLEAN]
ASSUME ReadingsAssumption == Markets \subseteq Reading

\* Where a plan's stop and targets lie, seen from its entry.
Side == {"below", "at", "above", "both"}
Shape == [direction : {"BUY", "SELL", "WAIT"}, stop : Side, targets : Side,
          type : {"IMMEDIATE", "ANTICIPATORY", "CONDITIONAL"}, condition : BOOLEAN,
          confidence : {"none", "low", "high"}, grounded : BOOLEAN, viable : BOOLEAN]

-----------------------------------------------------------------------------
\* The evidence gate: advisory checks warn, blocking ones refuse.  The checks on structure,
\* liquidity, zones and bias repeat the engine gate; no calendar feeds the event blackout.
StalenessBars == 3
Stale(m) == m.age > StalenessBars * Minutes[m.chosen]
Check(name, blocking, failed) == [name |-> name, blocking |-> blocking, failed |-> failed]
Evidence(m) == <<Check("EVIDENCE_TRADING_SESSION", TRUE, "session" \in m.missing),
                 Check("EVIDENCE_MARKET_INTELLIGENCE", FALSE, m.news = "old"),
                 Check("EVIDENCE_LIVE_PRICE", TRUE, Stale(m))>>

Blocking(m) == {i \in 1..3 : Evidence(m)[i].blocking /\ Evidence(m)[i].failed}
EvidenceReason(m) == IF Blocking(m) = {} THEN "none" ELSE Evidence(m)[Min(Blocking(m))].name

\* The gates in the order they are tried: the first thing missing names the refusal.
FirstMissing(m) ==
  LET gates == <<<<"candles", "NO_CANDLES">>, <<"engines", "ENGINE_UNAVAILABLE">>,
                 <<"frame", "NO_VIABLE_TIMEFRAME">>, <<"cost", "PLAN_NOT_VIABLE">>,
                 <<"evidence", EvidenceReason(m)>>, <<"prompt", "PROMPT_UNAVAILABLE">>,
                 <<"provider", "LLM_UNAVAILABLE">>>>
      shut == {i \in 1..7 : \/ gates[i][1] \in m.missing
                            \/ gates[i][1] = "evidence" /\ gates[i][2] # "none"}
  IN  IF shut = {} THEN "none" ELSE gates[Min(shut)][2]

\* DecisionOutput: what a completed decision must carry.  The sides are compared with each
\* other, never with the direction.
Valid(p) ==
  /\ p.direction # "WAIT" /\ p.confidence # "none"
  /\ \/ p.stop = "below" /\ p.targets = "above"
     \/ p.stop = "above" /\ p.targets = "below"
  /\ p.type = "CONDITIONAL" => p.condition

\* A plan's prices are compared with what the engines measured, if they measured anything.
Grounded(p, m) == ~m.measured \/ p.grounded

\* The adversarial gate and the status that follows from it.
Issues(p, m) ==
  {i \in {"mtf", "exhaustion", "confidence"} :
     CASE i = "mtf"        -> <<p.direction, m.bias>> \in {<<"BUY", "BEARISH">>, <<"SELL", "BULLISH">>}
       [] i = "exhaustion" -> m.exhausted
       [] i = "confidence" -> p.confidence = "low"}
StatusOf(p, m) == IF Issues(p, m) = {} THEN "READY" ELSE "FORMING"

\* An error of a provider: its HTTP status (0 without one) and what its message says.
\* normalize_provider_exception decides whether the call is tried again,
Normalized(e) ==
  IF e.late THEN "timeout"
  ELSE IF e.status \in {401, 403} \/ "authentication" \in e.says THEN "auth"
  ELSE IF e.status \in {402, 429} \/ {"quota", "credit", "insufficient"} \cap e.says # {} THEN "rate_limit"
  ELSE IF e.status >= 500 THEN "upstream"
  ELSE IF "timed out" \in e.says THEN "timeout" ELSE "other"
Retryable(e) == Normalized(e) \in {"timeout", "rate_limit", "upstream"}

\* and classify_error, reading the message again, under which name the run is refused.  The
\* order of the branches is the logic: out of credit is not a rate limit.
Branches(e) ==
  <<<<e.status \in {401, 403} \/ "api key" \in e.says, "auth">>,
    <<{"billing", "no credits"} \cap e.says # {}, "provider_billing">>,
    <<e.status = 429 \/ "quota" \in e.says, "rate_limit">>,
    <<e.status \in {400, 404, 409, 413, 422} \/ "context length" \in e.says, "provider_bad_request">>,
    <<e.status \in {500, 502, 503, 504} \/ "overloaded" \in e.says, "provider_unavailable">>,
    <<e.late \/ "timed out" \in e.says, "timeout">>,
    <<"connection refused" \in e.says, "network">>,
    <<"insufficient" \in e.says, "insufficient_data">>,
    <<"not configured" \in e.says, "configuration">>,
    <<TRUE, "unknown">>>>
Code(e) == SelectSeq(Branches(e), LAMBDA b : b[1])[1][2]

KindByCode == [auth |-> "PROVIDER_AUTH", rate_limit |-> "PROVIDER_RATE_LIMIT",
               provider_billing |-> "PROVIDER_RATE_LIMIT", provider_unavailable |-> "PROVIDER_UNAVAILABLE",
               provider_bad_request |-> "PROVIDER_BAD_REQUEST", timeout |-> "TIMEOUT",
               configuration |-> "LLM_NOT_CONFIGURED"]
Kind(code) == IF code \in DOMAIN KindByCode THEN KindByCode[code] ELSE "UNKNOWN"
DegradedReason == [PROVIDER_AUTH |-> "LLM_UNAVAILABLE", PROVIDER_RATE_LIMIT |-> "LLM_RATE_LIMITED",
                   PROVIDER_UNAVAILABLE |-> "LLM_UNAVAILABLE", PROVIDER_BAD_REQUEST |-> "LLM_BAD_REQUEST",
                   TIMEOUT |-> "LLM_TIMEOUT", LLM_NOT_CONFIGURED |-> "LLM_UNAVAILABLE",
                   UNKNOWN |-> "LLM_UNAVAILABLE", LEVELS_NOT_GROUNDED |-> "LEVELS_NOT_GROUNDED",
                   REPAIR_EXHAUSTED |-> "MODEL_OUTPUT_INVALID"]
ExhaustedKind(last) == IF last = "ungrounded" THEN "LEVELS_NOT_GROUNDED" ELSE "REPAIR_EXHAUSTED"

-----------------------------------------------------------------------------
Undecided == [kind |-> "undecided"]
Refused(reason) == [kind |-> "refused", reason |-> reason, status |-> "INVALIDATED"]
Failed == [kind |-> "failed"]
Completed(p) == [kind |-> "completed", plan |-> p]
Published(p, s) == [kind |-> "published", plan |-> p, status |-> s]

Turn(role) == [role |-> role, calls |-> <<>>]
Calls(ids) == [role |-> "assistant", calls |-> ids]
Result(id) == [role |-> "result", calls |-> <<id>>]

Init ==
  /\ market \in Markets
  /\ pc = "gates" /\ attempt = 0 /\ problem = "none"
  /\ talk = <<>> /\ loop = <<>> /\ iteration = 0 /\ cache = {} /\ tries = 0 /\ sent = 0
  /\ decision = Undecided

\* run_tool_loop starts on a copy of the conversation, with a cache of its own.
StartLoop(conversation) ==
  /\ talk' = conversation /\ loop' = conversation
  /\ iteration' = 0 /\ cache' = {} /\ tries' = 0 /\ sent' = sent + 1

Settle(d) ==
  /\ decision' = d /\ pc' = "review"
  /\ UNCHANGED <<market, attempt, problem, talk, loop, iteration, cache, tries, sent>>

\* run_analysis_orchestrator up to the first completion.
PassGates ==
  /\ pc = "gates"
  /\ IF FirstMissing(market) # "none" THEN Settle(Refused(FirstMissing(market)))
     ELSE /\ attempt' = 1 /\ pc' = "waiting"
          /\ StartLoop(<<Turn("system"), Turn("user")>>)
          /\ UNCHANGED <<market, problem, decision>>

\* Slip for a mutant run: the first request is not counted among the tries.
FailsLate(error) ==
  /\ pc = "waiting"
  /\ IF Retryable(error) /\ tries <= MaxRetries
     THEN tries' = tries + 1 /\ UNCHANGED <<market, pc, attempt, problem, talk, loop, iteration, cache, sent, decision>>
     ELSE Settle(Refused(DegradedReason[Kind(Code(error))]))

\* with_timeout_retry: the same request again, or the failure is classified and ends the run.
ProviderFails(error) ==
  /\ pc = "waiting"
  /\ IF Retryable(error) /\ tries < MaxRetries
     THEN tries' = tries + 1 /\ UNCHANGED <<market, pc, attempt, problem, talk, loop, iteration, cache, sent, decision>>
     ELSE Settle(Refused(DegradedReason[Kind(Code(error))]))

\* Slip for a mutant run: the request to answer comes a round late.
BrowsingOnce == iteration <= MaxToolIterations

\* The loop still offers tools: it has rounds left.
Browsing == iteration < MaxToolIterations

\* Slip for a mutant run: a call served from the cache is not answered again.
AnswersOnce(tools) ==
  SelectSeq([i \in 1..Len(tools) |-> IF tools[i] \in cache THEN Turn("skip") ELSE Result(<<iteration + 1, i>>)],
            LAMBDA t : t.role # "skip")

\* One result per call announced, in its order; the round's ids are fresh.
Ids(tools) == [i \in 1..Len(tools) |-> <<iteration + 1, i>>]
Answers(tools) == [i \in 1..Len(tools) |-> Result(<<iteration + 1, i>>)]

\* A reply that asks for tools: the calls, a result for each (from the cache if the same call
\* was made before), and after the last round the request to answer without tools.
UseTools(tools) ==
  /\ pc = "waiting" /\ Browsing
  /\ iteration' = iteration + 1 /\ cache' = cache \cup ToSet(tools)
  /\ loop' = loop \o <<Calls(Ids(tools))>> \o Answers(tools)
                  \o (IF iteration + 1 < MaxToolIterations THEN <<>> ELSE <<Turn("user")>>)
  /\ tries' = 0 /\ sent' = sent + 1
  /\ UNCHANGED <<market, pc, attempt, problem, talk, decision>>

\* A rejected reply is put before the model with the reason, in a loop of its own, as long as
\* attempts are left.
Repair(why) ==
  IF attempt <= MaxRepairs
  THEN /\ attempt' = attempt + 1 /\ problem' = why
       /\ StartLoop(talk \o <<Turn("assistant"), Turn("user")>>)
       /\ UNCHANGED <<market, pc, decision>>
  ELSE Settle(Refused(DegradedReason[ExhaustedKind(why)]))

RepliesText == pc = "waiting" /\ Repair("not json")

\* Slip for a mutant run: the model's plan is not priced again, the geometric one was.
Unpriced(plan) == Completed(plan)

\* The model's plan goes through the cost gate the geometric one went through.
Priced(plan) == IF plan.viable THEN Completed(plan) ELSE Refused("PLAN_NOT_VIABLE")

\* A reply with a plan: validated, compared with the evidence, then priced.
RepliesPlan(plan) ==
  /\ pc = "waiting"
  /\ IF ~Valid(plan) THEN Repair("invalid")
     ELSE IF ~Grounded(plan, market) THEN Repair("ungrounded")
     ELSE Settle(Priced(plan))

\* run_analysis after the run: the answer is dated by the newest candle, and without one the
\* request fails; a degraded decision is stored as it is, a completed one is reviewed; a review
\* that cannot run refuses it.
Review ==
  /\ pc = "review" /\ pc' = "done"
  /\ decision' = IF "candles" \in market.missing THEN Failed
                 ELSE IF decision.kind = "refused" THEN decision
                 ELSE IF ~market.reviewable THEN Refused("ADVERSARIAL_UNAVAILABLE")
                 ELSE Published(decision.plan, StatusOf(decision.plan, market))
  /\ UNCHANGED <<market, attempt, problem, talk, loop, iteration, cache, tries, sent>>

Next ==
  \/ PassGates
  \/ \E error \in Errors : ProviderFails(error)
  \/ \E tools \in Requests : UseTools(tools)
  \/ RepliesText
  \/ \E plan \in Shapes : RepliesPlan(plan)
  \/ Review

Spec == Init /\ [][Next]_vars /\ WF_vars(Next)
-----------------------------------------------------------------------------
\* Types and the bounds of the two loops.
TypeOK ==
  /\ market \in Reading /\ pc \in {"gates", "waiting", "review", "done"}
  /\ attempt \in 0..MaxRepairs + 1 /\ iteration \in 0..MaxToolIterations
  /\ tries \in 0..MaxRetries /\ cache \subseteq UNION {ToSet(tools) : tools \in Requests}
  /\ problem \in {"none", "not json", "invalid", "ungrounded"}
  /\ decision.kind \in {"undecided", "refused", "completed", "published", "failed"}

\* Whatever the model asks for and however often it is repaired, a run costs a bounded number
\* of completions: one per browse round and one to answer, for each attempt.
CompletionsAreBounded == sent <= attempt * (MaxToolIterations + 1)

\* The messages as Anthropic gets them: results become user turns, consecutive ones merge.
WireTurn(out, t) ==
  IF t.role = "system" THEN out
  ELSE IF t.role # "result" THEN Append(out, t)
  ELSE IF out # <<>> /\ Last(out).role = "user" /\ Last(out).calls # <<>>
       THEN [out EXCEPT ![Len(out)].calls = @ \o t.calls]
       ELSE Append(out, [role |-> "user", calls |-> t.calls])
Wire(conversation) ==
  LET out[i \in 0..Len(conversation)] ==
        IF i = 0 THEN <<>> ELSE WireTurn(out[i - 1], conversation[i])
  IN  out[Len(conversation)]

\* The turns after an assistant turn are the results of its calls, in their order.
AnsweredInOrder(conversation) ==
  \A i \in 1..Len(conversation) :
    conversation[i].role = "assistant" =>
      \A k \in 1..Len(conversation[i].calls) :
        /\ i + k <= Len(conversation)
        /\ conversation[i + k] = Result(conversation[i].calls[k])

\* The turn after an assistant turn with calls is a user turn with their results alone.
Paired(wire) ==
  \A i \in 1..Len(wire) :
    (wire[i].role = "assistant" /\ wire[i].calls # <<>>) =>
      i < Len(wire) /\ wire[i + 1] = [role |-> "user", calls |-> wire[i].calls]

\* Every request a provider gets is one it can pair: what follows an assistant turn with
\* calls is exactly the results of these calls, in both wire forms.
EveryCallIsAnswered == pc = "waiting" => AnsweredInOrder(loop) /\ Paired(Wire(loop))

\* What Decision is told of a reading: the names of everything it lacks, in no order.
NameOf == [candles |-> "NO_CANDLES", engines |-> "ENGINE_UNAVAILABLE", frame |-> "NO_VIABLE_TIMEFRAME",
           cost |-> "PLAN_NOT_VIABLE", session |-> "EVIDENCE_TRADING_SESSION",
           prompt |-> "PROMPT_UNAVAILABLE", provider |-> "LLM_UNAVAILABLE"]
MissingIn(m) == {NameOf[w] : w \in m.missing} \cup (IF Stale(m) THEN {"EVIDENCE_LIVE_PRICE"} ELSE {})

\* The run gives the verdict that Decision promises, once, and gives one in the end.
Sound(p, m) == Valid(p) /\ Grounded(p, m) /\ p.viable
Promise == INSTANCE Decision WITH
  Readings <- Markets,
  Trouble <- {DegradedReason[k] : k \in DOMAIN DegradedReason} \cup {"PLAN_NOT_VIABLE", "ADVERSARIAL_UNAVAILABLE"},
  MissingIn <- MissingIn,
  Sound <- Sound,
  StatusFor <- StatusOf,
  reading <- market,
  verdict <- IF pc = "done" THEN decision ELSE Undecided
KeepsItsPromise == Promise!Spec
-----------------------------------------------------------------------------
\* Not kept by the code (README, section 6): what four of its comments say.

\* to_anthropic_messages: no two user turns in a row.
TurnsAlternate ==
  pc = "waiting" =>
    LET wire == Wire(loop) IN
    \A i \in 1..Len(wire) - 1 : ~(wire[i].role = "user" /\ wire[i + 1].role = "user")

\* PlanLevels: the ordering is checked, so that no consumer has to.
PlanFitsItsDirection ==
  decision.kind = "published" =>
    (decision.plan.direction = "BUY" <=> decision.plan.stop = "below")

\* Stale means that the newest candle is more than three bars of the decision frame old: a
\* run on a series that is up to date is not refused for it.
StaleMeansOld ==
  decision = Refused("EVIDENCE_LIVE_PRICE") => market.age > Minutes[market.source]

\* A missing input gets the same answer as every other one: the run is refused, under its name.
MissingInputsAreRefused ==
  pc = "done" /\ FirstMissing(market) # "none" => decision = Refused(FirstMissing(market))
=============================================================================
