---------------------------- MODULE MarketStream ----------------------------
(***************************************************************************)
(* One instrument's one-minute candles: the supervised price feed cuts the *)
(* ticks of the pricing stream into candles in batches of one transaction, *)
(* and the REST writers (analysis, gap repair, history) upsert what the    *)
(* provider answered.  A candle is kept as its low and high; open, close   *)
(* and volume follow the same writes.                                      *)
(***************************************************************************)
EXTENDS Integers, Sequences, FiniteSets

CONSTANTS
  Price,        \* the prices the market may trade at
  MaxMinute,    \* bound: the clock
  MaxWire,      \* bound: ticks sent and not yet read
  BatchTicks,   \* BATCH_TICKS: ticks of one run_market_stream_cycle
  GapExtra,     \* candles a gap repair asks for beyond the gaps it found
  PageSize,     \* candles an analysis asks for
  None          \* no candle, no price

ASSUME PriceAssumption == Price \subseteq Int /\ Price # {}
ASSUME BoundsAssumption ==
  {MaxMinute, MaxWire, BatchTicks, GapExtra, PageSize} \subseteq Nat /\ BatchTicks > 0

Minutes == 0..MaxMinute
PriceRange == {r \in [low : Price, high : Price] : r.low <= r.high}
Candle == [range : PriceRange, complete : BOOLEAN]
Tick == [minute : Minutes, price : Price]

ASSUME NoneAssumption == None \notin PriceRange /\ None \notin Candle /\ None \notin Tick

VARIABLES
  minute,   \* the clock, in minutes
  traded,   \* per minute, the range the market has traded in it: what the provider knows
  last,     \* the tick of the last trade
  wire,     \* ticks sent on the open connection and not yet read, oldest first
  stream,   \* the generator stream_ticks: "connecting", "open", or "finished"
  feed,     \* the running cycle: its manager, its aggregator and its transaction
  store,    \* committed candles
  answer,   \* candles a REST writer has fetched and not yet upserted
  partial   \* minutes of which some cycle has missed a part

vars == <<minute, traded, last, wire, stream, feed, store, answer, partial>>

Candles == [Minutes -> Candle \cup {None}]

Nothing == [m \in Minutes |-> None]
Present(f) == {m \in Minutes : f[m] # None}
Over(new, old) == [m \in Minutes |-> IF new[m] # None THEN new[m] ELSE old[m]]

\* A cycle that begins: a new manager and aggregator, an empty transaction.
Fresh == [seen |-> 0, connected |-> FALSE, active |-> Nothing, draft |-> Nothing]

Init ==
  /\ minute = 0 /\ traded = Nothing /\ last = None
  /\ wire = <<>> /\ stream = "connecting" /\ feed = Fresh
  /\ store = Nothing /\ answer = Nothing /\ partial = {}
-----------------------------------------------------------------------------
At(p) == [low |-> p, high |-> p]
Widened(r, p) ==
  IF r = None THEN At(p)
  ELSE [low |-> IF p < r.low THEN p ELSE r.low, high |-> IF p > r.high THEN p ELSE r.high]

\* Slips for the mutant runs: a bucket that closes itself with the older ones; a forming
\* candle of the provider taken as final; a bucket chosen by the time of arrival.
ClosedWithOwn(active, m) == IF active[m] # None THEN {} ELSE {k \in Present(active) : k < m} \cup {m}
AllFinal(S) == [m \in Minutes |-> IF m \in S THEN [range |-> traded[m], complete |-> TRUE] ELSE None]
BucketNow(t) == minute

\* _bucket_start: the minute of the tick, not of its arrival.
Bucket(t) == t.minute

\* ingest_tick: a tick that opens a bucket closes every older one.
Closed(active, m) == IF active[m] # None THEN {} ELSE {k \in Present(active) : k < m}
Ingested(active, t) ==
  [k \in Minutes |-> CASE k = Bucket(t) -> Widened(active[k], t.price)
                       [] k \in Closed(active, Bucket(t)) -> None
                       [] OTHER -> active[k]]
Completed(active, t) ==
  [k \in Minutes |-> IF k \in Closed(active, Bucket(t))
                       THEN [range |-> active[k], complete |-> TRUE] ELSE None]

\* What fetch_candles answers: the newest n candles, the one still forming included.
Newest(n) == {m \in Present(traded) : Cardinality({k \in Present(traded) : k > m}) < n}
Fetched(S) == [m \in Minutes |-> IF m \in S THEN [range |-> traded[m], complete |-> m < minute] ELSE None]

\* persist_backfill at the first tick of a connection: the minutes after that tick's own.
Backfill(t) == IF t.minute < minute THEN Fetched(Newest((minute - t.minute) + 2)) ELSE Nothing

\* Minutes whose ticks a cycle that stops now has seen in part, or not at all.
Abandoned(active, unread) == Present(active) \cup {unread[i].minute : i \in DOMAIN unread}

\* One tick of run_cycle: upsert what was backfilled and completed, and, on the last tick
\* of the batch, commit and start over with a new consumer.  A new consumer means a new
\* aggregator and a new connection: the forming candle and the unread ticks are gone.
Consume(t, connected, backfilled, unread) ==
  LET active == Ingested(feed.active, t)
      draft  == Over(Completed(feed.active, t), Over(backfilled, feed.draft))
  IN  \/ /\ feed.seen + 1 < BatchTicks
         /\ feed' = [seen |-> feed.seen + 1, connected |-> connected, active |-> active, draft |-> draft]
         /\ wire' = unread
         /\ stream' = IF connected THEN "open" ELSE "finished"
         /\ UNCHANGED <<store, partial>>
      \/ /\ feed.seen + 1 >= BatchTicks
         /\ store' = Over(draft, store)
         /\ partial' = partial \cup Abandoned(active, unread)
         /\ feed' = Fresh /\ wire' = <<>> /\ stream' = "connecting"
-----------------------------------------------------------------------------
\* The market trades.  An open connection sends a tick; otherwise the stream misses it.
Trade(p) ==
  /\ traded' = [traded EXCEPT ![minute] = Widened(@, p)]
  /\ last' = [minute |-> minute, price |-> p]
  /\ \/ stream = "open" /\ Len(wire) < MaxWire
        /\ wire' = Append(wire, [minute |-> minute, price |-> p]) /\ UNCHANGED partial
     \/ stream # "open" /\ partial' = partial \cup {minute} /\ UNCHANGED wire
  /\ UNCHANGED <<minute, stream, feed, store, answer>>

NextMinute ==
  /\ minute < MaxMinute /\ minute' = minute + 1
  /\ UNCHANGED <<traded, last, wire, stream, feed, store, answer, partial>>

\* stream_ticks connects, or reconnects after its backoff; the provider opens with the
\* last price it has.
Connect ==
  /\ stream = "connecting" /\ stream' = "open"
  /\ wire' = IF last = None THEN <<>> ELSE <<last>>
  /\ UNCHANGED <<minute, traded, last, feed, store, answer, partial>>

\* The connection fails inside stream_ticks, which catches it and backs off.
Drop ==
  /\ stream = "open" /\ stream' = "connecting"
  /\ partial' = partial \cup Abandoned(Nothing, wire) /\ wire' = <<>>
  /\ UNCHANGED <<minute, traded, last, feed, store, answer>>

\* ticks_with_fallback yields the next tick of the stream.  The first tick of a cycle, of
\* this instrument or of another, is a reconnection to run_cycle; it backfills this
\* instrument only when the tick is its own.
ReadTick ==
  /\ stream = "open" /\ wire # <<>>
  /\ \E backfilled \in IF feed.connected THEN {Nothing} ELSE {Nothing, Backfill(Head(wire))} :
        Consume(Head(wire), TRUE, backfilled, Tail(wire))
  /\ UNCHANGED <<minute, traded, last, answer>>

\* Thirty seconds without a tick: wait_for cancels the step of the generator it waits for,
\* which ends it, and one tick is made of the newest REST candle when there is one.  From
\* then on the generator only reports that it has ended.
Silence ==
  /\ stream \in {"connecting", "open"} /\ wire = <<>>
  /\ \/ last # None /\ Consume(last, FALSE, Nothing, <<>>)
     \/ /\ stream' = "finished" /\ feed' = [feed EXCEPT !.connected = FALSE]
        /\ UNCHANGED <<wire, store, partial>>
  /\ UNCHANGED <<minute, traded, last, answer>>

\* The cycle raises and its session is rolled back, or the worker restarts: a cycle
\* begins.  Nothing raises once the stream has ended, so then it is a restart.
Fail ==
  /\ stream' = "connecting"
  /\ partial' = partial \cup Abandoned(feed.active, wire)
  /\ feed' = Fresh /\ wire' = <<>>
  /\ UNCHANGED <<minute, traded, last, store, answer>>
-----------------------------------------------------------------------------
Answer(candles) ==
  /\ Present(answer) = {} /\ answer' = candles
  /\ UNCHANGED <<minute, traded, last, wire, stream, feed, store, partial>>

\* fetch_and_store_candles, for an analysis or a chart.
Refresh == Answer(Fetched(Newest(PageSize)))

\* repair_candle_gaps: minutes missing between stored ones are looked for among the newest
\* candles; when none is there, everything fetched is upserted.
Gaps == {m \in Minutes \ Present(store) :
           \E a, b \in Present(store) : a < m /\ m < b}
RepairGaps ==
  LET fetched == Newest(Cardinality(Gaps) + GapExtra)
  IN  /\ Gaps # {}
      /\ Answer(Fetched(IF fetched \cap Gaps # {} THEN fetched \cap Gaps ELSE fetched))

\* backfill_timeframe: complete candles from the newest stored one on.
FillHistory ==
  Answer(Fetched({m \in Present(traded) : m < minute /\ \A k \in Present(store) : k <= m}))

\* upsert_candles and the commit, once the rows it writes are not locked by the feed's
\* transaction.  It writes what it fetched, whatever happened since.
StoreAnswer ==
  /\ Present(answer) # {} /\ Present(answer) \cap Present(feed.draft) = {}
  /\ store' = Over(answer, store) /\ answer' = Nothing
  /\ UNCHANGED <<minute, traded, last, wire, stream, feed, partial>>

Next ==
  \/ \E p \in Price : Trade(p)
  \/ NextMinute \/ Connect \/ Drop \/ ReadTick \/ Silence \/ Fail
  \/ Refresh \/ RepairGaps \/ FillHistory \/ StoreAnswer

Spec == Init /\ [][Next]_vars
-----------------------------------------------------------------------------
TypeOK ==
  /\ minute \in Minutes /\ traded \in [Minutes -> PriceRange \cup {None}] /\ last \in Tick \cup {None}
  /\ wire \in Seq(Tick) /\ stream \in {"connecting", "open", "finished"}
  /\ feed \in [seen : 0..(BatchTicks - 1), connected : BOOLEAN,
               active : [Minutes -> PriceRange \cup {None}], draft : Candles]
  /\ store \in Candles /\ answer \in Candles /\ partial \subseteq Minutes

Within(r, s) == s # None /\ s.low <= r.low /\ r.high <= s.high

(* Whatever is read late, cut by a batch or answered while the minute was forming, a    *)
(* stored candle never shows a price the market did not trade in its own minute.        *)
NothingInvented ==
  \A m \in Present(store) : Within(store[m].range, traded[m])

(* A candle stored as complete is over, and it is the whole minute unless some cycle    *)
(* missed a part of that minute: batches, reconnections and the REST writers overwriting *)
(* each other never leave another partial candle that claims to be complete.            *)
CompleteIsWhole ==
  \A m \in Present(store) : store[m].complete =>
    m < minute /\ (m \in partial \/ store[m].range = traded[m])
-----------------------------------------------------------------------------
(* Not kept by the code (README, section 6), though the event loop runs and a connection *)
(* tried again and again is made.  stream_runner.py: "When the connection drops it       *)
(* reconnects with exponential backoff and jitter".                                      *)
FairSpec == Spec /\ SF_vars(Connect) /\ WF_vars(ReadTick) /\ WF_vars(StoreAnswer)
StreamComesBack == (stream # "open") ~> (stream = "open")
==============================================================================
