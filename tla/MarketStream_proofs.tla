------------------------ MODULE MarketStream_proofs -------------------------
(***************************************************************************)
(* Theorems about the candle feed for every price set, batch size, page    *)
(* and bound: its types, that no stored candle shows a price the market    *)
(* did not trade in that minute, and that a candle stored as complete is   *)
(* the whole minute unless a cycle missed a part of it.                    *)
(***************************************************************************)
EXTENDS MarketStream, SequenceTheorems, TLAPS

Ranges == [Minutes -> PriceRange \cup {None}]

(* A tick, a forming candle or a candle on its way is about prices its minute has traded. *)
Real(t) == Within(At(t.price), traded[t.minute])
RealRanges(f) == \A m \in Minutes : f[m] # None => Within(f[m], traded[m])
RealCandles(c) == \A m \in Minutes : c[m] # None => Within(c[m].range, traded[m])

EverythingIsReal ==
  /\ last # None => Real(last)
  /\ \A i \in DOMAIN wire : Real(wire[i])
  /\ RealRanges(feed.active) /\ RealCandles(feed.draft)
  /\ RealCandles(store) /\ RealCandles(answer)

StreamInv == TypeOK /\ EverythingIsReal
-----------------------------------------------------------------------------
(* One price is a range of its own. *)
LEMMA AtType == \A p \in Price : At(p) \in PriceRange
BY PriceAssumption DEF At, PriceRange

(* A range is two prices in order. *)
LEMMA RangeParts ==
  \A r \in PriceRange : r.low \in Price /\ r.high \in Price /\ r.low \in Int /\ r.high \in Int /\ r.low <= r.high
BY PriceAssumption DEF PriceRange

(* Widening a range keeps what it held and takes the price in. *)
LEMMA WidenedType ==
  ASSUME NEW r \in PriceRange \cup {None}, NEW p \in Price
  PROVE  Widened(r, p) \in PriceRange /\ Within(At(p), Widened(r, p)) /\ (r # None => Within(r, Widened(r, p)))
<1>1. CASE r = None
  BY <1>1, AtType, NoneAssumption, RangeParts DEF Widened, Within, At
<1>2. CASE r \in PriceRange
  <2>1. p \in Int /\ r.low \in Int /\ r.high \in Int /\ r.low <= r.high /\ r.low \in Price /\ r.high \in Price
    BY <1>2, RangeParts, PriceAssumption
  <2>2. r # None
    BY <1>2, NoneAssumption
  <2> DEFINE w == Widened(r, p)
  <2>3. w = [low |-> IF p < r.low THEN p ELSE r.low, high |-> IF p > r.high THEN p ELSE r.high]
    BY <2>2 DEF Widened
  <2>4. w \in PriceRange
    BY <2>1, <2>3 DEF PriceRange
  <2>5. w # None
    BY <2>4, NoneAssumption
  <2> HIDE DEF w
  <2>6. w.low <= p /\ p <= w.high /\ w.low <= r.low /\ r.high <= w.high
    BY <2>1, <2>3
  <2> QED BY <2>2, <2>4, <2>5, <2>6 DEF Within, At, w
<1> QED BY <1>1, <1>2

(* What widens a range keeps it around whatever widening another kept it around. *)
LEMMA WithinIsTransitive ==
  ASSUME NEW r \in PriceRange, NEW s \in PriceRange, NEW t \in PriceRange, Within(r, s), Within(s, t)
  PROVE  Within(r, t)
BY RangeParts DEF Within

(* A range that held both the old range and the price holds the widened one. *)
LEMMA WidenedWithin ==
  ASSUME NEW r \in PriceRange \cup {None}, NEW p \in Price, NEW s \in PriceRange \cup {None},
         Within(At(p), s), r # None => Within(r, s)
  PROVE  Within(Widened(r, p), s)
<1>1. CASE r = None
  BY <1>1 DEF Widened
<1>2. CASE r # None
  BY <1>2, RangeParts, PriceAssumption DEF Widened, Within, At
<1> QED BY <1>1, <1>2

(* Candles written over others are candles, and real if both were. *)
LEMMA OverType ==
  ASSUME NEW a \in Candles, NEW b \in Candles
  PROVE  Over(a, b) \in Candles /\ (RealCandles(a) /\ RealCandles(b) => RealCandles(Over(a, b)))
BY DEF Over, Candles, RealCandles

(* No candles at all are candles, real ones. *)
LEMMA NothingType ==
  Nothing \in Candles /\ Nothing \in Ranges /\ RealCandles(Nothing) /\ RealRanges(Nothing)
BY DEF Nothing, Candles, Ranges, RealCandles, RealRanges

(* Ingesting a tick gives ranges and candles, real ones for a real tick. *)
LEMMA IngestedType ==
  ASSUME TypeOK, NEW active \in Ranges, NEW t \in Tick
  PROVE  /\ Ingested(active, t) \in Ranges /\ Completed(active, t) \in Candles
         /\ RealRanges(active) /\ Real(t) => RealRanges(Ingested(active, t)) /\ RealCandles(Completed(active, t))
<1>1. t.minute \in Minutes /\ t.price \in Price /\ Bucket(t) = t.minute
  BY DEF Tick, Bucket
<1>2. Widened(active[t.minute], t.price) \in PriceRange
  BY <1>1, WidenedType DEF Ranges
<1>3. \A k \in Closed(active, t.minute) : k \in Minutes /\ active[k] \in PriceRange
  BY DEF Closed, Present, Ranges
<1>4. Ingested(active, t) \in Ranges
  BY <1>1, <1>2 DEF Ingested, Ranges
<1>5. Completed(active, t) \in Candles
  BY <1>1, <1>3 DEF Completed, Candles, Candle
<1>6. ASSUME RealRanges(active), Real(t)
      PROVE  RealRanges(Ingested(active, t)) /\ RealCandles(Completed(active, t))
  <2>1. Within(Widened(active[t.minute], t.price), traded[t.minute])
    BY <1>1, <1>6, WidenedWithin DEF RealRanges, Real, Ranges, TypeOK
  <2>2. RealRanges(Ingested(active, t))
    BY <1>1, <1>6, <2>1 DEF Ingested, RealRanges
  <2>3. RealCandles(Completed(active, t))
    BY <1>1, <1>3, <1>6, NoneAssumption DEF Completed, RealCandles, RealRanges
  <2> QED BY <2>2, <2>3
<1> QED BY <1>4, <1>5, <1>6

(* What the provider answers is candles it knows, real ones. *)
LEMMA FetchedType ==
  ASSUME TypeOK, NEW S, S \subseteq Present(traded)
  PROVE  Fetched(S) \in Candles /\ RealCandles(Fetched(S))
<1>1. \A m \in S : m \in Minutes /\ traded[m] \in PriceRange
  BY DEF Present, TypeOK
<1>2. Fetched(S) \in Candles
  BY <1>1 DEF Fetched, Candles, Candle
<1>3. RealCandles(Fetched(S))
  BY <1>1, RangeParts, NoneAssumption DEF Fetched, RealCandles, Within
<1> QED BY <1>2, <1>3

(* The newest minutes are minutes that traded. *)
LEMMA NewestArePresent == \A n : Newest(n) \subseteq Present(traded)
BY DEF Newest

(* A new cycle starts typed, with nothing in it. *)
LEMMA FreshType ==
  /\ Fresh \in [seen : 0..(BatchTicks - 1), connected : BOOLEAN, active : Ranges, draft : Candles]
  /\ RealRanges(Fresh.active) /\ RealCandles(Fresh.draft)
BY NothingType, BoundsAssumption DEF Fresh

(* What is abandoned is minutes. *)
LEMMA AbandonedType ==
  \A active : \A unread \in Seq(Tick) : Abandoned(active, unread) \subseteq Minutes
<1> SUFFICES ASSUME NEW active, NEW unread \in Seq(Tick) PROVE Abandoned(active, unread) \subseteq Minutes
  OBVIOUS
<1>1. \A i \in DOMAIN unread : unread[i] \in Tick
  BY ElementOfSeq, LenProperties
<1>2. \A i \in DOMAIN unread : unread[i].minute \in Minutes
  BY <1>1 DEF Tick
<1> QED BY <1>2 DEF Abandoned, Present

(* A tick read by the cycle leaves everything it touches real. *)
LEMMA ConsumeKeeps ==
  ASSUME StreamInv, NEW t \in Tick, NEW connected \in BOOLEAN, NEW backfilled \in Candles,
         NEW unread \in Seq(Tick), Real(t), RealCandles(backfilled),
         \A i \in DOMAIN unread : Real(unread[i]),
         Consume(t, connected, backfilled, unread),
         UNCHANGED <<minute, traded, last, answer>>
  PROVE  StreamInv'
<1> DEFINE active == Ingested(feed.active, t)
           draft == Over(Completed(feed.active, t), Over(backfilled, feed.draft))
<1>1. feed.active \in Ranges /\ feed.draft \in Candles /\ feed.seen \in 0..(BatchTicks - 1) /\ BatchTicks \in Nat
  BY BoundsAssumption DEF StreamInv, TypeOK, Ranges
<1>2. active \in Ranges /\ RealRanges(active)
  BY <1>1, IngestedType DEF StreamInv, EverythingIsReal
<1>3. draft \in Candles /\ RealCandles(draft)
  BY <1>1, IngestedType, OverType DEF StreamInv, EverythingIsReal
<1> HIDE DEF active, draft
<1>4. CASE /\ feed.seen + 1 < BatchTicks
           /\ feed' = [seen |-> feed.seen + 1, connected |-> connected, active |-> active, draft |-> draft]
           /\ wire' = unread
           /\ stream' = IF connected THEN "open" ELSE "finished"
           /\ UNCHANGED <<store, partial>>
  <2>1. TypeOK'
    BY <1>1, <1>2, <1>3, <1>4 DEF StreamInv, TypeOK, Ranges
  <2>2. EverythingIsReal'
    BY <1>2, <1>3, <1>4 DEF StreamInv, EverythingIsReal, Real, RealRanges, RealCandles, Within
  <2> QED BY <2>1, <2>2 DEF StreamInv
<1>5. CASE /\ store' = Over(draft, store)
           /\ partial' = partial \cup Abandoned(active, unread)
           /\ feed' = Fresh /\ wire' = <<>> /\ stream' = "connecting"
  <2>1. store' \in Candles /\ RealCandles(store')
    BY <1>3, <1>5, OverType DEF StreamInv, TypeOK, EverythingIsReal
  <2>2. Abandoned(active, unread) \subseteq Minutes
    BY AbandonedType
  <2>3. feed' \in [seen : 0..(BatchTicks - 1), connected : BOOLEAN, active : Ranges, draft : Candles]
          /\ RealRanges(feed'.active) /\ RealCandles(feed'.draft)
    BY <1>5, FreshType
  <2>4. TypeOK'
    BY <1>5, <2>1, <2>2, <2>3 DEF StreamInv, TypeOK, Ranges
  <2>5. EverythingIsReal'
    BY <1>5, <2>1, <2>3 DEF StreamInv, EverythingIsReal, Real, RealRanges, RealCandles, Within
  <2> QED BY <2>4, <2>5 DEF StreamInv
<1> QED BY <1>4, <1>5 DEF Consume, active, draft
-----------------------------------------------------------------------------
(* The tick read next is real, and so are those behind it. *)
LEMMA TailIsReal ==
  ASSUME StreamInv, wire # <<>>
  PROVE  /\ Head(wire) \in Tick /\ Real(Head(wire)) /\ Tail(wire) \in Seq(Tick)
         /\ \A i \in DOMAIN Tail(wire) : Real(Tail(wire)[i])
<1>1. wire \in Seq(Tick) /\ Len(wire) \in Nat \ {0} /\ DOMAIN wire = 1..Len(wire)
  BY EmptySeq, LenProperties DEF StreamInv, TypeOK
<1>2. Head(wire) = wire[1] /\ 1 \in DOMAIN wire
  BY <1>1
<1>3. /\ Tail(wire) \in Seq(Tick)
      /\ DOMAIN Tail(wire) = 1..(Len(wire) - 1)
      /\ \A i \in DOMAIN Tail(wire) : Tail(wire)[i] = wire[i + 1] /\ i + 1 \in DOMAIN wire
  BY <1>1, HeadTailProperties, LenProperties
<1> QED BY <1>1, <1>2, <1>3, HeadTailProperties DEF StreamInv, EverythingIsReal

(* A trade only widens what its minute has traded, so what was real stays real. *)
LEMMA TradeWidens ==
  ASSUME TypeOK, NEW p \in Price, Trade(p)
  PROVE  /\ traded' \in Ranges
         /\ Within(At(p), traded'[minute])
         /\ \A m \in Minutes, r \in PriceRange : Within(r, traded[m]) => Within(r, traded'[m])
<1>1. minute \in Minutes /\ traded \in Ranges
  BY DEF TypeOK, Ranges
<1>2. traded' = [traded EXCEPT ![minute] = Widened(traded[minute], p)]
  BY DEF Trade
<1>3. Widened(traded[minute], p) \in PriceRange /\ Within(At(p), Widened(traded[minute], p))
        /\ (traded[minute] # None => Within(traded[minute], Widened(traded[minute], p)))
  BY <1>1, WidenedType DEF Ranges
<1>4. ASSUME NEW m \in Minutes, NEW r \in PriceRange, Within(r, traded[m])
      PROVE  Within(r, traded'[m])
  <2>1. CASE m = minute
    <3>1. traded[m] \in PriceRange
      BY <1>1, <1>4 DEF Ranges, Within
    <3> QED BY <1>1, <1>2, <1>3, <1>4, <2>1, <3>1, WithinIsTransitive DEF Ranges, Within
  <2>2. CASE m # minute
    BY <1>1, <1>2, <1>4, <2>2 DEF Ranges
  <2> QED BY <2>1, <2>2
<1> QED BY <1>1, <1>2, <1>3, <1>4 DEF Ranges

(* A tick sent before is about prices its minute has traded after the step. *)
StillReal(u) == Within(At(u.price), traded'[u.minute])

(* A trade keeps the feed typed and real. *)
LEMMA TradeKeeps ==
  ASSUME StreamInv, NEW p \in Price, Trade(p)
  PROVE  StreamInv'
<1> DEFINE t == [minute |-> minute, price |-> p]
<1>1. t \in Tick /\ minute \in Minutes /\ traded' \in Ranges /\ last' = t
        /\ UNCHANGED <<minute, stream, feed, store, answer>>
  BY TradeWidens DEF StreamInv, TypeOK, Tick, Trade
<1>2. \A m \in Minutes, r \in PriceRange : Within(r, traded[m]) => Within(r, traded'[m])
  BY TradeWidens DEF StreamInv
<1>3. \A u \in Tick : Real(u) => StillReal(u)
  BY <1>2, AtType DEF Real, StillReal, Tick
<1>4. StillReal(t)
  BY <1>1, TradeWidens DEF StreamInv, StillReal
<1>5. /\ wire \in Seq(Tick) /\ partial \subseteq Minutes /\ Len(wire) \in Nat
      /\ \A i \in 1..Len(wire) : StillReal(wire[i])
  BY <1>3, ElementOfSeq, LenProperties DEF StreamInv, TypeOK, EverythingIsReal
<1>6. wire' \in Seq(Tick) /\ partial' \subseteq Minutes /\ \A i \in DOMAIN wire' : StillReal(wire'[i])
  <2>1. CASE wire' = Append(wire, t) /\ UNCHANGED partial
    <3>1. wire' \in Seq(Tick) /\ DOMAIN wire' = 1..(Len(wire) + 1)
            /\ wire'[Len(wire) + 1] = t /\ \A i \in 1..Len(wire) : wire'[i] = wire[i]
      BY <1>1, <1>5, <2>1, AppendProperties, LenProperties
    <3>2. ASSUME NEW i \in DOMAIN wire' PROVE StillReal(wire'[i])
      <4>1. CASE i \in 1..Len(wire)
        BY <1>5, <3>1, <4>1
      <4>2. CASE i = Len(wire) + 1
        BY <1>4, <3>1, <4>2
      <4> QED BY <1>5, <3>1, <4>1, <4>2
    <3> QED BY <1>5, <2>1, <3>1, <3>2
  <2>2. CASE partial' = partial \cup {minute} /\ UNCHANGED wire
    BY <1>1, <1>5, <2>2, LenProperties
  <2> QED BY <2>1, <2>2 DEF Trade
<1>7. feed.active \in Ranges /\ feed.draft \in Candles /\ store \in Candles /\ answer \in Candles
  BY DEF StreamInv, TypeOK, Ranges
<1>8. RealRanges(feed.active)'
  BY <1>1, <1>2, <1>7 DEF StreamInv, EverythingIsReal, RealRanges, Ranges
<1>9. \A c \in Candles : RealCandles(c) => RealCandles(c)'
  BY <1>2 DEF RealCandles, Candles, Candle
<1>10. RealCandles(feed.draft)' /\ RealCandles(store)' /\ RealCandles(answer)'
  BY <1>1, <1>7, <1>9 DEF StreamInv, EverythingIsReal, RealCandles
<1>11. TypeOK'
  BY <1>1, <1>6 DEF StreamInv, TypeOK, Ranges
<1> QED BY <1>1, <1>4, <1>6, <1>8, <1>10, <1>11 DEF StreamInv, EverythingIsReal, Real, StillReal

(* An answer is taken from what the provider knows. *)
LEMMA AnswerKeeps ==
  ASSUME StreamInv, NEW S, S \subseteq Present(traded), Answer(Fetched(S))
  PROVE  StreamInv'
<1>1. Fetched(S) \in Candles /\ RealCandles(Fetched(S))
  BY FetchedType DEF StreamInv
<1> QED BY <1>1 DEF StreamInv, TypeOK, EverythingIsReal, Real, RealRanges, RealCandles, Answer

(* The feed starts typed and real. *)
LEMMA InitStream == Init => StreamInv
<1> SUFFICES ASSUME Init PROVE StreamInv
  OBVIOUS
<1>1. TypeOK
  BY FreshType, NothingType, BoundsAssumption DEF Init, TypeOK, Minutes, Ranges
<1>2. EverythingIsReal
  BY FreshType, NothingType DEF Init, EverythingIsReal
<1> QED BY <1>1, <1>2 DEF StreamInv

(* Every step keeps the feed typed and real. *)
LEMMA StepKeepsStream ==
  ASSUME StreamInv, [Next]_vars
  PROVE  StreamInv'
<1>1. CASE \E p \in Price : Trade(p)
  BY <1>1, TradeKeeps
<1>2. CASE NextMinute
  <2>1. minute' \in Minutes
    BY <1>2, BoundsAssumption DEF NextMinute, StreamInv, TypeOK, Minutes
  <2> QED BY <1>2, <2>1 DEF NextMinute, StreamInv, TypeOK, EverythingIsReal, Real, RealRanges, RealCandles, Within
<1>3. CASE Connect
  <2>1. wire' \in Seq(Tick) /\ \A i \in DOMAIN wire' : Real(wire'[i])
    BY <1>3 DEF Connect, StreamInv, TypeOK, EverythingIsReal
  <2> QED BY <1>3, <2>1 DEF Connect, StreamInv, TypeOK, EverythingIsReal, Real, RealRanges, RealCandles, Within
<1>4. CASE Drop
  <2>1. Abandoned(Nothing, wire) \subseteq Minutes
    BY AbandonedType DEF StreamInv, TypeOK
  <2> QED BY <1>4, <2>1 DEF Drop, StreamInv, TypeOK, EverythingIsReal, Real, RealRanges, RealCandles, Within
<1>5. CASE ReadTick
  <2>1. PICK backfilled \in {Nothing, Backfill(Head(wire))} : Consume(Head(wire), TRUE, backfilled, Tail(wire))
    BY <1>5 DEF ReadTick
  <2>2. backfilled \in Candles /\ RealCandles(backfilled)
    BY NothingType, FetchedType, NewestArePresent DEF Backfill, StreamInv
  <2> QED BY <1>5, <2>1, <2>2, TailIsReal, ConsumeKeeps DEF ReadTick
<1>6. CASE Silence
  <2>1. CASE last # None /\ Consume(last, FALSE, Nothing, <<>>)
    <3>1. last \in Tick /\ Real(last) /\ <<>> \in Seq(Tick) /\ \A i \in DOMAIN <<>> : Real(<<>>[i])
      BY <2>1 DEF StreamInv, TypeOK, EverythingIsReal
    <3> QED BY <1>6, <2>1, <3>1, NothingType, ConsumeKeeps DEF Silence
  <2>2. CASE stream' = "finished" /\ feed' = [feed EXCEPT !.connected = FALSE] /\ UNCHANGED <<wire, store, partial>>
    BY <1>6, <2>2 DEF Silence, StreamInv, TypeOK, EverythingIsReal, Real, RealRanges, RealCandles, Within
  <2> QED BY <1>6, <2>1, <2>2 DEF Silence
<1>7. CASE Fail
  <2>1. Abandoned(feed.active, wire) \subseteq Minutes
    BY AbandonedType DEF StreamInv, TypeOK
  <2>2. feed' = Fresh /\ wire' = <<>>
    BY <1>7 DEF Fail
  <2> QED BY <1>7, <2>1, <2>2, FreshType
        DEF Fail, StreamInv, TypeOK, Ranges, EverythingIsReal, Real, RealRanges, RealCandles, Within
<1>8. CASE Refresh
  BY <1>8, AnswerKeeps, NewestArePresent DEF Refresh
<1>9. CASE RepairGaps
  <2> DEFINE fetched == Newest(Cardinality(Gaps) + GapExtra)
             S == IF fetched \cap Gaps # {} THEN fetched \cap Gaps ELSE fetched
  <2>1. S \subseteq Present(traded)
    BY NewestArePresent
  <2> QED BY <1>9, <2>1, AnswerKeeps DEF RepairGaps
<1>10. CASE FillHistory
  <2> DEFINE S == {m \in Present(traded) : m < minute /\ \A k \in Present(store) : k <= m}
  <2>1. S \subseteq Present(traded)
    OBVIOUS
  <2> QED BY <1>10, <2>1, AnswerKeeps DEF FillHistory
<1>11. CASE StoreAnswer
  <2>1. store' \in Candles /\ RealCandles(store')
    BY <1>11, OverType DEF StoreAnswer, StreamInv, TypeOK, EverythingIsReal
  <2> QED BY <1>11, <2>1, NothingType
        DEF StoreAnswer, StreamInv, TypeOK, EverythingIsReal, Real, RealRanges, RealCandles, Within
<1>12. CASE UNCHANGED vars
  BY <1>12 DEF vars, StreamInv, TypeOK, EverythingIsReal, Real, RealRanges, RealCandles, Within
<1> QED BY <1>1, <1>2, <1>3, <1>4, <1>5, <1>6, <1>7, <1>8, <1>9, <1>10, <1>11, <1>12 DEF Next

(* In every reachable state the feed is typed and all it holds was traded. *)
THEOREM StreamInvariant == Spec => []StreamInv
BY InitStream, StepKeepsStream, PTL DEF Spec

(* Every reachable state of the feed is well typed, for every batch size and page.      *)
THEOREM StreamIsTyped == Spec => []TypeOK
<1>1. StreamInv => TypeOK
  BY DEF StreamInv
<1> QED BY StreamInvariant, <1>1, PTL

(* Late, cut or answered while the minute was forming: no stored candle ever shows a    *)
(* price the market did not trade in that minute.                                       *)
THEOREM NothingIsInvented == Spec => []NothingInvented
<1>1. StreamInv => NothingInvented
  BY DEF StreamInv, EverythingIsReal, RealCandles, NothingInvented, Present
<1> QED BY StreamInvariant, <1>1, PTL
-----------------------------------------------------------------------------
(* Minutes that some tick still to be ingested, or the forming candle, is about. *)
PendingIn(f, w, k) == f[k] # None \/ \E i \in DOMAIN w : w[i].minute = k

(* The lowest (highest) trade of a minute is in the forming candle or among the ticks. *)
LowIn(f, w, k) ==
  \/ f[k] # None /\ f[k].low = traded[k].low
  \/ \E i \in DOMAIN w : w[i].minute = k /\ w[i].price = traded[k].low
HighIn(f, w, k) ==
  \/ f[k] # None /\ f[k].high = traded[k].high
  \/ \E i \in DOMAIN w : w[i].minute = k /\ w[i].price = traded[k].high

(* Ticks are read in the order they were sent, and no candle is ahead of them. *)
InOrder ==
  /\ stream # "open" => wire = <<>>
  /\ \A m \in Minutes : traded[m] # None => last # None /\ m <= last.minute
  /\ last # None => last.minute <= minute
  /\ \A i, j \in DOMAIN wire : i <= j => wire[i].minute <= wire[j].minute
  /\ \A i \in DOMAIN wire : last # None /\ wire[i].minute <= last.minute
  /\ \A m \in Present(feed.active) :
       last # None /\ m <= last.minute /\ \A i \in DOMAIN wire : m <= wire[i].minute

(* A minute nothing was missed of is fully in the forming candle and the ticks on their *)
(* way for as long as either is about it.                                                *)
NothingMissed ==
  /\ \A k \in Minutes \ partial : traded[k] # None /\ PendingIn(feed.active, wire, k) =>
       LowIn(feed.active, wire, k) /\ HighIn(feed.active, wire, k)
  /\ last # None => last.minute \in partial \/ PendingIn(feed.active, wire, last.minute)

(* What CompleteIsWhole asks of the stored candles, of any candles. *)
Whole(c) ==
  \A m \in Minutes : c[m] # None /\ c[m].complete =>
    m < minute /\ (m \in partial \/ c[m].range = traded[m])

CandlesAreWhole ==
  InOrder /\ NothingMissed /\ Whole(feed.draft) /\ Whole(store) /\ Whole(answer)

WholeInv == StreamInv /\ CandlesAreWhole
-----------------------------------------------------------------------------
(* Whole candles written over whole ones are whole. *)
LEMMA OverWhole ==
  ASSUME NEW a \in Candles, NEW b \in Candles, Whole(a), Whole(b)
  PROVE  Whole(Over(a, b))
BY DEF Over, Candles, Whole

(* No candles at all are whole. *)
LEMMA NothingWhole == Whole(Nothing)
BY DEF Nothing, Whole

(* What the provider answers of its minutes is whole. *)
LEMMA FetchedWhole ==
  ASSUME TypeOK, NEW S, S \subseteq Present(traded)
  PROVE  Whole(Fetched(S))
BY DEF Fetched, Whole, Present

(* What the cycle knows when it ingests t and leaves unread on the connection. *)
Reading(t, unread) ==
  /\ t.minute <= minute /\ last # None /\ last.minute <= minute /\ t.minute <= last.minute
  /\ \A i \in DOMAIN unread : t.minute <= unread[i].minute /\ unread[i].minute <= last.minute
  /\ \A i, j \in DOMAIN unread : i <= j => unread[i].minute <= unread[j].minute
  /\ \A m \in Present(feed.active) : m <= t.minute
  /\ \A k \in Minutes \ partial : traded[k] # None /\ (PendingIn(feed.active, unread, k) \/ k = t.minute) =>
       /\ LowIn(feed.active, unread, k) \/ (k = t.minute /\ t.price = traded[k].low)
       /\ HighIn(feed.active, unread, k) \/ (k = t.minute /\ t.price = traded[k].high)
  /\ \/ last.minute \in partial \/ PendingIn(feed.active, unread, last.minute)
     \/ last.minute = t.minute

(* A candle that is closed is whole, unless its minute was missed in part. *)
LEMMA ClosedIsWhole ==
  ASSUME StreamInv, NEW t \in Tick, NEW unread \in Seq(Tick), Reading(t, unread)
  PROVE  Whole(Completed(feed.active, t))
<1> SUFFICES ASSUME NEW m \in Minutes, m \in Closed(feed.active, t.minute), m \notin partial
             PROVE  m < minute /\ feed.active[m] = traded[m]
  <2> DEFINE c == Completed(feed.active, t)
  <2>1. \A m \in Minutes : m \notin Closed(feed.active, t.minute) => c[m] = None
    BY DEF Completed, Bucket
  <2>2. \A m \in Minutes : m \in Closed(feed.active, t.minute) => c[m].range = feed.active[m]
    BY DEF Completed, Bucket
  <2>3. \A m \in Closed(feed.active, t.minute) : m < t.minute
    BY DEF Closed
  <2>4. \A m \in Closed(feed.active, t.minute) : m < minute
    BY <2>3, BoundsAssumption DEF Reading, Closed, Present, StreamInv, TypeOK, Tick, Minutes
  <2> HIDE DEF c
  <2> QED BY <2>1, <2>2, <2>4 DEF Whole, c
<1>1. m \in Present(feed.active) /\ m < t.minute /\ t.minute \in Minutes
  BY DEF Closed, Tick
<1>2. m < minute
  BY <1>1, BoundsAssumption DEF Reading, StreamInv, TypeOK, Minutes
<1>3. \A i \in DOMAIN unread : unread[i].minute # m
  BY <1>1, BoundsAssumption DEF Reading, Minutes
<1>4. feed.active[m] \in PriceRange /\ traded[m] \in PriceRange \cup {None}
  BY <1>1 DEF StreamInv, TypeOK, Present
<1>5. traded[m] \in PriceRange
  BY <1>1, <1>4 DEF StreamInv, EverythingIsReal, RealRanges, Within, Present
<1>6. PendingIn(feed.active, unread, m) /\ traded[m] # None /\ m # t.minute
  BY <1>1, <1>5, NoneAssumption, BoundsAssumption DEF PendingIn, Present, Minutes
<1>7. feed.active[m].low = traded[m].low /\ feed.active[m].high = traded[m].high
  BY <1>3, <1>6 DEF Reading, LowIn, HighIn
<1> QED BY <1>2, <1>4, <1>5, <1>7 DEF PriceRange

(* After the tick is ingested, what is pending is still covered. *)
LEMMA IngestedCovers ==
  ASSUME StreamInv, NEW t \in Tick, NEW unread \in Seq(Tick), Reading(t, unread), Real(t)
  PROVE  LET active == Ingested(feed.active, t)
         IN  /\ \A m \in Present(active) : m <= t.minute
             /\ \A k \in Minutes \ partial : traded[k] # None /\ PendingIn(active, unread, k) =>
                  LowIn(active, unread, k) /\ HighIn(active, unread, k)
             /\ last.minute \in partial \/ PendingIn(active, unread, last.minute)
<1> DEFINE active == Ingested(feed.active, t)
<1>1. t.minute \in Minutes /\ t.price \in Price /\ feed.active \in Ranges /\ traded \in Ranges
        /\ last.minute \in Minutes /\ minute \in Minutes
  BY DEF Tick, StreamInv, TypeOK, Ranges, Reading
<1>2. active[t.minute] = Widened(feed.active[t.minute], t.price)
        /\ active[t.minute] \in PriceRange /\ active[t.minute] # None
  <2>1. Widened(feed.active[t.minute], t.price) \in PriceRange
    BY <1>1, WidenedType DEF Ranges
  <2>2. t.minute \notin Closed(feed.active, t.minute)
    BY <1>1, BoundsAssumption DEF Closed, Minutes
  <2>3. active[t.minute] = Widened(feed.active[t.minute], t.price)
    BY <1>1, <2>2 DEF Ingested, Bucket
  <2> HIDE DEF active
  <2> QED BY <2>1, <2>3, NoneAssumption
<1>3. \A k \in Minutes : k # t.minute =>
        active[k] = IF k \in Closed(feed.active, t.minute) THEN None ELSE feed.active[k]
  BY <1>1 DEF Ingested, Bucket
<1>4. \A k \in Closed(feed.active, t.minute) : k < t.minute
  BY DEF Closed
<1>5. Within(active[t.minute], traded[t.minute]) /\ traded[t.minute] \in PriceRange
  BY <1>1, <1>2, IngestedType DEF StreamInv, EverythingIsReal, RealRanges, Within, Ranges
<1>6. /\ feed.active[t.minute] # None => Within(feed.active[t.minute], active[t.minute])
      /\ Within(At(t.price), active[t.minute])
  BY <1>1, <1>2, WidenedType DEF Ranges
<1> HIDE DEF active
<1>7. \A m \in Present(active) : m <= t.minute
  <2> SUFFICES ASSUME NEW m \in Minutes, active[m] # None, m # t.minute PROVE m <= t.minute
    BY <1>1, BoundsAssumption DEF Present, Minutes
  <2>1. m \in Present(feed.active)
    BY <1>3 DEF Present
  <2> QED BY <2>1 DEF Reading
<1>8. ASSUME NEW k \in Minutes \ partial, traded[k] # None, PendingIn(active, unread, k)
      PROVE  LowIn(active, unread, k) /\ HighIn(active, unread, k)
  <2>1. CASE k = t.minute
    <3>1. /\ LowIn(feed.active, unread, k) \/ t.price = traded[k].low
          /\ HighIn(feed.active, unread, k) \/ t.price = traded[k].high
      BY <1>8, <2>1 DEF Reading
    <3>2. feed.active[k] # None => feed.active[k] \in PriceRange
      BY <1>1 DEF Ranges
    <3>3. feed.active[k] # None /\ feed.active[k].low = traded[k].low => active[k].low = traded[k].low
      BY <1>2, <1>5, <1>6, <2>1, <3>2, RangeParts DEF Within
    <3>4. feed.active[k] # None /\ feed.active[k].high = traded[k].high => active[k].high = traded[k].high
      BY <1>2, <1>5, <1>6, <2>1, <3>2, RangeParts DEF Within
    <3>5. t.price = traded[k].low => active[k].low = traded[k].low
      BY <1>2, <1>5, <1>6, <2>1, RangeParts DEF Within, At
    <3>6. t.price = traded[k].high => active[k].high = traded[k].high
      BY <1>2, <1>5, <1>6, <2>1, RangeParts DEF Within, At
    <3> QED BY <1>2, <2>1, <3>1, <3>3, <3>4, <3>5, <3>6 DEF LowIn, HighIn
  <2>2. CASE k # t.minute
    <3>1. k \notin Closed(feed.active, t.minute) \/ \A i \in DOMAIN unread : unread[i].minute # k
      BY <1>1, <1>4, BoundsAssumption DEF Reading, Minutes
    <3>2. k \notin Closed(feed.active, t.minute)
      BY <1>3, <1>8, <2>2, <3>1 DEF PendingIn
    <3>3. active[k] = feed.active[k]
      BY <1>3, <2>2, <3>2
    <3> QED BY <1>8, <2>2, <3>3 DEF Reading, PendingIn, LowIn, HighIn
  <2> QED BY <2>1, <2>2
<1>9. last.minute \in partial \/ PendingIn(active, unread, last.minute)
  <2>1. CASE last.minute = t.minute
    BY <1>2, <2>1 DEF PendingIn
  <2>2. CASE last.minute # t.minute
    <3>1. last.minute \notin Closed(feed.active, t.minute)
      BY <1>1, <1>4, BoundsAssumption DEF Reading, Minutes
    <3> QED BY <1>1, <1>3, <2>2, <3>1 DEF Reading, PendingIn
  <2> QED BY <2>1, <2>2
<1> QED BY <1>7, <1>8, <1>9 DEF active

(* A tick read by the cycle leaves the complete candles whole. *)
LEMMA ConsumeKeepsWhole ==
  ASSUME WholeInv, NEW t \in Tick, NEW connected \in BOOLEAN, NEW backfilled \in Candles,
         NEW unread \in Seq(Tick), Reading(t, unread), Real(t), Whole(backfilled),
         connected \/ unread = <<>>,
         Consume(t, connected, backfilled, unread),
         UNCHANGED <<minute, traded, last, answer>>
  PROVE  CandlesAreWhole'
<1> DEFINE active == Ingested(feed.active, t)
           draft == Over(Completed(feed.active, t), Over(backfilled, feed.draft))
<1>1. /\ feed.active \in Ranges /\ feed.draft \in Candles /\ store \in Candles
      /\ minute \in Minutes /\ t.minute \in Minutes /\ last.minute \in Minutes
      /\ \A i \in DOMAIN unread : unread[i].minute \in Minutes
  <2>1. \A i \in DOMAIN unread : unread[i] \in Tick
    BY ElementOfSeq, LenProperties
  <2>2. last \in Tick
    BY DEF WholeInv, StreamInv, TypeOK, Reading
  <2>3. /\ t.minute \in Minutes /\ last.minute \in Minutes
        /\ \A i \in DOMAIN unread : unread[i].minute \in Minutes
    BY <2>1, <2>2 DEF Tick
  <2> QED BY <2>3 DEF WholeInv, StreamInv, TypeOK, Ranges
<1>2. active \in Ranges /\ Completed(feed.active, t) \in Candles
  BY <1>1, IngestedType DEF WholeInv, StreamInv
<1>3. Whole(Over(backfilled, feed.draft)) /\ Over(backfilled, feed.draft) \in Candles
  BY <1>1, OverWhole, OverType DEF WholeInv, CandlesAreWhole
<1>4. draft \in Candles /\ Whole(draft)
  BY <1>1, <1>2, <1>3, ClosedIsWhole, OverWhole, OverType DEF WholeInv
<1>5. /\ \A m \in Present(active) : m <= t.minute
      /\ \A k \in Minutes \ partial : traded[k] # None /\ PendingIn(active, unread, k) =>
           LowIn(active, unread, k) /\ HighIn(active, unread, k)
      /\ last.minute \in partial \/ PendingIn(active, unread, last.minute)
  BY IngestedCovers DEF WholeInv
<1> HIDE DEF active, draft
<1>6. CASE /\ feed.seen + 1 < BatchTicks
           /\ feed' = [seen |-> feed.seen + 1, connected |-> connected, active |-> active, draft |-> draft]
           /\ wire' = unread
           /\ stream' = IF connected THEN "open" ELSE "finished"
           /\ UNCHANGED <<store, partial>>
  <2>1. feed'.active = active /\ feed'.draft = draft
    BY <1>6
  <2>2. Present(active) \subseteq Minutes
    BY DEF Present
  <2>3. \A m \in Present(active) : m <= last.minute /\ \A i \in DOMAIN unread : m <= unread[i].minute
    BY <1>1, <1>5, <2>2, BoundsAssumption DEF Reading, Minutes
  <2>4. InOrder'
    BY <1>6, <2>1, <2>3 DEF WholeInv, CandlesAreWhole, InOrder, Reading, Present
  <2>5. NothingMissed'
    BY <1>5, <1>6, <2>1 DEF NothingMissed, PendingIn, LowIn, HighIn
  <2>6. Whole(feed.draft)' /\ Whole(store)' /\ Whole(answer)'
    BY <1>4, <1>6, <2>1 DEF Whole, WholeInv, CandlesAreWhole
  <2> QED BY <2>4, <2>5, <2>6 DEF CandlesAreWhole
<1>7. CASE /\ store' = Over(draft, store)
           /\ partial' = partial \cup Abandoned(active, unread)
           /\ feed' = Fresh /\ wire' = <<>> /\ stream' = "connecting"
  <2>1. feed'.active = Nothing /\ feed'.draft = Nothing
    BY <1>7 DEF Fresh
  <2>2. Whole(Over(draft, store))
    BY <1>1, <1>4, OverWhole DEF WholeInv, CandlesAreWhole
  <2>3. Whole(feed.draft)' /\ Whole(store)' /\ Whole(answer)'
    BY <1>7, <2>1, <2>2, NothingWhole DEF Whole, Nothing, WholeInv, CandlesAreWhole
  <2>4. InOrder'
    BY <1>7, <2>1 DEF WholeInv, CandlesAreWhole, InOrder, Present, Nothing
  <2>5. last.minute \in partial'
    BY <1>1, <1>5, <1>7 DEF PendingIn, Abandoned, Present
  <2>6. NothingMissed'
    BY <1>7, <2>1, <2>5 DEF NothingMissed, PendingIn, Nothing
  <2> QED BY <2>3, <2>4, <2>6 DEF CandlesAreWhole
<1> QED BY <1>6, <1>7 DEF Consume, active, draft

(* The tick read next is one the cycle's knowledge is about. *)
LEMMA NextTickIsReading ==
  ASSUME WholeInv, wire # <<>>
  PROVE  Reading(Head(wire), Tail(wire))
<1> DEFINE t == Head(wire)
           unread == Tail(wire)
<1>1. wire \in Seq(Tick) /\ Len(wire) \in Nat \ {0} /\ DOMAIN wire = 1..Len(wire)
        /\ \A i \in DOMAIN wire : wire[i] \in Tick
  BY EmptySeq, ElementOfSeq, LenProperties DEF WholeInv, StreamInv, TypeOK
<1>2. t = wire[1] /\ 1 \in DOMAIN wire /\ DOMAIN unread = 1..(Len(wire) - 1)
  BY <1>1, HeadTailProperties, LenProperties
<1>3. \A i \in DOMAIN unread : unread[i] = wire[i + 1] /\ i + 1 \in DOMAIN wire
  BY <1>1, HeadTailProperties, LenProperties
<1>4. \A i \in DOMAIN wire : wire[i] = t \/ \E j \in DOMAIN unread : wire[i] = unread[j]
  <2> SUFFICES ASSUME NEW i \in DOMAIN wire, i # 1 PROVE \E j \in DOMAIN unread : wire[i] = unread[j]
    BY <1>2
  <2>1. i - 1 \in DOMAIN unread /\ (i - 1) + 1 = i
    BY <1>1, <1>2
  <2> QED BY <1>3, <2>1
<1>5. minute \in Minutes /\ last \in Tick \cup {None} /\ t \in Tick
  BY <1>1, <1>2 DEF WholeInv, StreamInv, TypeOK
<1>6. last # None /\ t.minute <= last.minute /\ last.minute <= minute
  BY <1>2 DEF WholeInv, CandlesAreWhole, InOrder
<1>7. t.minute <= minute
  BY <1>5, <1>6, BoundsAssumption DEF Tick, Minutes
<1>8. \A i \in DOMAIN unread : t.minute <= unread[i].minute /\ unread[i].minute <= last.minute
  BY <1>1, <1>2, <1>3 DEF WholeInv, CandlesAreWhole, InOrder
<1>9. \A i, j \in DOMAIN unread : i <= j => unread[i].minute <= unread[j].minute
  BY <1>1, <1>2, <1>3 DEF WholeInv, CandlesAreWhole, InOrder
<1>10. \A m \in Present(feed.active) : m <= t.minute
  BY <1>2 DEF WholeInv, CandlesAreWhole, InOrder
<1> HIDE DEF t, unread
<1>11. \A k : PendingIn(feed.active, wire, k) <=> PendingIn(feed.active, unread, k) \/ k = t.minute
  BY <1>2, <1>3, <1>4 DEF PendingIn
<1>12. \A k : LowIn(feed.active, wire, k) => LowIn(feed.active, unread, k) \/ (k = t.minute /\ t.price = traded[k].low)
  BY <1>4 DEF LowIn
<1>13. \A k : HighIn(feed.active, wire, k) => HighIn(feed.active, unread, k) \/ (k = t.minute /\ t.price = traded[k].high)
  BY <1>4 DEF HighIn
<1>14. Reading(t, unread)
  BY <1>6, <1>7, <1>8, <1>9, <1>10, <1>11, <1>12, <1>13 DEF Reading, WholeInv, CandlesAreWhole, NothingMissed
<1> QED BY <1>14 DEF t, unread

(* The candle made after a silence repeats the last trade, which nothing is waiting behind. *)
LEMMA LastTradeIsReading ==
  ASSUME WholeInv, wire = <<>>, last # None
  PROVE  Reading(last, <<>>)
<1>1. last \in Tick /\ minute \in Minutes /\ last.minute \in Minutes
  BY DEF WholeInv, StreamInv, TypeOK, Tick
<1>2. \A m \in Present(feed.active) : m <= last.minute
  BY DEF WholeInv, CandlesAreWhole, InOrder
<1>3. last.minute <= minute /\ last.minute <= last.minute
  BY <1>1, BoundsAssumption DEF WholeInv, CandlesAreWhole, InOrder, Minutes
<1>4. \A k \in Minutes \ partial : traded[k] # None /\ (PendingIn(feed.active, <<>>, k) \/ k = last.minute) =>
        LowIn(feed.active, <<>>, k) /\ HighIn(feed.active, <<>>, k)
  BY DEF WholeInv, CandlesAreWhole, NothingMissed
<1> QED BY <1>2, <1>3, <1>4 DEF Reading

(* The market widens only the current minute, which is not closed anywhere yet. *)
LEMMA TradeKeepsWhole ==
  ASSUME WholeInv, NEW p \in Price, Trade(p)
  PROVE  CandlesAreWhole'
<1> DEFINE t == [minute |-> minute, price |-> p]
<1>1. /\ minute \in Minutes /\ traded \in Ranges /\ t \in Tick /\ t.minute = minute /\ t.price = p
      /\ last \in Tick \cup {None} /\ feed.active \in Ranges
      /\ wire \in Seq(Tick) /\ Len(wire) \in Nat /\ DOMAIN wire = 1..Len(wire)
  BY LenProperties DEF WholeInv, StreamInv, TypeOK, Ranges, Tick
<1>2. /\ \A m \in Minutes : m # minute => traded'[m] = traded[m]
      /\ traded'[minute] = Widened(traded[minute], p)
      /\ last' = t /\ UNCHANGED <<minute, stream, feed, store, answer>>
  BY <1>1 DEF Trade, Ranges
<1>3. partial \subseteq partial' /\ partial' \subseteq partial \cup {minute}
  BY DEF Trade
<1>4. Whole(feed.draft)' /\ Whole(store)' /\ Whole(answer)'
  <2>1. \A m \in Minutes : m < minute => traded'[m] = traded[m]
    BY <1>1, <1>2, BoundsAssumption DEF Minutes
  <2> QED BY <1>2, <1>3, <2>1 DEF Whole, WholeInv, CandlesAreWhole
<1>5. \A m \in Minutes : traded[m] # None => last # None /\ m <= last.minute /\ last.minute <= minute /\ m <= minute
  BY <1>1, BoundsAssumption DEF WholeInv, CandlesAreWhole, InOrder, Tick, Minutes
<1>6. \A i \in DOMAIN wire : wire[i].minute \in Minutes /\ wire[i].minute <= minute
  <2>1. \A i \in DOMAIN wire : wire[i] \in Tick
    BY <1>1, ElementOfSeq
  <2> QED BY <1>1, <2>1, BoundsAssumption DEF WholeInv, CandlesAreWhole, InOrder, Tick, Minutes
<1>7. \A m \in Present(feed.active) : m <= minute
  BY <1>1, BoundsAssumption DEF WholeInv, CandlesAreWhole, InOrder, Tick, Minutes, Present
<1>8. CASE /\ stream = "open" /\ wire' = Append(wire, t) /\ UNCHANGED partial
  <2>1. DOMAIN wire' = 1..(Len(wire) + 1) /\ wire'[Len(wire) + 1] = t
          /\ \A i \in DOMAIN wire : wire'[i] = wire[i] /\ i \in DOMAIN wire'
    BY <1>1, <1>8, AppendProperties, LenProperties
  <2>2. \A i \in DOMAIN wire' : i \in DOMAIN wire \/ i = Len(wire) + 1
    BY <1>1, <2>1
  <2>3. Len(wire) + 1 \in DOMAIN wire' /\ \A i \in DOMAIN wire : ~(Len(wire) + 1 <= i)
    BY <1>1, <2>1
  <2>4. minute <= minute
    BY <1>1, BoundsAssumption DEF Minutes
  <2>5. \A i \in DOMAIN wire' : wire'[i].minute <= minute
    BY <1>1, <1>6, <2>1, <2>2, <2>4
  <2>6. \A i, j \in DOMAIN wire' : i <= j => wire'[i].minute <= wire'[j].minute
    <3> SUFFICES ASSUME NEW i \in DOMAIN wire', NEW j \in DOMAIN wire', i <= j
                 PROVE  wire'[i].minute <= wire'[j].minute
      OBVIOUS
    <3>1. CASE j = Len(wire) + 1
      BY <1>1, <2>1, <2>5, <3>1
    <3>2. CASE j \in DOMAIN wire
      <4>1. i \in DOMAIN wire
        BY <2>2, <2>3, <3>2
      <4> QED BY <2>1, <3>2, <4>1 DEF WholeInv, CandlesAreWhole, InOrder
    <3> QED BY <2>2, <3>1, <3>2
  <2>7. \A m \in Present(feed.active) : m <= minute /\ \A i \in DOMAIN wire' : m <= wire'[i].minute
    BY <1>1, <1>7, <2>1, <2>2 DEF WholeInv, CandlesAreWhole, InOrder
  <2>8. t # None
    BY <1>1, NoneAssumption
  <2>9. InOrder'
    <3> HIDE DEF t
    <3>1. \A m \in Minutes : traded'[m] # None => m <= minute
      BY <1>2, <1>5, <2>4
    <3> QED BY <1>1, <1>2, <1>8, <2>4, <2>5, <2>7, <2>8, <2>6, <3>1 DEF InOrder, Present
  <2>10. \A k \in Minutes : PendingIn(feed.active, wire', k) => PendingIn(feed.active, wire, k) \/ k = minute
    BY <1>1, <2>1, <2>2 DEF PendingIn
  <2>11. ASSUME NEW k \in Minutes \ partial, traded'[k] # None, PendingIn(feed.active, wire', k)
         PROVE  LowIn(feed.active, wire, k)' /\ HighIn(feed.active, wire, k)'
    <3>1. CASE k # minute
      <4>1. LowIn(feed.active, wire, k) /\ HighIn(feed.active, wire, k) /\ traded'[k] = traded[k]
        BY <1>2, <2>10, <2>11, <3>1 DEF WholeInv, CandlesAreWhole, NothingMissed
      <4> QED BY <1>2, <2>1, <4>1 DEF LowIn, HighIn
    <3>2. CASE k = minute /\ traded[minute] = None
      <4>1. traded'[k].low = p /\ traded'[k].high = p
        BY <1>2, <3>2 DEF Widened, At
      <4> QED BY <1>1, <2>1, <2>3, <3>2, <4>1 DEF LowIn, HighIn
    <3>3. CASE k = minute /\ traded[minute] # None
      <4>1. last.minute = minute
        BY <1>1, <1>5, <3>3, BoundsAssumption DEF Tick, Minutes
      <4>2. LowIn(feed.active, wire, k) /\ HighIn(feed.active, wire, k)
        <5>1. last # None /\ k \in Minutes /\ k \notin partial /\ last.minute = k /\ traded[k] # None
          BY <1>5, <2>11, <3>3, <4>1
        <5>2. PendingIn(feed.active, wire, k)
          BY <5>1 DEF WholeInv, CandlesAreWhole, NothingMissed
        <5> QED BY <5>1, <5>2 DEF WholeInv, CandlesAreWhole, NothingMissed
      <4>3. traded'[k].low \in {p, traded[k].low} /\ traded'[k].high \in {p, traded[k].high}
        BY <1>2, <3>3 DEF Widened
      <4> QED BY <1>1, <1>2, <2>1, <2>3, <3>3, <4>2, <4>3 DEF LowIn, HighIn
    <3> QED BY <3>1, <3>2, <3>3
  <2>12. PendingIn(feed.active, wire', minute)
    BY <1>1, <2>1, <2>3 DEF PendingIn
  <2>13. NothingMissed'
    BY <1>1, <1>2, <1>8, <2>11, <2>12 DEF NothingMissed, PendingIn
  <2> QED BY <1>4, <2>9, <2>13 DEF CandlesAreWhole
<1>9. CASE stream # "open" /\ partial' = partial \cup {minute} /\ UNCHANGED wire
  <2>1. wire = <<>> /\ DOMAIN wire = {} /\ minute <= minute /\ t # None
    BY <1>1, <1>9, NoneAssumption, BoundsAssumption DEF WholeInv, CandlesAreWhole, InOrder, Minutes
  <2> HIDE DEF t
  <2>2. \A m \in Minutes : traded'[m] # None => m <= minute
    BY <1>2, <1>5, <2>1
  <2>3. InOrder'
    BY <1>1, <1>2, <1>7, <1>9, <2>1, <2>2 DEF InOrder, Present
  <2>4. \A k \in Minutes \ partial' : traded'[k] = traded[k] /\ k \notin partial
    BY <1>2, <1>9
  <2>5. \A k \in Minutes \ partial' : traded[k] # None /\ PendingIn(feed.active, wire, k) =>
          LowIn(feed.active, wire, k) /\ HighIn(feed.active, wire, k)
    BY <2>4 DEF WholeInv, CandlesAreWhole, NothingMissed
  <2>6. minute \in partial'
    BY <1>9
  <2>7. NothingMissed'
    BY <1>1, <1>2, <1>9, <2>4, <2>5, <2>6 DEF NothingMissed, PendingIn, LowIn, HighIn
  <2> QED BY <1>4, <2>3, <2>7 DEF CandlesAreWhole
<1> QED BY <1>8, <1>9 DEF Trade

(* An answer of the provider leaves the complete candles whole. *)
LEMMA AnswerKeepsWhole ==
  ASSUME WholeInv, NEW S, S \subseteq Present(traded), Answer(Fetched(S))
  PROVE  CandlesAreWhole'
<1>1. Whole(Fetched(S))
  BY FetchedWhole DEF WholeInv, StreamInv
<1> HIDE DEF Fetched
<1>2. answer' = Fetched(S) /\ UNCHANGED <<minute, traded, last, wire, stream, feed, store, partial>>
  BY DEF Answer
<1>3. Whole(feed.draft)' /\ Whole(store)' /\ Whole(answer)'
  BY <1>1, <1>2 DEF Whole, WholeInv, CandlesAreWhole
<1>4. InOrder' /\ NothingMissed'
  BY <1>2 DEF InOrder, NothingMissed, PendingIn, LowIn, HighIn, Present, WholeInv, CandlesAreWhole
<1> QED BY <1>3, <1>4 DEF CandlesAreWhole

(* A connection that is lost, or a cycle that is, marks every minute it knew in part. *)
LEMMA LossKeepsWhole ==
  ASSUME WholeInv, UNCHANGED <<minute, traded, last, store, answer>>,
         wire' = <<>>, stream' # "open" \/ stream' = stream,
         \/ feed'.active = feed.active /\ feed'.draft = feed.draft /\ partial' = partial \cup Abandoned(Nothing, wire)
         \/ feed' = Fresh /\ partial' = partial \cup Abandoned(feed.active, wire)
  PROVE  CandlesAreWhole'
<1>1. partial \subseteq partial'
  OBVIOUS
<1>2. Whole(feed.draft)' /\ Whole(store)' /\ Whole(answer)'
  <2>1. feed'.draft = feed.draft \/ feed'.draft = Nothing
    BY DEF Fresh
  <2>2. Whole(store)' /\ Whole(answer)' /\ (feed'.draft = feed.draft => Whole(feed.draft)')
    BY <1>1 DEF Whole, WholeInv, CandlesAreWhole
  <2>3. feed'.draft = Nothing => Whole(feed.draft)'
    BY DEF Whole, Nothing
  <2> QED BY <2>1, <2>2, <2>3
<1>3. feed'.active = feed.active \/ feed'.active = Nothing
  BY DEF Fresh
<1>4. Present(feed'.active) \subseteq Present(feed.active)
  BY <1>3 DEF Present, Nothing
<1>5. InOrder'
  BY <1>4 DEF InOrder, WholeInv, CandlesAreWhole, Present
<1>6. \A i \in DOMAIN wire : wire[i].minute \in partial'
  BY DEF Abandoned
<1>7. last # None => last \in Tick /\ last.minute \in Minutes
  BY DEF WholeInv, StreamInv, TypeOK, Tick
<1>8. ASSUME NEW k \in Minutes, k \notin partial', PendingIn(feed.active, wire, k)
      PROVE  feed'.active = feed.active /\ feed.active[k] # None
  BY <1>6, <1>8 DEF PendingIn, Abandoned, Present
<1>9. ASSUME NEW k \in Minutes \ partial', traded[k] # None, PendingIn(feed'.active, <<>>, k)
      PROVE  LowIn(feed'.active, <<>>, k) /\ HighIn(feed'.active, <<>>, k)
  <2>1. feed'.active = feed.active /\ feed.active[k] # None
    BY <1>3, <1>9 DEF PendingIn, Nothing
  <2>2. LowIn(feed.active, wire, k) /\ HighIn(feed.active, wire, k)
    BY <1>1, <1>9, <2>1 DEF WholeInv, CandlesAreWhole, NothingMissed, PendingIn
  <2> QED BY <1>6, <1>9, <2>1, <2>2 DEF LowIn, HighIn
<1>10. last # None => last.minute \in partial' \/ PendingIn(feed'.active, <<>>, last.minute)
  BY <1>1, <1>7, <1>8 DEF WholeInv, CandlesAreWhole, NothingMissed, PendingIn
<1>11. NothingMissed'
  BY <1>9, <1>10 DEF NothingMissed, PendingIn, LowIn, HighIn
<1> QED BY <1>2, <1>5, <1>11 DEF CandlesAreWhole

(* The feed starts with nothing that is not whole. *)
LEMMA InitWhole == Init => WholeInv
<1> SUFFICES ASSUME Init PROVE WholeInv
  OBVIOUS
<1>1. feed.active = Nothing /\ feed.draft = Nothing /\ store = Nothing /\ answer = Nothing
        /\ wire = <<>> /\ traded = Nothing /\ last = None
  BY DEF Init, Fresh
<1>2. InOrder
  BY <1>1 DEF InOrder, Nothing, Present
<1>3. NothingMissed
  BY <1>1 DEF NothingMissed, Nothing
<1> QED BY <1>1, <1>2, <1>3, InitStream, NothingWhole DEF WholeInv, CandlesAreWhole
-----------------------------------------------------------------------------
(* Every step leaves the complete candles whole. *)
LEMMA StepKeepsWhole ==
  ASSUME WholeInv, [Next]_vars
  PROVE  WholeInv'
<1>1. StreamInv'
  BY StepKeepsStream DEF WholeInv
<1>2. CASE \E p \in Price : Trade(p)
  BY <1>1, <1>2, TradeKeepsWhole DEF WholeInv
<1>3. CASE NextMinute
  <2>1. minute' = minute + 1 /\ minute \in Minutes /\ (last # None => last.minute \in Minutes)
          /\ UNCHANGED <<traded, last, wire, stream, feed, store, answer, partial>>
    BY <1>3 DEF NextMinute, WholeInv, StreamInv, TypeOK, Tick
  <2>2. \A m \in Minutes : m < minute => m < minute'
    BY <2>1, BoundsAssumption DEF Minutes
  <2>3. last # None => last.minute <= minute'
    BY <2>1, BoundsAssumption DEF WholeInv, CandlesAreWhole, InOrder, Minutes
  <2>4. Whole(feed.draft)' /\ Whole(store)' /\ Whole(answer)'
    BY <2>1, <2>2 DEF Whole, WholeInv, CandlesAreWhole
  <2>5. InOrder'
    BY <2>1, <2>3 DEF InOrder, Present, WholeInv, CandlesAreWhole
  <2>6. NothingMissed'
    BY <2>1 DEF NothingMissed, PendingIn, LowIn, HighIn, WholeInv, CandlesAreWhole
  <2> QED BY <1>1, <2>4, <2>5, <2>6 DEF WholeInv, CandlesAreWhole
<1>4. CASE Connect
  <2>1. wire = <<>> /\ wire' \in {<<>>, <<last>>} /\ (last = None => wire' = <<>>) /\ stream' = "open"
          /\ UNCHANGED <<minute, traded, last, feed, store, answer, partial>>
    BY <1>4 DEF Connect, WholeInv, CandlesAreWhole, InOrder
  <2>2. \A i \in DOMAIN wire' : wire'[i] = last /\ last # None
    BY <2>1
  <2>3. last # None => last.minute \in Minutes /\ last.minute <= last.minute
    BY BoundsAssumption DEF WholeInv, StreamInv, TypeOK, Tick, Minutes
  <2>4. InOrder'
    BY <2>1, <2>2, <2>3 DEF InOrder, Present, WholeInv, CandlesAreWhole
  <2>5. \A k \in Minutes \ partial : PendingIn(feed.active, wire', k) => PendingIn(feed.active, wire, k)
    BY <2>1, <2>2 DEF PendingIn, WholeInv, CandlesAreWhole, NothingMissed
  <2>6. \A k \in Minutes \ partial : traded[k] # None /\ PendingIn(feed.active, wire', k) =>
          LowIn(feed.active, wire, k) /\ HighIn(feed.active, wire, k)
    BY <2>5 DEF WholeInv, CandlesAreWhole, NothingMissed
  <2>7. last # None => last.minute \in partial \/ PendingIn(feed.active, wire', last.minute)
    BY <2>1 DEF PendingIn, WholeInv, CandlesAreWhole, NothingMissed
  <2>8. NothingMissed'
    BY <2>1, <2>6, <2>7 DEF NothingMissed, PendingIn, LowIn, HighIn
  <2>9. Whole(feed.draft)' /\ Whole(store)' /\ Whole(answer)'
    BY <2>1 DEF Whole, WholeInv, CandlesAreWhole
  <2> QED BY <1>1, <2>4, <2>8, <2>9 DEF WholeInv, CandlesAreWhole
<1>5. CASE Drop
  BY <1>1, <1>5, LossKeepsWhole DEF Drop, WholeInv
<1>6. CASE ReadTick
  <2>1. PICK backfilled \in {Nothing, Backfill(Head(wire))} : Consume(Head(wire), TRUE, backfilled, Tail(wire))
    BY <1>6 DEF ReadTick
  <2>2. backfilled \in Candles /\ Whole(backfilled)
    BY NothingType, NothingWhole, FetchedType, FetchedWhole, NewestArePresent DEF Backfill, WholeInv, StreamInv
  <2> QED BY <1>1, <1>6, <2>1, <2>2, TailIsReal, NextTickIsReading, ConsumeKeepsWhole DEF ReadTick, WholeInv
<1>7. CASE Silence
  <2>1. CASE last # None /\ Consume(last, FALSE, Nothing, <<>>)
    <3>1. last \in Tick /\ Real(last) /\ <<>> \in Seq(Tick)
      BY <2>1 DEF WholeInv, StreamInv, TypeOK, EverythingIsReal
    <3> QED BY <1>1, <1>7, <2>1, <3>1, NothingType, NothingWhole, LastTradeIsReading, ConsumeKeepsWhole
            DEF Silence, WholeInv
  <2>2. CASE stream' = "finished" /\ feed' = [feed EXCEPT !.connected = FALSE] /\ UNCHANGED <<wire, store, partial>>
    <3>1. wire = <<>> /\ feed'.active = feed.active /\ feed'.draft = feed.draft
            /\ UNCHANGED <<minute, traded, last, wire, store, answer, partial>>
      BY <1>7, <2>2 DEF Silence, WholeInv, StreamInv, TypeOK
    <3>2. InOrder' /\ NothingMissed'
      BY <3>1 DEF InOrder, NothingMissed, PendingIn, LowIn, HighIn, Present, WholeInv, CandlesAreWhole
    <3>3. Whole(feed.draft)' /\ Whole(store)' /\ Whole(answer)'
      BY <3>1 DEF Whole, WholeInv, CandlesAreWhole
    <3> QED BY <1>1, <3>2, <3>3 DEF WholeInv, CandlesAreWhole
  <2> QED BY <1>7, <2>1, <2>2 DEF Silence
<1>8. CASE Fail
  BY <1>1, <1>8, LossKeepsWhole DEF Fail, WholeInv
<1>9. CASE Refresh
  BY <1>1, <1>9, AnswerKeepsWhole, NewestArePresent DEF Refresh, WholeInv
<1>10. CASE RepairGaps
  <2> DEFINE fetched == Newest(Cardinality(Gaps) + GapExtra)
             S == IF fetched \cap Gaps # {} THEN fetched \cap Gaps ELSE fetched
  <2>1. S \subseteq Present(traded)
    BY NewestArePresent
  <2> QED BY <1>1, <1>10, <2>1, AnswerKeepsWhole DEF RepairGaps, WholeInv
<1>11. CASE FillHistory
  <2> DEFINE S == {m \in Present(traded) : m < minute /\ \A k \in Present(store) : k <= m}
  <2>1. S \subseteq Present(traded)
    OBVIOUS
  <2> QED BY <1>1, <1>11, <2>1, AnswerKeepsWhole DEF FillHistory, WholeInv
<1>12. CASE StoreAnswer
  <2>1. Whole(Over(answer, store)) /\ store' = Over(answer, store) /\ answer' = Nothing
          /\ UNCHANGED <<minute, traded, last, wire, stream, feed, partial>>
    BY <1>12, OverWhole DEF StoreAnswer, WholeInv, CandlesAreWhole, StreamInv, TypeOK
  <2>2. Whole(feed.draft)' /\ Whole(store)' /\ Whole(answer)'
    BY <2>1, NothingWhole DEF Whole, WholeInv, CandlesAreWhole
  <2>3. InOrder' /\ NothingMissed'
    BY <2>1 DEF InOrder, NothingMissed, PendingIn, LowIn, HighIn, Present, WholeInv, CandlesAreWhole
  <2> QED BY <1>1, <2>2, <2>3 DEF WholeInv, CandlesAreWhole
<1>13. CASE UNCHANGED vars
  <2>1. UNCHANGED <<minute, traded, last, wire, stream, feed, store, answer, partial>>
    BY <1>13 DEF vars
  <2>2. InOrder' /\ NothingMissed'
    BY <2>1 DEF InOrder, NothingMissed, PendingIn, LowIn, HighIn, Present, WholeInv, CandlesAreWhole
  <2>3. Whole(feed.draft)' /\ Whole(store)' /\ Whole(answer)'
    BY <2>1 DEF Whole, WholeInv, CandlesAreWhole
  <2> QED BY <1>1, <2>2, <2>3 DEF WholeInv, CandlesAreWhole
<1> QED BY <1>2, <1>3, <1>4, <1>5, <1>6, <1>7, <1>8, <1>9, <1>10, <1>11, <1>12, <1>13 DEF Next

(* A stored candle that claims to be complete is over and is its whole minute, unless   *)
(* some cycle missed a part of that minute: no reading, batch, reconnection or REST     *)
(* upsert, in any order, leaves another one.                                            *)
THEOREM CompleteCandlesAreWhole == Spec => []CompleteIsWhole
<1>1. WholeInv => CompleteIsWhole
  BY DEF WholeInv, CandlesAreWhole, Whole, CompleteIsWhole, Present
<1> QED BY InitWhole, StepKeepsWhole, <1>1, PTL DEF Spec
=============================================================================
