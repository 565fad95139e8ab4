------------------------ MODULE MarketCollectorProofs ------------------------
(***************************************************************************)
(* Proofs about the market collector, for any universe, faults, breaks,    *)
(* queue size and number of bars.  CollectorInv joins what the queue       *)
(* carries to what the goroutine remembers: frames of an instrument come   *)
(* in order and never lie before the bar or the quote it has seen last.    *)
(***************************************************************************)
EXTENDS MarketCollector, CoalescingQueueProofs

Rows == {"none", "partial", "final"}
FeedEvents == QueueEvents({"candle", "last_price", "orderbook", "gap", "down"}, Uids \cup {All} \cup Ends)

CollectorTypes ==
  /\ now \in Bars /\ traded \in [Uids -> SUBSET Bars] /\ feed \in Seq(FeedEvents)
  /\ store \in [Uids -> [Bars -> Rows]]
  /\ forming \in [Uids -> Bars \cup {0}] /\ watermark \in [Uids -> Bars \cup {0}]
  /\ heard \in [Uids -> SUBSET Bars] /\ missed \in [Uids -> SUBSET Bars]
  /\ quoteState \in [Uids -> QuoteRows] /\ latest \in [Uids -> QuoteRows]
  /\ spent \in [breaks : Nat, quotes : Nat, crashes : Nat]

\* A frame on its way is of a bar that has traded, and of none before the bar
\* or the quote the collector has taken last.
Current(e) ==
  /\ e.uid \in Uids
  /\ e.kind = "candle" => e.time \in traded[e.uid] /\ e.time <= now /\ forming[e.uid] <= e.time
  /\ e.kind = "last_price" => quoteState[e.uid].last <= e.n /\ e.n <= spent.quotes
  /\ e.kind = "orderbook" => quoteState[e.uid].book <= e.n /\ e.n <= spent.quotes

FeedInv == InOrder(feed) /\ \A i \in DOMAIN feed : feed[i].kind \in FrameKinds => Current(feed[i])

SeenInv ==
  \A u \in Uids :
    /\ forming[u] <= now /\ heard[u] \subseteq traded[u]
    /\ quoteState[u].last <= spent.quotes /\ quoteState[u].book <= spent.quotes

\* A confirmation is of one closed bar, and the goroutine waits for it.
ConfirmInv ==
  call.why = "confirm" => at = "call" /\ call.to = call.from /\ call.from \in Bars /\ call.from < now

\* The row a reader takes for the latest is none of a later process, and of
\* this process it is not ahead of the quote that has been composed.
LatestInv ==
  \A u \in Uids :
    /\ latest[u].run <= spent.crashes
    /\ latest[u].run = spent.crashes =>
         /\ latest[u].ts <= quoteState[u].ts
         /\ latest[u].last <= quoteState[u].last /\ latest[u].book <= quoteState[u].book

CollectorInv ==
  /\ CollectorTypes /\ FeedInv /\ SeenInv /\ ConfirmInv /\ LatestInv
  /\ WatermarkStored /\ HeardBarsSettle

-----------------------------------------------------------------------------
(* Greatest elements *)

LEMMA MaxOfTwo ==
  ASSUME NEW a \in Nat, NEW b \in Nat
  PROVE  Max({a, b}) \in {a, b} /\ Max({a, b}) \in Nat /\ Max({a, b}) >= a /\ Max({a, b}) >= b
<1>1. \E x \in {a, b} : \A y \in {a, b} : x >= y
  BY a >= b \/ b >= a
<1> QED BY <1>1 DEF Max

LEMMA MaxOfBars ==
  ASSUME CollectorAssumption, NEW S \in SUBSET Bars
  PROVE  /\ Max(S \cup {0}) \in S \cup {0} /\ Max(S \cup {0}) \in Nat
         /\ \A t \in S : t <= Max(S \cup {0})
<1>1. MaxBar \in Nat
  BY DEF CollectorAssumption
<1>2. \E x \in S \cup {0} : \A y \in S \cup {0} : x >= y
  <2>1. CASE S = {}
    BY <2>1
  <2>2. CASE S # {}
    <3> DEFINE T == {MaxBar + 1 - t : t \in S}
    <3>1. T \in SUBSET (1..MaxBar) /\ T # {}
      <4>1. \A t \in S : t \in 1..MaxBar /\ MaxBar + 1 - t \in 1..MaxBar
        BY <1>1 DEF Bars
      <4> QED BY <2>2, <4>1
    <3>2. PICK i \in T : \A j \in T : i <= j
      BY <1>1, <3>1, LeastIndex
    <3>3. PICK t \in S : i = MaxBar + 1 - t
      BY <3>2
    <3>4. ASSUME NEW y \in S PROVE t >= y
      <4>1. MaxBar + 1 - t <= MaxBar + 1 - y
        BY <3>2, <3>3
      <4> QED BY <1>1, <4>1 DEF Bars
    <3>5. t >= 0
      BY <1>1 DEF Bars
    <3> QED BY <3>4, <3>5
  <2> QED BY <2>1, <2>2
<1> DEFINE m == Max(S \cup {0})
<1>3. m \in S \cup {0} /\ \A y \in S \cup {0} : m >= y
  BY <1>2 DEF Max
<1> HIDE DEF m
<1>4. m \in Nat /\ \A t \in S : t \in Nat /\ t <= m
  BY <1>1, <1>3 DEF Bars
<1> QED BY <1>3, <1>4 DEF m

-----------------------------------------------------------------------------
(* The store.  Only Answer and OnCandle write rows, both by UpsertCandle. *)

\* What an answer makes final, and where it takes the watermark.
Settled(u, C) ==
  /\ \A t \in Bars : store'[u][t] = "final" <=> store[u][t] = "final" \/ t \in C
  /\ watermark'[u] = Max({watermark[u], Max(C \cup {0})})

LEMMA AnswerSettles ==
  ASSUME CollectorTypes, NEW late \in BOOLEAN, NEW written \in 0..MaxBar, Answer(late, written)
  PROVE  /\ store' \in [Uids -> [Bars -> Rows]]
         /\ \A u \in Uids : \/ u = call.uid /\ \E C \in SUBSET Bars : Settled(u, C)
                            \/ u # call.uid /\ store'[u] = store[u] /\ watermark'[u] = watermark[u]
<1> DEFINE mine == {t \in Asked : (call.why = "confirm" => t \in Completed(late)) /\ t <= written}
           C == Complete(mine, late)
<1>1. /\ Carry(mine, Completed(late))
      /\ watermark' = AdvanceWatermark(call.uid, Max(C \cup {0}))
  BY DEF Answer
<1>2. call.uid \in Uids => mine \subseteq Bars
  BY DEF Asked, CollectorTypes
<1>3. C = mine \cap Completed(late)
  BY DEF Complete
<1> HIDE DEF mine, C
<1> DEFINE row(t) == IF t \in mine THEN UpsertCandle(store[call.uid][t], IF t \in Completed(late) THEN "final" ELSE "partial")
                     ELSE store[call.uid][t]
<1>4. store' = [store EXCEPT ![call.uid] = [t \in Bars |-> row(t)]]
  BY <1>1 DEF Carry
<1>5. call.uid \in Uids => \A t \in Bars : row(t) \in Rows /\ (row(t) = "final" <=> store[call.uid][t] = "final" \/ t \in C)
  BY <1>3 DEF CollectorTypes, UpsertCandle, Rows
<1> HIDE DEF row
<1>6. store' \in [Uids -> [Bars -> Rows]]
  BY <1>4, <1>5 DEF CollectorTypes
<1>7. ASSUME NEW u \in Uids, u # call.uid PROVE store'[u] = store[u] /\ watermark'[u] = watermark[u]
  BY <1>1, <1>4, <1>7 DEF CollectorTypes, AdvanceWatermark
<1>8. ASSUME NEW u \in Uids, u = call.uid PROVE Settled(u, C) /\ C \in SUBSET Bars
  <2>1. store'[u] = [t \in Bars |-> row(t)]
    BY <1>4, <1>8 DEF CollectorTypes
  <2>2. watermark'[u] = Max({watermark[u], Max(C \cup {0})})
    BY <1>1, <1>8 DEF CollectorTypes, AdvanceWatermark
  <2> QED BY <1>2, <1>3, <1>5, <1>8, <2>1, <2>2 DEF Settled
<1> QED BY <1>6, <1>7, <1>8

LEMMA CandleWrites ==
  ASSUME CollectorTypes, NEW ok \in BOOLEAN, OnCandle(ok)
  PROVE  /\ store' \in [Uids -> [Bars -> Rows]] /\ UNCHANGED <<watermark, spent>>
         /\ \A u \in Uids, t \in Bars : store'[u][t] = "final" <=> store[u][t] = "final"
<1> DEFINE e == Head(feed)
<1>1. UNCHANGED <<watermark, spent>>
  BY DEF OnCandle
<1>2. CASE UNCHANGED store
  BY <1>1, <1>2 DEF CollectorTypes
<1>3. CASE store' = [store EXCEPT ![e.uid][e.time] = UpsertCandle(@, "partial")]
  BY <1>1, <1>3 DEF CollectorTypes, UpsertCandle, Rows
<1> QED BY <1>2, <1>3 DEF OnCandle

LEMMA WhoWrites ==
  ASSUME CollectorTypes, [CollectorNext]_collectorVars
  PROVE  \/ UNCHANGED <<store, watermark>> /\ spent'.crashes = spent.crashes
         \/ \E late \in BOOLEAN, written \in 0..MaxBar : Answer(late, written)
         \/ \E ok \in BOOLEAN : OnCandle(ok)
         \/ CollectorCrash
<1>1. CASE Exchange
  <2>1. UNCHANGED <<store, watermark>>
    BY <1>1 DEF Exchange, Trade, Roll, Disconnect, Reconnect, Quote, StreamEnds, health
  <2>2. spent'.crashes = spent.crashes
    BY <1>1 DEF Exchange, Trade, Roll, Disconnect, Reconnect, Quote, StreamEnds, histories, CollectorTypes
  <2> QED BY <2>1, <2>2
<1>2. CASE Collect
  <2> DEFINE idle == UNCHANGED <<store, watermark>> /\ spent'.crashes = spent.crashes
  <2>1. ASSUME NEW ok \in BOOLEAN, Start(ok) \/ NextRange(ok) \/ OnQuote(ok) PROVE idle
    BY <2>1 DEF Start, NextRange, OnQuote, health, histories
  <2>2. ASSUME NEW fault \in {"call", "garbled"}, CallFails(fault) PROVE idle
    BY <2>2 DEF CallFails
  <2>3. CASE BackfillDone \/ Connect \/ OnGap \/ OnDown \/ Restart
    BY <2>3 DEF BackfillDone, Connect, OnGap, OnDown, Restart, health, histories
  <2> HIDE DEF idle
  <2>4. CASE \E ok \in BOOLEAN : Start(ok) \/ NextRange(ok) \/ OnCandle(ok) \/ OnQuote(ok)
    <3>1. PICK ok \in BOOLEAN : Start(ok) \/ NextRange(ok) \/ OnCandle(ok) \/ OnQuote(ok)
      BY <2>4
    <3>2. CASE OnCandle(ok)
      BY <3>2
    <3> QED BY <2>1, <3>1, <3>2 DEF idle
  <2>5. CASE \E late \in BOOLEAN, written \in 0..MaxBar : Answer(late, written)
    BY <2>5
  <2>6. CASE \E fault \in {"call", "garbled"} : CallFails(fault)
    BY <2>2, <2>6 DEF idle
  <2> QED BY <1>2, <2>3, <2>4, <2>5, <2>6 DEF Collect, idle
<1>3. CASE UNCHANGED collectorVars
  BY <1>3 DEF collectorVars, health, histories
<1> QED BY <1>1, <1>2, <1>3 DEF CollectorNext

LEMMA FinalStays ==
  ASSUME CollectorTypes, [CollectorNext]_collectorVars
  PROVE  /\ store' \in [Uids -> [Bars -> Rows]]
         /\ \A u \in Uids, t \in Bars : store[u][t] = "final" => store'[u][t] = "final"
<1>1. CASE UNCHANGED store
  BY <1>1 DEF CollectorTypes
<1>2. ASSUME NEW late \in BOOLEAN, NEW written \in 0..MaxBar, Answer(late, written)
      PROVE  /\ store' \in [Uids -> [Bars -> Rows]]
             /\ \A u \in Uids, t \in Bars : store[u][t] = "final" => store'[u][t] = "final"
  BY <1>2, AnswerSettles DEF Settled
<1>3. ASSUME NEW ok \in BOOLEAN, OnCandle(ok)
      PROVE  /\ store' \in [Uids -> [Bars -> Rows]]
             /\ \A u \in Uids, t \in Bars : store[u][t] = "final" => store'[u][t] = "final"
  BY <1>3, CandleWrites
<1>4. CASE CollectorCrash
  BY <1>4 DEF CollectorCrash, CollectorTypes
<1> QED BY <1>1, <1>2, <1>3, <1>4, WhoWrites

LEMMA WatermarkKeeps ==
  ASSUME CollectorAssumption, CollectorTypes, WatermarkStored, [CollectorNext]_collectorVars
  PROVE  watermark' \in [Uids -> Bars \cup {0}] /\ WatermarkStored'
<1>1. CASE UNCHANGED <<store, watermark>> /\ spent'.crashes = spent.crashes
  <2>1. \A u \in Uids : LatestComplete(u)' = LatestComplete(u)
    BY <1>1 DEF LatestComplete
  <2> QED BY <1>1, <2>1 DEF CollectorTypes, WatermarkStored
<1>2. ASSUME NEW ok \in BOOLEAN, OnCandle(ok)
      PROVE  watermark' \in [Uids -> Bars \cup {0}] /\ WatermarkStored'
  <2>1. /\ UNCHANGED <<watermark, spent>>
        /\ \A u \in Uids, t \in Bars : store'[u][t] = "final" <=> store[u][t] = "final"
    BY <1>2, CandleWrites
  <2>2. \A u \in Uids : {t \in Bars : store'[u][t] = "final"} = {t \in Bars : store[u][t] = "final"}
    BY <2>1
  <2>3. \A u \in Uids : LatestComplete(u)' = LatestComplete(u)
    BY <2>2 DEF LatestComplete
  <2> QED BY <2>1, <2>3 DEF CollectorTypes, WatermarkStored
<1>3. CASE CollectorCrash
  BY <1>3 DEF CollectorCrash, CollectorTypes, WatermarkStored
<1>4. ASSUME NEW late \in BOOLEAN, NEW written \in 0..MaxBar, Answer(late, written)
      PROVE  watermark' \in [Uids -> Bars \cup {0}] /\ WatermarkStored'
  <2>1. spent' = spent /\ watermark' \in [Uids -> Bars \cup {0}] 
    <3>1. spent' = spent /\ DOMAIN watermark' = Uids /\ watermark' = [u \in Uids |-> watermark'[u]]
      BY <1>4 DEF Answer, AdvanceWatermark, CollectorTypes
    <3>2. ASSUME NEW u \in Uids PROVE watermark'[u] \in Bars \cup {0}
      <4>1. CASE watermark'[u] = watermark[u]
        BY <4>1 DEF CollectorTypes
      <4>2. ASSUME NEW C \in SUBSET Bars, Settled(u, C) PROVE watermark'[u] \in Bars \cup {0}
        <5>1. watermark[u] \in Bars \cup {0}
          BY DEF CollectorTypes
        <5>2. Max(C \cup {0}) \in Bars \cup {0}
          BY MaxOfBars
        <5>3. watermark[u] \in Nat /\ Max(C \cup {0}) \in Nat
          BY <5>1, <5>2 DEF Bars
        <5>4. watermark'[u] \in {watermark[u], Max(C \cup {0})}
          BY <4>2, <5>3, MaxOfTwo DEF Settled
        <5> QED BY <5>1, <5>2, <5>4
      <4> QED BY <1>4, <4>1, <4>2, AnswerSettles
    <3> QED BY <3>1, <3>2
  <2>2. ASSUME NEW u \in Uids
        PROVE  /\ watermark'[u] # 0 => store'[u][watermark'[u]] = "final"
               /\ spent'.crashes = 0 => watermark'[u] = LatestComplete(u)'
    <3>1. CASE store'[u] = store[u] /\ watermark'[u] = watermark[u]
      BY <2>1, <3>1 DEF WatermarkStored, LatestComplete
    <3>2. ASSUME NEW C \in SUBSET Bars, Settled(u, C)
          PROVE  /\ watermark'[u] # 0 => store'[u][watermark'[u]] = "final"
                 /\ spent'.crashes = 0 => watermark'[u] = LatestComplete(u)'
      <4> DEFINE F == {t \in Bars : store[u][t] = "final"}
                 new == {t \in Bars : store'[u][t] = "final"}
                 m == Max(C \cup {0})  w == watermark[u]  v == watermark'[u]
      <4>1. new = F \cup C
        BY <3>2 DEF Settled
      <4>2. m \in C \cup {0} /\ m \in Nat /\ \A t \in C : t <= m
        BY MaxOfBars
      <4>3. w \in Nat /\ v = Max({w, m}) /\ v \in {w, m} /\ v \in Nat /\ v >= w /\ v >= m
        <5>1. w \in Bars \cup {0}
          BY DEF CollectorTypes
        <5>2. w \in Nat
          BY <5>1 DEF Bars
        <5>3. v = Max({w, m})
          BY <3>2 DEF Settled
        <5> HIDE DEF v, w, m
        <5> QED BY <4>2, <5>2, <5>3, MaxOfTwo
      <4>4. w # 0 => w \in F
        BY DEF WatermarkStored, CollectorTypes
      <4>5. v # 0 => v \in new
        BY <4>1, <4>2, <4>3, <4>4
      <4>6. ASSUME spent.crashes = 0 PROVE v = Max(new \cup {0})
        <5>1. w = Max(F \cup {0}) /\ F \in SUBSET Bars
          BY <4>6 DEF WatermarkStored, LatestComplete
        <5>2. \A t \in F : t \in Nat /\ t <= w
          <6>1. \A t \in F : t <= Max(F \cup {0})
            BY MaxOfBars
          <6> QED BY <5>1, <6>1 DEF Bars
        <5>3. \A t \in new : t \in Nat /\ t <= v
          BY <4>1, <4>2, <4>3, <5>2 DEF Bars
        <5>4. /\ Max(new \cup {0}) \in new \cup {0} /\ Max(new \cup {0}) \in Nat
              /\ \A t \in new : t <= Max(new \cup {0})
          BY MaxOfBars
        <5> HIDE DEF new, v
        <5>5. CASE v = 0
          <6>1. new = {}
            BY <5>3, <5>5 DEF new, Bars
          <6> QED BY <5>4, <5>5, <6>1
        <5>6. CASE v # 0
          BY <4>3, <4>5, <5>3, <5>4, <5>6
        <5> QED BY <5>5, <5>6
      <4> QED BY <2>1, <4>5, <4>6 DEF LatestComplete
    <3> QED BY <1>4, <3>1, <3>2, AnswerSettles
  <2> QED BY <2>1, <2>2 DEF WatermarkStored
<1> QED BY <1>1, <1>2, <1>3, <1>4, WhoWrites

-----------------------------------------------------------------------------
(* What stays true of the queue, the bars and the quotes *)

RestOfTypes ==
  /\ now \in Bars /\ traded \in [Uids -> SUBSET Bars] /\ feed \in Seq(FeedEvents)
  /\ forming \in [Uids -> Bars \cup {0}]
  /\ heard \in [Uids -> SUBSET Bars] /\ missed \in [Uids -> SUBSET Bars]
  /\ quoteState \in [Uids -> QuoteRows] /\ latest \in [Uids -> QuoteRows]
  /\ spent \in [breaks : Nat, quotes : Nat, crashes : Nat]

RestInv == RestOfTypes /\ FeedInv /\ SeenInv /\ ConfirmInv /\ LatestInv

LEMMA RestOfCollectorInv == CollectorInv => CollectorTypes /\ RestInv /\ HeardBarsSettle
BY DEF CollectorInv, CollectorTypes, RestInv, RestOfTypes

LEMMA EventsAreTyped ==
  ASSUME CollectorAssumption
  PROVE  /\ \A kind \in {"candle", "last_price", "orderbook"}, u \in Uids, t \in Nat, n \in Nat :
              LET ev == Event(kind, u, t, n) IN
              ev \in FeedEvents /\ ev.kind = kind /\ ev.uid = u /\ ev.time = t /\ ev.n = n
         /\ GapEvent(All, 0) \in FeedEvents /\ GapEvent(All, 0).kind = "gap"
         /\ \A cause \in Ends : Event("down", cause, 0, 0) \in FeedEvents /\ Event("down", cause, 0, 0).kind = "down"
BY DEF Event, GapEvent, FeedEvents, QueueEvents

LEMMA NothingIsLikeTheRest ==
  ASSUME NEW q, NEW ev, ev.kind \notin FrameKinds
  PROVE  NotBefore(q, ev)
BY DEF NotBefore, Alike

LEMMA FeedGrows ==
  ASSUME FeedInv, feed \in Seq(FeedEvents), NEW ev \in FeedEvents,
         feed' \in Seq(FeedEvents), InOrder(feed'), FramesFrom(feed', Append(feed, ev)),
         ev.kind \in FrameKinds => Current(ev)',
         \A e \in FeedEvents : Current(e) => Current(e)'
  PROVE  FeedInv'
<1>1. /\ DOMAIN Append(feed, ev) = 1..(Len(feed) + 1) /\ DOMAIN feed = 1..Len(feed) /\ Len(feed) \in Nat
      /\ Append(feed, ev)[Len(feed) + 1] = ev /\ \A i \in 1..Len(feed) : Append(feed, ev)[i] = feed[i] /\ feed[i] \in FeedEvents
  BY AppendProperties, LenProperties, ElementOfSeq
<1>2. ASSUME NEW e \in FeedEvents, NEW j \in DOMAIN feed', e = feed'[j], e.kind \in FrameKinds
      PROVE  Current(e)'
  <2>1. PICK i \in 1..(Len(feed) + 1) : e = Append(feed, ev)[i]
    BY <1>1, <1>2 DEF FramesFrom
  <2>2. CASE i = Len(feed) + 1
    BY <1>1, <1>2, <2>1, <2>2
  <2>3. CASE i # Len(feed) + 1
    <3>1. i \in 1..Len(feed)
      BY <1>1, <2>3
    <3>2. e = feed[i]
      BY <1>1, <2>1, <3>1
    <3>3. Current(e)
      BY <1>1, <1>2, <3>1, <3>2 DEF FeedInv
    <3> QED BY <3>3
  <2> QED BY <2>2, <2>3
<1>3. \A j \in DOMAIN feed' : feed'[j] \in FeedEvents
  BY LenProperties, ElementOfSeq
<1> QED BY <1>2, <1>3 DEF FeedInv, Current

-----------------------------------------------------------------------------
(* The exchange and the feed *)

LEMMA TradeKeeps ==
  ASSUME CollectorAssumption, RestInv, NEW u \in Uids, Trade(u)
  PROVE  RestInv'
<1>1. /\ traded' = [traded EXCEPT ![u] = @ \cup {now}] /\ feed' \in {feed, Enqueue(feed, Event("candle", u, now, 0))}
      /\ UNCHANGED <<now, at, call, forming, quoteState, latest, heard, missed, spent>>
  BY DEF Trade, health, quoting
<1>2. now \in Bars /\ now \in Nat /\ traded' \in [Uids -> SUBSET Bars]
      /\ now \in traded'[u] /\ \A v \in Uids : traded[v] \subseteq traded'[v]
  BY <1>1 DEF RestInv, RestOfTypes, Bars
<1>3. PICK ev \in FeedEvents : /\ ev = Event("candle", u, now, 0)
                              /\ ev.kind = "candle" /\ ev.uid = u /\ ev.time = now
  BY <1>2, EventsAreTyped
<1>4. \A e \in FeedEvents : Current(e) => Current(e)'
  BY <1>1, <1>2 DEF Current
<1>5. Current(ev)'
  BY <1>1, <1>2, <1>3 DEF Current, RestInv, SeenInv
<1>6. NotBefore(feed, ev)
  BY <1>3 DEF NotBefore, Alike, Mark, RestInv, FeedInv, Current, FrameKinds
<1>7. /\ feed \in Seq(FeedEvents) /\ InOrder(feed) /\ FeedInv
  BY DEF RestInv, RestOfTypes, FeedInv
<1>8. /\ Enqueue(feed, ev) \in Seq(FeedEvents) /\ InOrder(Enqueue(feed, ev))
      /\ FramesFrom(Enqueue(feed, ev), Append(feed, ev))
  BY <1>3, <1>6, <1>7, EnqueueInOrder DEF FeedEvents
<1>9. CASE feed' = Enqueue(feed, ev)
  <2>1. FeedInv'
    BY <1>3, <1>4, <1>5, <1>7, <1>8, <1>9, FeedGrows
  <2> QED BY <1>1, <1>2, <1>8, <1>9, <2>1 DEF RestInv, RestOfTypes, SeenInv, ConfirmInv, LatestInv
<1>10. CASE feed' = feed
  <2>1. \A i \in DOMAIN feed : feed[i] \in FeedEvents
    BY <1>7, LenProperties, ElementOfSeq
  <2>2. FeedInv'
    BY <1>4, <1>7, <1>10, <2>1 DEF FeedInv, Current
  <2> QED BY <1>1, <1>2, <1>7, <1>10, <2>2 DEF RestInv, RestOfTypes, SeenInv, ConfirmInv, LatestInv
<1> QED BY <1>1, <1>3, <1>9, <1>10

LEMMA RollKeeps ==
  ASSUME CollectorAssumption, RestInv, Roll
  PROVE  RestInv'
<1>1. /\ now' \in Bars /\ now' >= now /\ now \in Nat /\ now' \in Nat
      /\ UNCHANGED <<traded, feed, at, call, forming, quoteState, latest, heard, missed, spent>>
  BY DEF Roll, health, quoting, histories, RestInv, RestOfTypes, Bars, CollectorAssumption
<1>2. RestOfTypes' /\ LatestInv'
  BY <1>1 DEF RestInv, RestOfTypes, LatestInv
<1>3. SeenInv'
  BY <1>1 DEF RestInv, RestOfTypes, SeenInv, Bars
<1>4. ConfirmInv'
  BY <1>1 DEF RestInv, ConfirmInv, Bars
<1>5. \A i \in DOMAIN feed : feed[i].time \in Nat
  <2>1. \A i \in DOMAIN feed : feed[i] \in FeedEvents
    BY LenProperties, ElementOfSeq DEF RestInv, RestOfTypes
  <2> QED BY <2>1 DEF FeedEvents, QueueEvents
<1>6. FeedInv'
  BY <1>1, <1>5 DEF RestInv, FeedInv, Current
<1> QED BY <1>2, <1>3, <1>4, <1>6 DEF RestInv

LEMMA QuoteKeeps ==
  ASSUME CollectorAssumption, RestInv, NEW u \in Uids, NEW kind \in {"last_price", "orderbook"},
         NEW ts \in QuoteTimes, Quote(u, kind, ts)
  PROVE  RestInv'
<1>1. /\ spent' = [spent EXCEPT !.quotes = @ + 1] /\ feed' = Enqueue(feed, Event(kind, u, ts, spent'.quotes))
      /\ UNCHANGED <<now, traded, at, call, forming, quoteState, latest, heard, missed>>
  BY DEF Quote, market, health, quoting
<1>2. PICK n \in Nat : /\ n = spent.quotes + 1 /\ spent'.quotes = n /\ spent.quotes \in Nat
                       /\ spent'.breaks = spent.breaks /\ spent'.crashes = spent.crashes
                       /\ spent' \in [breaks : Nat, quotes : Nat, crashes : Nat]
  <2>1. PICK b \in Nat, q \in Nat, c \in Nat : spent = [breaks |-> b, quotes |-> q, crashes |-> c]
    BY DEF RestInv, RestOfTypes
  <2>2. spent' = [breaks |-> b, quotes |-> q + 1, crashes |-> c]
    BY <1>1, <2>1
  <2> QED BY <2>1, <2>2
<1>3. feed' = Enqueue(feed, Event(kind, u, ts, n))
  BY <1>1, <1>2
<1>4. PICK ev \in FeedEvents : ev = Event(kind, u, ts, n) /\ ev.kind = kind /\ ev.uid = u /\ ev.n = n
  BY <1>2, EventsAreTyped DEF CollectorAssumption
<1>5. \A v \in Uids : /\ quoteState[v].last \in Nat /\ quoteState[v].last <= spent.quotes
                      /\ quoteState[v].book \in Nat /\ quoteState[v].book <= spent.quotes
  BY DEF RestInv, RestOfTypes, SeenInv, QuoteRows
<1>6. \A e \in FeedEvents : Current(e) => Current(e)'
  <2> SUFFICES ASSUME NEW e \in FeedEvents, Current(e) PROVE Current(e)'
    OBVIOUS
  <2>1. e.n \in Nat
    BY DEF FeedEvents, QueueEvents
  <2> QED BY <1>1, <1>2, <2>1 DEF Current
<1>7. Current(ev)'
  BY <1>1, <1>2, <1>4, <1>5 DEF Current
<1>8. /\ feed \in Seq(FeedEvents) /\ InOrder(feed) /\ FeedInv
  BY DEF RestInv, RestOfTypes, FeedInv
<1>9. NotBefore(feed, ev)
  <2> SUFFICES ASSUME NEW i \in DOMAIN feed, Alike(feed[i], ev) PROVE Mark(feed[i]) <= Mark(ev)
    BY DEF NotBefore
  <2>1. feed[i].n \in Nat /\ feed[i].n <= spent.quotes
    <3>1. feed[i] \in FeedEvents
      BY <1>8, LenProperties, ElementOfSeq
    <3>2. Current(feed[i]) /\ feed[i].kind = kind
      BY <1>4, <1>8 DEF Alike, FeedInv
    <3> QED BY <3>1, <3>2 DEF Current, FeedEvents, QueueEvents
  <2>2. Mark(feed[i]) = feed[i].n /\ Mark(ev) = n
    BY <1>4 DEF Mark, Alike
  <2> QED BY <1>2, <2>1, <2>2
<1>10. /\ Enqueue(feed, ev) \in Seq(FeedEvents) /\ InOrder(Enqueue(feed, ev))
       /\ FramesFrom(Enqueue(feed, ev), Append(feed, ev))
  BY <1>4, <1>8, <1>9, EnqueueInOrder DEF FeedEvents
<1>11. FeedInv'
  BY <1>3, <1>4, <1>6, <1>7, <1>8, <1>10, FeedGrows
<1>12. RestOfTypes' /\ ConfirmInv'
  BY <1>1, <1>2, <1>3, <1>4, <1>10 DEF RestInv, RestOfTypes, ConfirmInv
<1>13. SeenInv' /\ LatestInv'
  BY <1>1, <1>2, <1>5 DEF RestInv, SeenInv, LatestInv
<1> QED BY <1>11, <1>12, <1>13 DEF RestInv

\* A gap or a last event behind the frames, and one break more.
LEMMA BreakKeeps ==
  ASSUME CollectorAssumption, RestInv, Disconnect \/ \E cause \in Ends : StreamEnds(cause)
  PROVE  RestInv'
<1> DEFINE gap == GapEvent(All, 0)
           gone == Enqueue(feed, gap)
<1>1. /\ spent' = [spent EXCEPT !.breaks = @ + 1]
      /\ UNCHANGED <<now, traded, at, call, forming, quoteState, latest, heard, missed>>
  BY DEF Disconnect, StreamEnds, health, quoting
<1>2. \/ feed' = gone
      \/ \E cause \in Ends : \/ feed' = Append(gone, Event("down", cause, 0, 0))
                             \/ feed' = Append(feed, Event("down", cause, 0, 0))
  BY DEF Disconnect, StreamEnds
<1>3. /\ spent' \in [breaks : Nat, quotes : Nat, crashes : Nat]
      /\ spent'.quotes = spent.quotes /\ spent'.crashes = spent.crashes
  BY <1>1 DEF RestInv, RestOfTypes
<1>4. \A e \in FeedEvents : Current(e) => Current(e)'
  BY <1>1, <1>3 DEF Current
<1>5. /\ feed \in Seq(FeedEvents) /\ InOrder(feed) /\ FeedInv
  BY DEF RestInv, RestOfTypes, FeedInv
<1>6. gap \in FeedEvents /\ gap.kind = "gap" /\ NotBefore(feed, gap)
  BY EventsAreTyped, NothingIsLikeTheRest DEF FrameKinds
<1> HIDE DEF gap
<1>7. gone \in Seq(FeedEvents) /\ InOrder(gone) /\ FramesFrom(gone, Append(feed, gap))
  BY <1>5, <1>6, EnqueueInOrder DEF FeedEvents
<1> HIDE DEF gone
<1>8. ASSUME NEW q \in Seq(FeedEvents), InOrder(q), FramesFrom(q, Append(feed, gap)),
             NEW cause \in Ends, feed' = Append(q, Event("down", cause, 0, 0))
      PROVE  feed' \in Seq(FeedEvents) /\ InOrder(feed') /\ FramesFrom(feed', Append(feed, gap))
  <2> DEFINE down == Event("down", cause, 0, 0)
  <2>1. down \in FeedEvents /\ down.kind \notin FrameKinds /\ NotBefore(q, down)
    BY EventsAreTyped, NothingIsLikeTheRest DEF FrameKinds
  <2> HIDE DEF down
  <2>2. Append(q, down) \in Seq(FeedEvents) /\ InOrder(Append(q, down))
    BY <1>8, <2>1, AppendInOrder
  <2>3. /\ DOMAIN Append(q, down) = 1..(Len(q) + 1) /\ DOMAIN q = 1..Len(q) /\ Len(q) \in Nat
        /\ Append(q, down)[Len(q) + 1] = down /\ \A i \in 1..Len(q) : Append(q, down)[i] = q[i]
    BY <2>1, AppendProperties, LenProperties
  <2>4. \A i \in 1..(Len(q) + 1) : i \in 1..Len(q) \/ i = Len(q) + 1
    BY <2>3
  <2>5. FramesFrom(Append(q, down), Append(feed, gap))
    BY <1>8, <2>1, <2>3, <2>4 DEF FramesFrom
  <2>6. feed' = Append(q, down)
    BY <1>8 DEF down
  <2> QED BY <2>2, <2>5, <2>6
<1>9. FramesFrom(feed, Append(feed, gap))
  <2>1. /\ DOMAIN Append(feed, gap) = 1..(Len(feed) + 1) /\ DOMAIN feed = 1..Len(feed) /\ Len(feed) \in Nat
        /\ \A i \in 1..Len(feed) : Append(feed, gap)[i] = feed[i] /\ i \in 1..(Len(feed) + 1)
    BY <1>5, <1>6, AppendProperties, LenProperties
  <2> QED BY <2>1 DEF FramesFrom
<1>10. feed' \in Seq(FeedEvents) /\ InOrder(feed') /\ FramesFrom(feed', Append(feed, gap))
  BY <1>2, <1>5, <1>7, <1>8, <1>9
<1>11. FeedInv'
  BY <1>4, <1>5, <1>6, <1>10, FeedGrows DEF FrameKinds
<1>12. RestOfTypes' /\ ConfirmInv'
  BY <1>1, <1>3, <1>10 DEF RestInv, RestOfTypes, ConfirmInv
<1>13. SeenInv' /\ LatestInv'
  BY <1>1, <1>3 DEF RestInv, SeenInv, LatestInv
<1> QED BY <1>11, <1>12, <1>13 DEF RestInv

-----------------------------------------------------------------------------
(* The collector's goroutine *)

\* The event at the head is taken; the others stay current if they come after
\* what the goroutine remembers of it.
LEMMA FeedShrinks ==
  ASSUME RestInv, NEW e, e = Head(feed), Consumed,
         \A f \in FeedEvents :
           f.kind \in FrameKinds /\ Current(f) /\ (Alike(e, f) => Mark(e) <= Mark(f)) => Current(f)'
  PROVE  FeedInv' /\ feed' \in Seq(FeedEvents)
<1>1. feed \in Seq(FeedEvents) /\ feed # <<>> /\ InOrder(feed) /\ feed' = Tail(feed)
  BY DEF RestInv, RestOfTypes, FeedInv, Consumed
<1>2. /\ feed' \in Seq(FeedEvents) /\ InOrder(feed')
      /\ \A i \in DOMAIN feed' : /\ i + 1 \in DOMAIN feed /\ feed'[i] = feed[i + 1]
                                 /\ Alike(e, feed'[i]) => Mark(e) <= Mark(feed'[i])
  BY <1>1, TailInOrder
<1>3. ASSUME NEW f \in FeedEvents, NEW i \in DOMAIN feed', f = feed'[i], f.kind \in FrameKinds
      PROVE  Current(f)'
  <2>1. Current(f)
    BY <1>2, <1>3 DEF RestInv, FeedInv
  <2> QED BY <1>2, <1>3, <2>1
<1>4. \A i \in DOMAIN feed' : feed'[i] \in FeedEvents
  BY <1>2, LenProperties, ElementOfSeq
<1> QED BY <1>2, <1>3, <1>4 DEF FeedInv, Current

LEMMA HeadIsCurrent ==
  ASSUME RestInv, Consumed
  PROVE  /\ Head(feed) \in FeedEvents /\ at = "consume"
         /\ Head(feed).kind \in FrameKinds => Current(Head(feed))
<1>1. feed \in Seq(FeedEvents) /\ feed # <<>> /\ InOrder(feed)
  BY DEF RestInv, RestOfTypes, FeedInv, Consumed
<1>2. 1 \in DOMAIN feed /\ Head(feed) = feed[1] /\ Head(feed) \in FeedEvents
  BY <1>1, TailInOrder
<1> QED BY <1>2 DEF RestInv, FeedInv, Consumed

LEMMA CandleKeeps ==
  ASSUME CollectorAssumption, CollectorTypes, RestInv, HeardBarsSettle, NEW ok \in BOOLEAN, OnCandle(ok)
  PROVE  RestInv' /\ HeardBarsSettle'
<1>1. PICK e : e = Head(feed)
  OBVIOUS
<1>2. Consumed /\ e.kind = "candle"
  BY <1>1 DEF OnCandle
<1>3. e \in FeedEvents /\ at = "consume" /\ Current(e)
  <2>1. Head(feed).kind = "candle" /\ e.kind \in FrameKinds
    BY <1>1, <1>2 DEF FrameKinds
  <2> QED BY <1>1, <1>2, <2>1, HeadIsCurrent DEF Current
<1>4. PICK u \in Uids : u = e.uid
  BY <1>3 DEF Current
<1>5. PICK t \in Bars : t = e.time /\ t \in traded[u] /\ t <= now /\ forming[u] <= t
  BY <1>2, <1>3, <1>4 DEF Current, RestInv, RestOfTypes
<1>6. /\ forming' = [forming EXCEPT ![u] = t] /\ heard' = [heard EXCEPT ![u] = @ \cup {t}]
      /\ UNCHANGED <<now, traded, quoteState, latest, spent>>
  BY <1>1, <1>4, <1>5 DEF OnCandle, market, quoting
<1>7. \A f \in FeedEvents :
        f.kind \in FrameKinds /\ Current(f) /\ (Alike(e, f) => Mark(e) <= Mark(f)) => Current(f)'
  <2> SUFFICES ASSUME NEW f \in FeedEvents, f.kind \in FrameKinds, Current(f), Alike(e, f) => Mark(e) <= Mark(f)
               PROVE  Current(f)'
    OBVIOUS
  <2>1. CASE f.kind = "candle" /\ f.uid = u
    <3>1. t <= f.time
      BY <1>2, <1>4, <1>5, <2>1 DEF Alike, Mark, FrameKinds
    <3>2. forming'[u] = t
      BY <1>6 DEF RestInv, RestOfTypes
    <3> QED BY <1>6, <2>1, <3>1, <3>2 DEF Current
  <2>2. CASE ~(f.kind = "candle" /\ f.uid = u)
    BY <1>6, <2>2 DEF Current, RestInv, RestOfTypes
  <2> QED BY <2>1, <2>2
<1>8. FeedInv' /\ feed' \in Seq(FeedEvents)
  BY <1>1, <1>2, <1>7, FeedShrinks
<1>9. call.why # "confirm"
  BY <1>3 DEF RestInv, ConfirmInv
<1> DEFINE prev == forming[u]
           rolled == prev # 0 /\ t > prev
<1>10. /\ ok /\ rolled => call' = [why |-> "confirm", uid |-> u, from |-> prev, to |-> prev] /\ at' = "call"
       /\ ~(ok /\ rolled) => UNCHANGED <<at, call>>
       /\ missed' = IF ~ok /\ rolled THEN [missed EXCEPT ![u] = @ \cup {prev}] ELSE missed
  BY <1>1, <1>4, <1>5 DEF OnCandle, Confirm, ConfirmWindow
<1>11. /\ prev \in Bars \cup {0} /\ forming' \in [Uids -> Bars \cup {0}] /\ forming'[u] = t
       /\ \A v \in Uids : v # u => forming'[v] = forming[v] /\ heard'[v] = heard[v]
       /\ heard'[u] = heard[u] \cup {t} /\ heard' \in [Uids -> SUBSET Bars]
  BY <1>6 DEF RestInv, RestOfTypes
<1>12. /\ missed' \in [Uids -> SUBSET Bars]
       /\ \A v \in Uids : missed[v] \subseteq missed'[v]
       /\ ~ok /\ rolled => prev \in missed'[u]
  <2>1. missed \in [Uids -> SUBSET Bars] /\ (rolled => prev \in Bars)
    BY <1>11 DEF RestInv, RestOfTypes
  <2> HIDE DEF rolled, prev
  <2> QED BY <1>10, <2>1
<1>13. RestOfTypes'
  BY <1>6, <1>8, <1>11, <1>12 DEF RestInv, RestOfTypes
<1>14. SeenInv'
  BY <1>5, <1>6, <1>11 DEF RestInv, SeenInv
<1>15. ConfirmInv'
  <2>1. CASE ok /\ rolled
    <3>1. prev \in Bars /\ prev < now /\ now' = now
      BY <1>5, <1>6, <1>11, <2>1 DEF Bars, RestInv, RestOfTypes
    <3> QED BY <1>10, <2>1, <3>1 DEF ConfirmInv
  <2>2. CASE ~(ok /\ rolled)
    BY <1>9, <1>10, <2>2 DEF ConfirmInv
  <2> QED BY <2>1, <2>2
<1>16. LatestInv'
  BY <1>6 DEF RestInv, LatestInv
<1>17. HeardBarsSettle'
  <2> SUFFICES ASSUME NEW v \in Uids, NEW b \in heard'[v] \ missed'[v]
               PROVE  \/ store'[v][b] = "final" \/ forming'[v] = b
                      \/ call'.why = "confirm" /\ call'.uid = v /\ call'.from = b
    BY DEF HeardBarsSettle
  <2>1. CASE v = u /\ b = t
    BY <1>11, <2>1
  <2>2. CASE ~(v = u /\ b = t)
    <3>1. b \in heard[v] \ missed[v] /\ b \in Bars
      <4>1. b \in heard'[v] /\ b \notin missed'[v] /\ heard'[v] \subseteq Bars
        BY <1>11
      <4>2. b \notin missed[v]
        BY <1>12, <4>1
      <4>3. b \in heard[v]
        BY <1>11, <2>2, <4>1
      <4> QED BY <4>1, <4>2, <4>3
    <3>2. store[v][b] = "final" \/ forming[v] = b
      BY <1>9, <3>1 DEF HeardBarsSettle
    <3>3. store[v][b] = "final" => store'[v][b] = "final"
      BY <3>1, CandleWrites
    <3>4. CASE forming[v] = b /\ v # u
      BY <1>11, <3>4
    <3>5. CASE forming[v] = b /\ v = u
      <4>1. rolled
        BY <1>5, <2>2, <3>1, <3>5 DEF Bars
      <4>2. ok
        BY <1>12, <3>5, <4>1
      <4> QED BY <1>10, <3>5, <4>1, <4>2
    <3> QED BY <3>2, <3>3, <3>4, <3>5
  <2> QED BY <2>1, <2>2
<1> QED BY <1>8, <1>13, <1>14, <1>15, <1>16, <1>17 DEF RestInv

\* What a frame makes of the quote is not before what it was.
LEMMA ComposeGrows ==
  ASSUME NEW q \in QuoteRows, NEW e \in FeedEvents, spent.crashes \in Nat, e.kind \in {"last_price", "orderbook"},
         e.kind = "last_price" => q.last <= e.n, e.kind = "orderbook" => q.book <= e.n
  PROVE  LET row == Compose(q, e) IN
         /\ row \in QuoteRows /\ row.run = spent.crashes
         /\ q.ts <= row.ts /\ q.last <= row.last /\ q.book <= row.book
         /\ row.last = IF e.kind = "last_price" THEN e.n ELSE q.last
         /\ row.book = IF e.kind = "orderbook" THEN e.n ELSE q.book
<1>1. q.ts \in Nat /\ q.last \in Nat /\ q.book \in Nat /\ e.n \in Nat /\ e.time \in Nat
  BY DEF QuoteRows, FeedEvents, QueueEvents
<1>2. Max({q.ts, e.time}) \in Nat /\ q.ts <= Max({q.ts, e.time})
  BY <1>1, MaxOfTwo
<1> DEFINE m == Max({q.ts, e.time})
<1> HIDE DEF m
<1>3. Compose(q, e) = [last |-> IF e.kind = "last_price" THEN e.n ELSE q.last,
                       book |-> IF e.kind = "orderbook" THEN e.n ELSE q.book,
                       ts |-> m, run |-> spent.crashes]
  BY DEF Compose, m
<1> QED BY <1>1, <1>2, <1>3 DEF QuoteRows, m

LEMMA QuoteTakenKeeps ==
  ASSUME CollectorAssumption, RestInv, NEW ok \in BOOLEAN, OnQuote(ok)
  PROVE  RestInv'
<1>1. PICK e : e = Head(feed)
  OBVIOUS
<1>2. Consumed /\ e.kind \in {"last_price", "orderbook"}
  BY <1>1 DEF OnQuote
<1>3. e \in FeedEvents /\ at = "consume" /\ Current(e)
  <2>1. Head(feed).kind \in FrameKinds
    BY <1>1, <1>2 DEF FrameKinds
  <2> QED BY <1>1, <1>2, <2>1, HeadIsCurrent DEF Current
<1>4. PICK u \in Uids : u = e.uid
  BY <1>3 DEF Current
<1>5. quoteState[u] \in QuoteRows /\ spent.crashes \in Nat /\ spent.quotes \in Nat /\ latest[u] \in QuoteRows
  BY DEF RestInv, RestOfTypes
<1>6. PICK row \in QuoteRows :
        /\ row = Compose(quoteState[u], e) /\ row.run = spent.crashes
        /\ quoteState[u].ts <= row.ts /\ quoteState[u].last <= row.last /\ quoteState[u].book <= row.book
        /\ row.last = IF e.kind = "last_price" THEN e.n ELSE quoteState[u].last
        /\ row.book = IF e.kind = "orderbook" THEN e.n ELSE quoteState[u].book
  BY <1>2, <1>3, <1>4, <1>5, ComposeGrows DEF Current
<1>7. /\ quoteState' = [quoteState EXCEPT ![u] = row]
      /\ latest' \in {latest, [latest EXCEPT ![u] = row]}
      /\ UNCHANGED <<now, traded, at, call, forming, heard, missed, spent>>
  BY <1>1, <1>4, <1>6 DEF OnQuote, market, histories, RestInv, RestOfTypes
<1>8. /\ quoteState' \in [Uids -> QuoteRows] /\ quoteState'[u] = row
      /\ \A v \in Uids : v # u => quoteState'[v] = quoteState[v]
      /\ latest' \in [Uids -> QuoteRows] /\ latest'[u] \in {latest[u], row}
      /\ \A v \in Uids : v # u => latest'[v] = latest[v]
  BY <1>7 DEF RestInv, RestOfTypes
<1>9. \A f \in FeedEvents :
        f.kind \in FrameKinds /\ Current(f) /\ (Alike(e, f) => Mark(e) <= Mark(f)) => Current(f)'
  <2> SUFFICES ASSUME NEW f \in FeedEvents, f.kind \in FrameKinds, Current(f), Alike(e, f) => Mark(e) <= Mark(f)
               PROVE  Current(f)'
    OBVIOUS
  <2>1. CASE f.uid # u
    BY <1>7, <1>8, <2>1 DEF Current
  <2>2. CASE f.uid = u
    <3>1. e.kind = f.kind => e.n <= f.n
      BY <1>2, <1>4, <2>2 DEF Alike, Mark, FrameKinds
    <3> QED BY <1>2, <1>6, <1>7, <1>8, <2>2, <3>1 DEF Current
  <2> QED BY <2>1, <2>2
<1>10. FeedInv' /\ feed' \in Seq(FeedEvents)
  BY <1>1, <1>2, <1>9, FeedShrinks
<1>11. RestOfTypes' /\ ConfirmInv'
  BY <1>7, <1>8, <1>10 DEF RestInv, RestOfTypes, ConfirmInv
<1>12. SeenInv'
  <2>1. row.last <= spent.quotes /\ row.book <= spent.quotes
    BY <1>2, <1>3, <1>6 DEF Current, RestInv, SeenInv
  <2> QED BY <1>7, <1>8, <2>1 DEF RestInv, SeenInv
<1>13. LatestInv'
  <2>1. ASSUME NEW v \in Uids, v # u
        PROVE  /\ latest'[v].run <= spent'.crashes
               /\ latest'[v].run = spent'.crashes =>
                    /\ latest'[v].ts <= quoteState'[v].ts
                    /\ latest'[v].last <= quoteState'[v].last /\ latest'[v].book <= quoteState'[v].book
    BY <1>7, <1>8, <2>1 DEF RestInv, LatestInv
  <2>2. /\ latest'[u].run <= spent'.crashes
        /\ latest'[u].run = spent'.crashes =>
             /\ latest'[u].ts <= quoteState'[u].ts
             /\ latest'[u].last <= quoteState'[u].last /\ latest'[u].book <= quoteState'[u].book
    <3>1. row.ts \in Nat /\ row.last \in Nat /\ row.book \in Nat
      BY DEF QuoteRows
    <3>2. CASE latest'[u] = row
      BY <1>5, <1>6, <1>7, <1>8, <3>1, <3>2
    <3>3. CASE latest'[u] = latest[u]
      <4>1. /\ latest[u].ts \in Nat /\ latest[u].last \in Nat /\ latest[u].book \in Nat
            /\ quoteState[u].ts \in Nat /\ quoteState[u].last \in Nat /\ quoteState[u].book \in Nat
        BY <1>5 DEF QuoteRows
      <4> QED BY <1>6, <1>7, <1>8, <3>1, <3>3, <4>1 DEF RestInv, LatestInv
    <3> QED BY <1>8, <3>2, <3>3
  <2> QED BY <2>1, <2>2 DEF LatestInv
<1> QED BY <1>10, <1>11, <1>12, <1>13 DEF RestInv

LEMMA WhoQuotes ==
  ASSUME [CollectorNext]_collectorVars
  PROVE  newest' = newest \/ CollectorCrash \/ \E ok \in BOOLEAN : OnQuote(ok)
<1>1. CASE Exchange
  BY <1>1 DEF Exchange, Trade, Roll, Disconnect, Reconnect, Quote, StreamEnds, quoting
<1>2. CASE Collect
  <2>1. CASE \E ok \in BOOLEAN : Start(ok) \/ NextRange(ok) \/ OnCandle(ok) \/ OnQuote(ok)
    <3>1. PICK ok \in BOOLEAN : Start(ok) \/ NextRange(ok) \/ OnCandle(ok) \/ OnQuote(ok)
      BY <2>1
    <3>2. CASE OnQuote(ok)
      BY <3>2
    <3> QED BY <3>1, <3>2 DEF Start, NextRange, OnCandle, quoting
  <2>2. CASE \E late \in BOOLEAN, written \in 0..MaxBar : Answer(late, written)
    BY <2>2 DEF Answer, quoting
  <2>3. CASE \E fault \in {"call", "garbled"} : CallFails(fault)
    BY <2>3 DEF CallFails, quoting
  <2>4. CASE BackfillDone \/ Connect \/ OnGap \/ OnDown \/ Restart
    BY <2>4 DEF BackfillDone, Connect, OnGap, OnDown, Restart, quoting
  <2> QED BY <1>2, <2>1, <2>2, <2>3, <2>4 DEF Collect
<1>3. CASE UNCHANGED collectorVars
  BY <1>3 DEF collectorVars, quoting
<1> QED BY <1>1, <1>2, <1>3 DEF CollectorNext

LEMMA QuoteIsWhole ==
  ASSUME CollectorAssumption, RestInv, NEW ok \in BOOLEAN, OnQuote(ok), NEW u \in Uids,
         newest'[u] # newest[u]
  PROVE  \/ /\ latest'[u] = newest'[u]
            /\ latest[u].run = newest'[u].run =>
                 newest'[u].last >= latest[u].last /\ newest'[u].book >= latest[u].book
         \/ latest'[u] = latest[u] /\ latest[u].run # newest'[u].run
<1>1. PICK e : e = Head(feed)
  OBVIOUS
<1>2. Consumed /\ e.kind \in {"last_price", "orderbook"}
  BY <1>1 DEF OnQuote
<1>3. e \in FeedEvents /\ Current(e)
  <2>1. Head(feed).kind \in FrameKinds
    BY <1>1, <1>2 DEF FrameKinds
  <2> QED BY <1>1, <1>2, <2>1, HeadIsCurrent DEF Current
<1>4. PICK v \in Uids : v = e.uid
  BY <1>3 DEF Current
<1>5. quoteState[v] \in QuoteRows /\ spent.crashes \in Nat /\ latest[v] \in QuoteRows
  BY DEF RestInv, RestOfTypes
<1>6. PICK row \in QuoteRows :
        /\ row = Compose(quoteState[v], e) /\ row.run = spent.crashes
        /\ quoteState[v].ts <= row.ts /\ quoteState[v].last <= row.last /\ quoteState[v].book <= row.book
  BY <1>2, <1>3, <1>4, <1>5, ComposeGrows DEF Current
<1>7. /\ newest' = [newest EXCEPT ![v] = row]
      /\ latest' = [latest EXCEPT ![v] = IF row.ts >= @.ts THEN row ELSE @]
  BY <1>1, <1>4, <1>6 DEF OnQuote
<1>8. v = u /\ newest'[u] = row
  BY <1>7
<1>9. latest'[u] = IF row.ts >= latest[u].ts THEN row ELSE latest[u]
  BY <1>7, <1>8 DEF RestInv, RestOfTypes
<1>10. /\ latest[u].ts \in Nat /\ latest[u].last \in Nat /\ latest[u].book \in Nat
       /\ quoteState[u].ts \in Nat /\ quoteState[u].last \in Nat /\ quoteState[u].book \in Nat
       /\ row.ts \in Nat /\ row.last \in Nat /\ row.book \in Nat
  BY <1>5, <1>8 DEF QuoteRows
<1>11. latest[u].run = row.run =>
         row.ts >= latest[u].ts /\ row.last >= latest[u].last /\ row.book >= latest[u].book
  BY <1>6, <1>8, <1>10 DEF RestInv, LatestInv
<1> QED BY <1>8, <1>9, <1>11

\* Where nothing is heard, missed or awaited anew, what is settled stays settled.
LEMMA SettledStays ==
  ASSUME CollectorTypes, HeardBarsSettle, [CollectorNext]_collectorVars,
         UNCHANGED <<forming, heard, missed>>, call' = call \/ call.why # "confirm"
  PROVE  HeardBarsSettle'
<1>1. \A u \in Uids : heard[u] \subseteq Bars
  BY DEF CollectorTypes
<1>2. \A u \in Uids, t \in Bars : store[u][t] = "final" => store'[u][t] = "final"
  BY FinalStays
<1> QED BY <1>1, <1>2 DEF HeardBarsSettle

LEMMA OthersTakenKeep ==
  ASSUME CollectorAssumption, CollectorTypes, RestInv, HeardBarsSettle, [CollectorNext]_collectorVars, OnGap \/ OnDown
  PROVE  RestInv' /\ HeardBarsSettle'
<1>1. PICK e : e = Head(feed)
  OBVIOUS
<1>2. /\ Consumed /\ e.kind \notin FrameKinds /\ at = "consume"
      /\ UNCHANGED <<now, traded, call, forming, quoteState, latest, heard, missed, spent>>
  BY <1>1 DEF OnGap, OnDown, Consumed, FrameKinds, market, health, quoting, histories
<1>3. \A f \in FeedEvents : Current(f) => Current(f)'
  BY <1>2 DEF Current
<1>4. FeedInv' /\ feed' \in Seq(FeedEvents)
  BY <1>1, <1>2, <1>3, FeedShrinks
<1>5. call.why # "confirm"
  BY <1>2 DEF RestInv, ConfirmInv
<1>6. HeardBarsSettle'
  BY <1>2, SettledStays
<1> QED BY <1>2, <1>4, <1>5, <1>6 DEF RestInv, RestOfTypes, SeenInv, ConfirmInv, LatestInv

\* The queue, the bars and the quotes are left alone, a range is asked for or none.
LEMMA IdleKeeps ==
  ASSUME CollectorAssumption, CollectorTypes, RestInv, HeardBarsSettle, [CollectorNext]_collectorVars,
         feed' = feed \/ feed' = <<>>,
         UNCHANGED <<now, traded, forming, quoteState, latest, heard, missed, spent>>,
         \/ UNCHANGED <<at, call>>
         \/ at # "call" /\ call' = call
         \/ at # "call" /\ call'.why = "backfill"
  PROVE  RestInv' /\ HeardBarsSettle'
<1>1. at # "call" => call.why # "confirm"
  BY DEF RestInv, ConfirmInv
<1>2. HeardBarsSettle'
  BY <1>1, SettledStays
<1>3. FeedInv' /\ feed' \in Seq(FeedEvents)
  <2>1. CASE feed' = feed
    <3>1. \A i \in DOMAIN feed : feed[i] \in FeedEvents
      BY LenProperties, ElementOfSeq DEF RestInv, RestOfTypes
    <3> QED BY <2>1, <3>1 DEF RestInv, RestOfTypes, FeedInv, Current
  <2>2. CASE feed' = <<>>
    <3>1. <<>> \in Seq(FeedEvents) /\ DOMAIN <<>> = {}
      BY EmptySeq
    <3> QED BY <2>2, <3>1 DEF FeedInv, InOrder
  <2> QED BY <2>1, <2>2
<1>4. ConfirmInv'
  BY <1>1 DEF RestInv, ConfirmInv
<1> QED BY <1>2, <1>3, <1>4 DEF RestInv, RestOfTypes, SeenInv, LatestInv

LEMMA MissedType ==
  ASSUME RestInv, NEW complete, Answered(complete)
  PROVE  missed' \in [Uids -> SUBSET Bars] /\ \A u \in Uids : missed[u] \subseteq missed'[u]
<1>1. call.uid \in Uids => Asked \subseteq Bars
  BY DEF Asked, RestInv, RestOfTypes
<1> QED BY <1>1 DEF Answered, RestInv, RestOfTypes

\* The answer to a confirmation settles its bar, or the bar is missed.
LEMMA AnsweredKeeps ==
  ASSUME CollectorAssumption, CollectorTypes, RestInv, HeardBarsSettle, [CollectorNext]_collectorVars,
         at = "call", NEW complete, Answered(complete),
         UNCHANGED <<now, traded, feed, forming, quoteState, latest, heard, spent>>,
         \A t \in complete : call.uid \in Uids /\ t \in Bars => store'[call.uid][t] = "final"
  PROVE  RestInv' /\ HeardBarsSettle'
<1>1. /\ missed' = [missed EXCEPT ![call.uid] = @ \cup {t \in Asked : t < now /\ t \notin complete}]
      /\ call' = NoCall
  BY DEF Answered
<1>2. missed' \in [Uids -> SUBSET Bars] /\ \A u \in Uids : missed[u] \subseteq missed'[u]
  BY MissedType
<1>3. \A i \in DOMAIN feed : feed[i] \in FeedEvents
  BY LenProperties, ElementOfSeq DEF RestInv, RestOfTypes
<1>4. FeedInv'
  BY <1>3 DEF RestInv, FeedInv, Current
<1>5. RestInv'
  BY <1>1, <1>2, <1>4 DEF RestInv, RestOfTypes, SeenInv, ConfirmInv, LatestInv, NoCall
<1>6. HeardBarsSettle'
  <2> SUFFICES ASSUME NEW u \in Uids, NEW t \in heard[u] \ missed'[u]
               PROVE  store'[u][t] = "final" \/ forming[u] = t
    BY DEF HeardBarsSettle
  <2>1. t \in heard[u] \ missed[u] /\ t \in Bars /\ t \in traded[u]
    BY <1>2 DEF RestInv, RestOfTypes, SeenInv
  <2>2. CASE store[u][t] = "final"
    BY <2>1, <2>2, FinalStays
  <2>3. CASE call.why = "confirm" /\ call.uid = u /\ call.from = t
    <3>1. call.to = t /\ t < now /\ t \in Nat
      BY <2>1, <2>3 DEF RestInv, ConfirmInv, Bars
    <3>2. t \in Asked
      BY <2>1, <2>3, <3>1 DEF Asked
    <3>3. CASE t \in complete
      BY <2>1, <2>3, <3>3
    <3>4. CASE t \notin complete
      <4>1. t \in missed'[u]
        BY <1>1, <2>3, <3>1, <3>2, <3>4 DEF RestInv, RestOfTypes
      <4> QED BY <4>1
    <3> QED BY <3>3, <3>4
  <2> QED BY <2>1, <2>2, <2>3 DEF HeardBarsSettle
<1> QED BY <1>5, <1>6

LEMMA AnswerKeeps ==
  ASSUME CollectorAssumption, CollectorTypes, RestInv, HeardBarsSettle, [CollectorNext]_collectorVars,
         NEW late \in BOOLEAN, NEW written \in 0..MaxBar, Answer(late, written)
  PROVE  RestInv' /\ HeardBarsSettle'
<1> DEFINE mine == {t \in Asked : (call.why = "confirm" => t \in Completed(late)) /\ t <= written}
<1>1. /\ at = "call" /\ Answered(mine \cap Completed(late)) /\ Carry(mine, Completed(late))
      /\ UNCHANGED <<now, traded, feed, forming, quoteState, latest, heard, spent>>
  BY DEF Answer, market, quoting
<1>2. ASSUME NEW t \in mine \cap Completed(late), call.uid \in Uids, t \in Bars
      PROVE  store'[call.uid][t] = "final"
  <2> HIDE DEF mine
  <2> QED BY <1>1, <1>2 DEF Carry, UpsertCandle, CollectorTypes
<1> HIDE DEF mine
<1> QED BY <1>1, <1>2, AnsweredKeeps

LEMMA CallFailsKeeps ==
  ASSUME CollectorAssumption, CollectorTypes, RestInv, HeardBarsSettle, [CollectorNext]_collectorVars,
         NEW fault, CallFails(fault)
  PROVE  RestInv' /\ HeardBarsSettle'
<1>1. /\ at = "call" /\ Answered({})
      /\ UNCHANGED <<now, traded, feed, forming, quoteState, latest, heard, spent>>
  BY DEF CallFails, market, quoting
<1> QED BY <1>1, AnsweredKeeps

LEMMA CrashKeeps ==
  ASSUME CollectorAssumption, RestInv, CollectorCrash
  PROVE  RestInv' /\ HeardBarsSettle'
<1>1. /\ feed' = <<>> /\ at' = "start" /\ call' = NoCall /\ forming' = [u \in Uids |-> 0]
      /\ quoteState' = [u \in Uids |-> NoQuote] /\ heard' = [u \in Uids |-> {}] /\ missed' = [u \in Uids |-> {}]
      /\ UNCHANGED <<now, traded, latest>> /\ spent' = [spent EXCEPT !.crashes = @ + 1]
  BY DEF CollectorCrash
<1>2. <<>> \in Seq(FeedEvents) /\ DOMAIN <<>> = {}
  BY EmptySeq
<1>3. /\ spent' \in [breaks : Nat, quotes : Nat, crashes : Nat] /\ spent'.quotes = spent.quotes
      /\ spent.quotes \in Nat /\ spent.crashes \in Nat /\ spent'.crashes = spent.crashes + 1
  <2>1. PICK b \in Nat, q \in Nat, c \in Nat : spent = [breaks |-> b, quotes |-> q, crashes |-> c]
    BY DEF RestInv, RestOfTypes
  <2>2. spent' = [breaks |-> b, quotes |-> q, crashes |-> c + 1]
    BY <1>1, <2>1
  <2> QED BY <2>1, <2>2
<1>4. NoQuote \in QuoteRows /\ NoQuote.last = 0 /\ NoQuote.book = 0 /\ NoQuote.ts = 0
  BY DEF NoQuote, QuoteRows
<1>5. RestOfTypes'
  BY <1>1, <1>2, <1>3, <1>4 DEF RestInv, RestOfTypes
<1>6. FeedInv' /\ ConfirmInv' /\ HeardBarsSettle'
  BY <1>1, <1>2 DEF FeedInv, InOrder, ConfirmInv, NoCall, HeardBarsSettle
<1>7. SeenInv'
  BY <1>1, <1>3, <1>4 DEF SeenInv, RestInv, RestOfTypes, Bars
<1>8. LatestInv'
  <2>1. \A u \in Uids : latest[u].run \in Nat /\ latest[u].run <= spent.crashes
    BY DEF RestInv, RestOfTypes, LatestInv, QuoteRows
  <2> QED BY <1>1, <1>3, <2>1 DEF LatestInv
<1> QED BY <1>5, <1>6, <1>7, <1>8 DEF RestInv

LEMMA RestKeeps ==
  ASSUME CollectorAssumption, CollectorInv, [CollectorNext]_collectorVars
  PROVE  RestInv' /\ HeardBarsSettle'
<1>1. CollectorTypes /\ RestInv /\ HeardBarsSettle
  BY RestOfCollectorInv
<1>2. CASE Exchange
  <2>1. UNCHANGED <<forming, heard, missed, call>>
    BY <1>2 DEF Exchange, Trade, Roll, Disconnect, Reconnect, Quote, StreamEnds, health, histories
  <2>2. HeardBarsSettle'
    BY <1>1, <2>1, SettledStays
  <2>3. ASSUME Reconnect PROVE RestInv'
    BY <1>1, <2>3, IdleKeeps DEF Reconnect, health, quoting, histories
  <2>4. RestInv'
    BY <1>1, <1>2, <2>3, TradeKeeps, RollKeeps, QuoteKeeps, BreakKeeps DEF Exchange
  <2> QED BY <2>2, <2>4
<1>3. CASE Collect
  <2>1. CASE \E ok \in BOOLEAN : Start(ok) \/ NextRange(ok) \/ OnCandle(ok) \/ OnQuote(ok)
    <3>1. PICK ok \in BOOLEAN : Start(ok) \/ NextRange(ok) \/ OnCandle(ok) \/ OnQuote(ok)
      BY <2>1
    <3>2. CASE Start(ok)
      BY <1>1, <3>2, IdleKeeps DEF Start, market, health, quoting, histories
    <3>3. CASE NextRange(ok)
      BY <1>1, <3>3, IdleKeeps DEF NextRange, market, health, quoting, histories
    <3>4. CASE OnCandle(ok)
      BY <1>1, <3>4, CandleKeeps
    <3>5. CASE OnQuote(ok)
      <4>1. UNCHANGED <<forming, heard, missed, call>>
        BY <3>5 DEF OnQuote, histories
      <4> QED BY <1>1, <3>5, <4>1, SettledStays, QuoteTakenKeeps
    <3> QED BY <3>1, <3>2, <3>3, <3>4, <3>5
  <2>2. CASE \E late \in BOOLEAN, written \in 0..MaxBar : Answer(late, written)
    BY <1>1, <2>2, AnswerKeeps
  <2>3. CASE \E fault \in {"call", "garbled"} : CallFails(fault)
    BY <1>1, <2>3, CallFailsKeeps
  <2>4. CASE OnGap \/ OnDown
    BY <1>1, <2>4, OthersTakenKeep
  <2>5. CASE BackfillDone
    BY <1>1, <2>5, IdleKeeps DEF BackfillDone, market, health, quoting, histories
  <2>6. CASE Connect
    BY <1>1, <2>6, IdleKeeps DEF Connect, quoting, histories
  <2>7. CASE Restart
    BY <1>1, <2>7, IdleKeeps DEF Restart, market, health, quoting, histories
  <2> QED BY <1>3, <2>1, <2>2, <2>3, <2>4, <2>5, <2>6, <2>7 DEF Collect
<1>4. CASE CollectorCrash
  BY <1>1, <1>4, CrashKeeps
<1>5. CASE UNCHANGED collectorVars
  BY <1>1, <1>5, IdleKeeps DEF collectorVars, market, health, quoting, histories
<1> QED BY <1>2, <1>3, <1>4, <1>5 DEF CollectorNext

-----------------------------------------------------------------------------
(* The theorems *)

LEMMA InitHolds ==
  ASSUME CollectorAssumption, CollectorInit
  PROVE  CollectorInv
<1>1. <<>> \in Seq(FeedEvents) /\ DOMAIN <<>> = {}
  BY EmptySeq
<1>2. NoQuote \in QuoteRows /\ NoQuote.last = 0 /\ NoQuote.book = 0 /\ NoQuote.ts = 0 /\ NoQuote.run = 0
  BY DEF NoQuote, QuoteRows
<1>3. spent \in [breaks : Nat, quotes : Nat, crashes : Nat]
  BY DEF CollectorInit, CollectorAssumption
<1>4. CollectorTypes
  BY <1>1, <1>2, <1>3 DEF CollectorInit, CollectorTypes, Rows
<1>5. FeedInv /\ ConfirmInv /\ HeardBarsSettle
  BY <1>1 DEF CollectorInit, FeedInv, InOrder, ConfirmInv, NoCall, HeardBarsSettle
<1>6. SeenInv /\ LatestInv
  <2>1. now \in Nat /\ spent.quotes \in Nat /\ spent.crashes \in Nat
    BY <1>3 DEF CollectorInit, Bars
  <2> QED BY <1>2, <2>1 DEF CollectorInit, SeenInv, LatestInv
<1>7. WatermarkStored
  <2>1. \A u \in Uids : {t \in Bars : store[u][t] = "final"} = {}
    BY DEF CollectorInit
  <2>2. \A u \in Uids : LatestComplete(u) = 0
    <3>1. Max({} \cup {0}) = 0
      BY MaxOfBars
    <3> QED BY <2>1, <3>1 DEF LatestComplete
  <2> QED BY <2>2 DEF CollectorInit, WatermarkStored
<1> QED BY <1>4, <1>5, <1>6, <1>7 DEF CollectorInv

LEMMA InvKeeps ==
  ASSUME CollectorAssumption, CollectorInv, [CollectorNext]_collectorVars
  PROVE  CollectorInv'
<1>1. RestInv' /\ HeardBarsSettle'
  BY RestKeeps
<1>2. store' \in [Uids -> [Bars -> Rows]]
  BY FinalStays DEF CollectorInv
<1>3. watermark' \in [Uids -> Bars \cup {0}] /\ WatermarkStored'
  BY WatermarkKeeps DEF CollectorInv
<1> QED BY <1>1, <1>2, <1>3 DEF CollectorInv, CollectorTypes, RestInv, RestOfTypes

\* The invariant the theorems below rest on.
THEOREM CollectorInvariant == CollectorSpec => []CollectorInv
<1>1. CollectorInit => CollectorInv
  BY InitHolds, CollectorAssumption
<1>2. CollectorInv /\ [CollectorNext]_collectorVars => CollectorInv'
  BY InvKeeps, CollectorAssumption
<1> QED BY <1>1, <1>2, PTL DEF CollectorSpec

\* The watermark of Health points at a complete row, the latest one unless the
\* process has been restarted.
THEOREM WatermarkIsStored == CollectorSpec => []WatermarkStored
<1>1. CollectorInv => WatermarkStored
  BY DEF CollectorInv
<1> QED BY <1>1, CollectorInvariant, PTL

\* A bar the collector has heard of is settled by an authoritative row when
\* the next one starts, or a call or a write for it has failed.
THEOREM HeardBarsAreSettled == CollectorSpec => []HeardBarsSettle
<1>1. CollectorInv => HeardBarsSettle
  BY DEF CollectorInv
<1> QED BY <1>1, CollectorInvariant, PTL

\* UpsertCandle never takes a final bar back, whoever writes it.
THEOREM FinalBarsStay == CollectorSpec => CompleteStays
<1>1. CollectorInv /\ [CollectorNext]_collectorVars =>
        [\A u \in Uids, t \in Bars : store[u][t] = "final" => store'[u][t] = "final"]_store
  BY FinalStays DEF CollectorInv
<1> QED BY <1>1, CollectorInvariant, PTL DEF CollectorSpec, CompleteStays

\* The row the collector writes is the latest one at once, or an earlier
\* process has left one of a later time, and it keeps what it does not bring.
THEOREM QuotesAreWhole == CollectorSpec => QuotesStayWhole
<1> DEFINE whole == \A u \in Uids :
             LET row == newest'[u]  was == latest[u]  is == latest'[u] IN
             row \notin {newest[u], NoQuote} =>
               \/ is = row /\ (was.run = row.run => row.last >= was.last /\ row.book >= was.book)
               \/ is = was /\ was.run # row.run
<1>1. CollectorInv /\ [CollectorNext]_collectorVars => [whole]_<<latest, newest>>
  <2> SUFFICES ASSUME CollectorInv, [CollectorNext]_collectorVars PROVE [whole]_<<latest, newest>>
    OBVIOUS
  <2>1. CASE newest' = newest
    BY <2>1
  <2>2. CASE CollectorCrash
    BY <2>2 DEF CollectorCrash
  <2>3. ASSUME NEW ok \in BOOLEAN, OnQuote(ok) PROVE whole
    BY <2>3, QuoteIsWhole, RestOfCollectorInv, CollectorAssumption
  <2>4. newest' = newest \/ CollectorCrash \/ \E ok \in BOOLEAN : OnQuote(ok)
    BY WhoQuotes
  <2> QED BY <2>1, <2>2, <2>3, <2>4
<1> QED BY <1>1, CollectorInvariant, PTL DEF CollectorSpec, QuotesStayWhole
=============================================================================
