--------------------------- MODULE MarketCollector ---------------------------
(***************************************************************************)
(* The market collector of internal/market: one goroutine backfills bars   *)
(* by unary calls, takes the events of a market data stream, confirms a    *)
(* closed bar when the next one starts, and restarts the stream.  The      *)
(* exchange trades, bars roll and the feed breaks at any time meanwhile.   *)
(*                                                                         *)
(* Time is the number of the bar that is forming.  A bar of an instrument  *)
(* exists once it has traded; prices are left out.  The stream is the      *)
(* queue of its events (see BrokerStream).  Calls, reads and writes fail   *)
(* in the ways Faults lists; trades, breaks, quotes and crashes are        *)
(* bounded.                                                                *)
(***************************************************************************)
EXTENDS CoalescingQueue, Functions

CONSTANTS Uids,       \* the resolved universe
          LookbackBars,
          Faults,     \* what may go wrong with calls and writes
          Ends,       \* causes the stream may end of
          QuoteTimes, \* times the frames of a quote may bear
          MaxBar,     \* bound of the bars
          MaxBreaks,  \* bound of the disconnects and ends of the stream
          MaxQuotes,  \* bound of the quote frames
          MaxCrashes  \* bound of the crashes

ASSUME CollectorAssumption ==
  /\ All \notin Uids
  /\ LookbackBars \in Nat \ {0}
  /\ Faults \subseteq {"call", "garbled", "late", "upsert", "read", "quote"}
  /\ Ends \subseteq {"AUTH", "USAGE", "POLICY", "PROTOCOL", "BROKER_REJECTED", "BREAKER", "RESOLVE"}
  /\ QuoteTimes \subseteq Nat \ {0}
  /\ MaxBar \in Nat /\ MaxBreaks \in Nat /\ MaxQuotes \in Nat /\ MaxCrashes \in Nat

VARIABLES
  now,      \* the bar that is forming
  traded,   \* the bars of each instrument that have traded
  link,     \* the stream's connection: "up", "down" or "ended"
  feed,     \* the events on their way to the collector
  store,    \* the candle rows: "none", "partial" or "final"
  at,       \* where the collector's goroutine is
  todo,     \* the ranges to backfill next, and where it goes on from there
  call,     \* the range of the unary call it waits for
  forming,  \* Collector.forming, the bar last streamed
  watermark, stale, streamUp, \* Collector.instHealth and .streamUp
  quoteState, \* Collector.quoteState
  latest,   \* the quote row a Latest read returns
  newest,   \* the quote row this process inserted last
  heard,    \* bars this process has had a candle frame of
  missed,   \* bars a call or a write has failed for
  dark,     \* bars that traded while the stream was down
  spent     \* breaks, quote frames and crashes so far

market == <<now, traded, link>>
health == <<watermark, stale, streamUp>>
quoting == <<quoteState, latest, newest>>
histories == <<heard, missed, dark, spent>>
collectorVars == <<market, feed, store, at, todo, call, forming, health, quoting, histories>>

Bars == 1..MaxBar
NoCall == [why |-> "none", uid |-> All, from |-> 0, to |-> 0]
NoQuote == [last |-> 0, book |-> 0, ts |-> 0, run |-> 0]
NoWork == [ranges |-> <<>>, to |-> 0, then |-> "connect"]

CollectorInit ==
  /\ now \in Bars /\ traded = [u \in Uids |-> {}] /\ link = "ended" /\ feed = <<>>
  /\ store = [u \in Uids |-> [t \in Bars |-> "none"]]
  /\ at = "start" /\ todo = NoWork /\ call = NoCall
  /\ forming = [u \in Uids |-> 0]
  /\ watermark = [u \in Uids |-> 0] /\ stale = [u \in Uids |-> FALSE] /\ streamUp = FALSE
  /\ quoteState = [u \in Uids |-> NoQuote]
  /\ latest = [u \in Uids |-> NoQuote] /\ newest = [u \in Uids |-> NoQuote]
  /\ heard = [u \in Uids |-> {}] /\ missed = [u \in Uids |-> {}] /\ dark = [u \in Uids |-> {}]
  /\ spent \in [breaks : 0..MaxBreaks, quotes : 0..MaxQuotes, crashes : 0..MaxCrashes]

-----------------------------------------------------------------------------
(* The exchange and the feed *)

\* While the feed is down a trade brings no frame.
Trade(u) ==
  /\ traded' = [traded EXCEPT ![u] = @ \cup {now}]
  /\ \/ /\ link = "up"
        /\ feed' = Enqueue(feed, Event("candle", u, now, 0))
        /\ UNCHANGED dark
     \/ /\ link # "up" /\ now \notin traded[u]
        /\ dark' = IF streamUp THEN [dark EXCEPT ![u] = @ \cup {now}] ELSE dark
        /\ UNCHANGED feed
  /\ UNCHANGED <<now, link, store, at, todo, call, forming, health, quoting, heard, missed, spent>>

Roll ==
  /\ now < MaxBar /\ now' = now + 1
  /\ UNCHANGED <<traded, link, feed, store, at, todo, call, forming, health, quoting, histories>>

Quote(u, kind, ts) ==
  /\ link = "up" /\ spent.quotes < MaxQuotes
  /\ spent' = [spent EXCEPT !.quotes = @ + 1]
  /\ feed' = Enqueue(feed, Event(kind, u, ts, spent'.quotes))
  /\ UNCHANGED <<market, store, at, todo, call, forming, health, quoting, heard, missed, dark>>

\* The CLI loses its connection or is restarted: a gap of the whole
\* subscription, at once.
Disconnect ==
  /\ link = "up" /\ spent.breaks < MaxBreaks
  /\ spent' = [spent EXCEPT !.breaks = @ + 1]
  /\ link' = "down" /\ feed' = Enqueue(feed, GapEvent(All, 0))
  /\ UNCHANGED <<now, traded, store, at, todo, call, forming, health, quoting, heard, missed, dark>>

\* The reconnect brings a status only.
Reconnect ==
  /\ link = "down" /\ link' = "up"
  /\ UNCHANGED <<now, traded, feed, store, at, todo, call, forming, health, quoting, histories>>

\* The terminal event, and the channel is closed behind it.  The breaker trips
\* after an exit, whose gap comes first.
StreamEnds(cause) ==
  /\ link \in {"up", "down"} /\ spent.breaks < MaxBreaks
  /\ spent' = [spent EXCEPT !.breaks = @ + 1]
  /\ link' = "ended"
  /\ feed' = Append(IF cause = "BREAKER" THEN Enqueue(feed, GapEvent(All, 0)) ELSE feed,
                    Event("down", cause, 0, 0))
  /\ UNCHANGED <<now, traded, store, at, todo, call, forming, health, quoting, heard, missed, dark>>

-----------------------------------------------------------------------------
(* The store *)

\* Mutant of UpsertCandle: a late frame replaces the row.
UpsertAny(row, new) == new

\* The guard of the upsert: a partial row never replaces a final one.
UpsertCandle(row, new) == IF new = "final" \/ row # "final" THEN new ELSE row

LatestComplete(u) == Max({t \in Bars : store[u][t] = "final"} \cup {0})

\* A failed read counts as none.
BackfillStart(u, readOk) ==
  IF readOk /\ LatestComplete(u) # 0 THEN LatestComplete(u) + 1 ELSE Max({now - LookbackBars, 0})

AdvanceWatermark(u, t) == [watermark EXCEPT ![u] = Max({@, t})]

-----------------------------------------------------------------------------
(* Backfill and confirmation *)

EveryUid == SetToSeq(Uids)
BackfillAll(from, then) ==
  /\ todo' = [ranges |-> [i \in DOMAIN EveryUid |-> [uid |-> EveryUid[i], from |-> from]],
              to |-> now, then |-> then]
  /\ at' = "backfill"

\* Start: an entry of the universe that does not resolve aborts it.
Start(resolved) ==
  /\ at = "start"
  /\ IF resolved THEN BackfillAll(0, "connect") ELSE at' = "off" /\ UNCHANGED todo
  /\ UNCHANGED <<market, feed, store, call, forming, health, quoting, histories>>

NextRange(readOk) ==
  /\ at = "backfill" /\ todo.ranges # <<>>
  /\ readOk \/ "read" \in Faults
  /\ LET r == Head(todo.ranges)
         from == IF r.from = 0 THEN BackfillStart(r.uid, readOk) ELSE r.from
     IN  call' = [why |-> "backfill", uid |-> r.uid, from |-> from, to |-> todo.to]
  /\ at' = "call" /\ todo' = [todo EXCEPT !.ranges = Tail(@)]
  /\ UNCHANGED <<market, feed, store, forming, health, quoting, histories>>

BackfillDone ==
  /\ at = "backfill" /\ todo.ranges = <<>>
  /\ at' = todo.then /\ todo' = NoWork
  /\ UNCHANGED <<market, feed, store, call, forming, health, quoting, histories>>

\* Mutant of ConfirmWindow: the bar that has just started.
ConfirmNewBar(prev, bar) == bar

\* The window of a confirmation is the bar before.
ConfirmWindow(prev, bar) == prev

Confirm(u, bar) ==
  /\ call' = [why |-> "confirm", uid |-> u, from |-> bar, to |-> bar]
  /\ at' = "call"

Asked == {t \in traded[call.uid] : t \in call.from..call.to}

\* The bars of the answer that are marked complete: those that have closed, but
\* for the last one while the broker has not settled it.
Completed(late) == {t \in Asked : t < now /\ ~(late /\ t = now - 1)}

Carry(rows, complete) ==
  store' = [store EXCEPT ![call.uid] =
    [t \in Bars |-> IF t \in rows THEN UpsertCandle(@[t], IF t \in complete THEN "final" ELSE "partial")
                    ELSE @[t]]]

Answered(complete) ==
  /\ missed' = [missed EXCEPT ![call.uid] = @ \cup {t \in Asked : t < now /\ t \notin complete}]
  /\ call' = NoCall
  /\ at' = IF call.why = "confirm" THEN "consume" ELSE "backfill"

\* Mutant of Complete: the watermark follows every row.
CompleteAny(rows, late) == rows

Complete(rows, late) == rows \cap Completed(late)

\* backfillOne and confirmBar: the rows are written one by one, the oldest
\* first, until a write fails.  A confirmation takes a complete row only.
Answer(late, written) ==
  LET rows == {t \in Asked : (call.why = "confirm" => t \in Completed(late)) /\ t <= written}
      all == {t \in Asked : call.why = "confirm" => t \in Completed(late)} \subseteq rows
      complete == Complete(rows, late)
  IN
  /\ at = "call"
  /\ late => "late" \in Faults
  /\ all \/ "upsert" \in Faults
  /\ Carry(rows, Completed(late))
  /\ watermark' = AdvanceWatermark(call.uid, Max(complete \cup {0}))
  /\ stale' = [stale EXCEPT ![call.uid] =
       IF ~all THEN TRUE ELSE IF call.why = "confirm" /\ rows = {} THEN @ ELSE FALSE]
  /\ Answered(rows \cap Completed(late))
  /\ UNCHANGED <<market, feed, todo, forming, streamUp, quoting, heard, dark, spent>>

\* The call fails, or answers for another request; a garbled answer does not
\* mark the instrument stale.
CallFails(fault) ==
  /\ at = "call" /\ fault \in Faults
  /\ stale' = IF fault = "call" THEN [stale EXCEPT ![call.uid] = TRUE] ELSE stale
  /\ Answered({})
  /\ UNCHANGED <<market, feed, store, todo, forming, watermark, streamUp, quoting, heard, dark, spent>>

-----------------------------------------------------------------------------
(* The stream *)

\* The client refuses an empty universe only.
Connect ==
  /\ at = "connect" /\ at' = "consume"
  /\ streamUp' = TRUE /\ link' = "up" /\ feed' = <<>>
  /\ UNCHANGED <<now, traded, store, todo, call, forming, watermark, stale, quoting, histories>>

Consumed == at = "consume" /\ feed # <<>> /\ feed' = Tail(feed)

OnCandle(ok) ==
  LET e == Head(feed)  u == e.uid  prev == forming[u]
      rolled == prev # 0 /\ e.time > prev
  IN
  /\ Consumed /\ e.kind = "candle"
  /\ ok \/ "upsert" \in Faults
  /\ forming' = [forming EXCEPT ![u] = e.time]
  /\ heard' = [heard EXCEPT ![u] = @ \cup {e.time}]
  /\ stale' = [stale EXCEPT ![u] = ~ok]
  /\ IF ok THEN store' = [store EXCEPT ![u][e.time] = UpsertCandle(@, "partial")] ELSE UNCHANGED store
  /\ IF ok /\ rolled THEN Confirm(u, ConfirmWindow(prev, e.time)) ELSE UNCHANGED <<at, call>>
  /\ missed' = IF ~ok /\ rolled THEN [missed EXCEPT ![u] = @ \cup {prev}] ELSE missed
  /\ UNCHANGED <<market, todo, watermark, streamUp, quoting, dark, spent>>

OnGap ==
  LET e == Head(feed) IN
  /\ Consumed /\ e.kind = "gap"
  /\ IF e.uid = All THEN BackfillAll(e.time, "consume")
     ELSE /\ todo' = [ranges |-> <<[uid |-> e.uid, from |-> e.time]>>, to |-> now, then |-> "consume"]
          /\ at' = "backfill"
  /\ UNCHANGED <<market, store, call, forming, health, quoting, histories>>

\* Mutant of Compose: the row has what this frame brought only.
ComposeOne(q, e) ==
  [NoQuote EXCEPT !.last = IF e.kind = "last_price" THEN e.n ELSE 0,
                  !.book = IF e.kind = "orderbook" THEN e.n ELSE 0,
                  !.ts = Max({q.ts, e.time}), !.run = spent.crashes]

\* composeQuoteLast and composeQuoteBook: each takes its part and keeps the
\* other, and the time never goes back.
Compose(q, e) ==
  [last |-> IF e.kind = "last_price" THEN e.n ELSE q.last,
   book |-> IF e.kind = "orderbook" THEN e.n ELSE q.book,
   ts |-> Max({q.ts, e.time}), run |-> spent.crashes]

\* onLastPrice and onOrderbook.
OnQuote(ok) ==
  LET e == Head(feed)  row == Compose(quoteState[e.uid], e) IN
  /\ Consumed /\ e.kind \in {"last_price", "orderbook"}
  /\ ok \/ "quote" \in Faults
  /\ quoteState' = [quoteState EXCEPT ![e.uid] = row]
  /\ stale' = [stale EXCEPT ![e.uid] = ~ok]
  /\ IF ok
     THEN /\ newest' = [newest EXCEPT ![e.uid] = row]
          /\ latest' = [latest EXCEPT ![e.uid] = IF row.ts >= @.ts THEN row ELSE @]
     ELSE UNCHANGED <<newest, latest>>
  /\ UNCHANGED <<market, store, at, todo, call, forming, watermark, streamUp, histories>>

\* permanentStreamErr: everything but a binary that did not start.
Permanent(cause) == cause # "RESOLVE"

OnDown ==
  LET e == Head(feed) IN
  /\ Consumed /\ e.kind = "down"
  /\ streamUp' = FALSE
  /\ at' = IF Permanent(e.uid) THEN "off" ELSE "sleep"
  /\ UNCHANGED <<market, store, todo, call, forming, watermark, stale, quoting, histories>>

\* After the cool-down.
Restart ==
  /\ at = "sleep"
  /\ BackfillAll(0, "connect")
  /\ UNCHANGED <<market, feed, store, call, forming, health, quoting, histories>>

\* A crash or a stop at any time; the rows stay.
CollectorCrash ==
  /\ spent.crashes < MaxCrashes /\ at # "start"
  /\ spent' = [spent EXCEPT !.crashes = @ + 1]
  /\ link' = "ended" /\ feed' = <<>>
  /\ at' = "start" /\ todo' = NoWork /\ call' = NoCall
  /\ forming' = [u \in Uids |-> 0]
  /\ watermark' = [u \in Uids |-> 0] /\ stale' = [u \in Uids |-> FALSE] /\ streamUp' = FALSE
  /\ quoteState' = [u \in Uids |-> NoQuote] /\ newest' = [u \in Uids |-> NoQuote]
  /\ heard' = [u \in Uids |-> {}] /\ missed' = [u \in Uids |-> {}] /\ dark' = [u \in Uids |-> {}]
  /\ UNCHANGED <<now, traded, store, latest>>

Exchange ==
  \/ \E u \in Uids : Trade(u)
  \/ Roll \/ Disconnect \/ Reconnect
  \/ \E u \in Uids, kind \in {"last_price", "orderbook"}, ts \in QuoteTimes : Quote(u, kind, ts)
  \/ \E cause \in Ends : StreamEnds(cause)
Collect ==
  \/ \E ok \in BOOLEAN : Start(ok) \/ NextRange(ok) \/ OnCandle(ok) \/ OnQuote(ok)
  \/ \E late \in BOOLEAN, written \in 0..MaxBar : Answer(late, written)
  \/ \E fault \in {"call", "garbled"} : CallFails(fault)
  \/ BackfillDone \/ Connect \/ OnGap \/ OnDown \/ Restart

CollectorNext == Exchange \/ Collect \/ CollectorCrash

CollectorSpec == CollectorInit /\ [][CollectorNext]_collectorVars
-----------------------------------------------------------------------------
QuoteRows == [last : Nat, book : Nat, ts : Nat, run : Nat]
Ranges == [uid : Uids, from : Nat]

CollectorTypeOK ==
  /\ now \in Bars /\ traded \in [Uids -> SUBSET Bars] /\ link \in {"up", "down", "ended"}
  /\ feed \in Seq([kind : {"candle", "last_price", "orderbook", "gap", "down"},
                   uid : Uids \cup {All} \cup Ends, time : Nat, n : Nat])
  /\ store \in [Uids -> [Bars -> {"none", "partial", "final"}]]
  /\ at \in {"start", "backfill", "call", "connect", "consume", "sleep", "off"}
  /\ todo \in [ranges : Seq(Ranges), to : Nat, then : {"connect", "consume"}]
  /\ call \in [why : {"none", "backfill", "confirm"}, uid : Uids \cup {All}, from : Nat, to : Nat]
  /\ forming \in [Uids -> Nat] /\ watermark \in [Uids -> Nat]
  /\ stale \in [Uids -> BOOLEAN] /\ streamUp \in BOOLEAN
  /\ quoteState \in [Uids -> QuoteRows] /\ latest \in [Uids -> QuoteRows] /\ newest \in [Uids -> QuoteRows]
  /\ heard \in [Uids -> SUBSET Bars] /\ missed \in [Uids -> SUBSET Bars]
  /\ dark \in [Uids -> SUBSET Bars]
  /\ spent \in [breaks : Nat, quotes : Nat, crashes : Nat]

\* A bar stored as final is never made partial again, by a late frame, by the
\* row of a backfill that was on its way or after a restart.
CompleteStays ==
  [][\A u \in Uids, t \in Bars : store[u][t] = "final" => store'[u][t] = "final"]_store

\* The watermark that Health shows points at a complete row, and while the
\* process has not been restarted it is the latest there is.
WatermarkStored ==
  \A u \in Uids :
    /\ watermark[u] # 0 => store[u][watermark[u]] = "final"
    /\ spent.crashes = 0 => watermark[u] = LatestComplete(u)

\* Every bar the collector has had a frame of is settled by an authoritative
\* row when the next one starts, however the feed breaks and restarts, unless
\* a call or a write for that bar has failed.
HeardBarsSettle ==
  \A u \in Uids : \A t \in heard[u] \ missed[u] :
    \/ store[u][t] = "final"
    \/ forming[u] = t
    \/ call.why = "confirm" /\ call.uid = u /\ call.from = t

\* What the cycle reads as the latest quote is the row the collector wrote
\* last, although frames of a book and of a last price bear times of their own
\* and some rows are not written, and it never loses the side its frame did
\* not bring.  A row of an earlier process may bear a later time.
QuotesStayWhole ==
  [][\A u \in Uids :
       LET row == newest'[u]  was == latest[u]  is == latest'[u] IN
       row \notin {newest[u], NoQuote} =>
         \/ is = row /\ (was.run = row.run => row.last >= was.last /\ row.book >= was.book)
         \/ is = was /\ was.run # row.run]_<<latest, newest>>

\* As market/doc.go says, a gap of the stream triggers a backfill of the missed
\* range, or at least the instrument is marked stale: with no call failing and
\* every event handled, a bar that traded while the stream was down and lies
\* below the watermark is complete.
GapsAreFilled ==
  at = "consume" /\ feed = <<>> =>
    \A u \in Uids : \A t \in dark[u] : t < watermark[u] => store[u][t] = "final" \/ stale[u]
=============================================================================
