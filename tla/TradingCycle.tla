---------------------------- MODULE TradingCycle ----------------------------
(***************************************************************************)
(* RunOnce, the decision cycle of internal/cycle, composed with the paper  *)
(* executor of PaperTrading and the limits of RiskCheck.  The cycle runs   *)
(* on the scheduler's goroutine and reads the database in several separate *)
(* statements; quotes settle, operators cancel or halt, and the process    *)
(* stops between any two of them.                                          *)
(*                                                                         *)
(* The engine is the rules engine, the only one the configuration admits:  *)
(* which signal an instrument gives is any, its size any of EntrySizes; an *)
(* instrument it skips for stale data counts as held on to.  Reads of the  *)
(* database succeed.                                                       *)
(***************************************************************************)
EXTENDS PaperTrading, RiskCheck

CONSTANTS Universe,    \* the instruments, in the order of their uids
          Views,       \* the quotes a cycle may find in the store
          EntrySizes,  \* lots an entry may be sized to
          Risk,        \* the risk configuration
          MaxRows      \* bound of the decision ids

\* The universe names every instrument once; the limits are those RiskCheck
\* takes, and an older robot has left finitely many orders.
ASSUME CycleAssumption ==
  /\ Universe \in Seq(Instruments) /\ ToSet(Universe) = Instruments
  /\ \A j, k \in DOMAIN Universe : Universe[j] = Universe[k] => j = k
  /\ Uids = Instruments
  /\ MaxRows \in Nat /\ DecisionIds = 1..MaxRows
  /\ Views \subseteq [Instruments -> [bid : Nat, ask : Nat, last : Nat]]
  /\ EntrySizes \subseteq Nat \ {0}
  /\ Risk.cashFloor = CashFloor
  /\ {Risk.maxDailyLoss, Risk.perCycle, Risk.perDay, Risk.maxPosition, Risk.maxTotal, Risk.cashFloor}
       \subseteq 0..MaxInt
  /\ IsFiniteSet({id \in Ids : OldState[id] # Absent})

VARIABLES
  cycle, \* the cycle in progress: its next step and what it has read
  rows,  \* decision rows inserted so far; their ids count up
  equity \* equity_snapshots: the session whose baseline exists, the total of that
         \* baseline and of the latest row; no session while there is no row

cycleVars == <<vars, cycle, rows, equity>>

Nothing == [u \in Instruments |-> 0]
NoCycle == [step |-> "none", view |-> [u \in Instruments |-> NoQuote], cash |-> 0, held |-> Nothing,
            working |-> {}, dayPnL |-> 0, actions |-> <<>>, halted |-> FALSE, ordersToday |-> 0,
            todo |-> <<>>, orders |-> <<>>]

NoBaseline == [of |-> {}, base |-> 0, last |-> 0]

CycleInit == Init /\ cycle = NoCycle /\ rows = 0 /\ equity = NoBaseline

\* A step of the running cycle that only reads.
Reads(step) == sched.call = "cycle" /\ cycle.step = step /\ UNCHANGED vars

StartCycle(window) ==
  /\ BeginCycle(window)
  /\ cycle' = [NoCycle EXCEPT !.step = "cash"]
  /\ UNCHANGED <<rows, equity>>

-----------------------------------------------------------------------------
(* assemble: Portfolio.Summary reads the balance and then the positions, and *)
(* only then NonTerminal lists the open intents *)

ReadCash(view) ==
  /\ Reads("cash")
  /\ cycle' = [cycle EXCEPT !.step = "held", !.view = view, !.cash = cash]
  /\ UNCHANGED <<rows, equity>>

\* A held position without a last price fails the summary: the portfolio the
\* engine sees is then the balance, read once more, and no position.
Unpriced == \E u \in Instruments : pos[u].qty > 0 /\ cycle.view[u].last = 0

ReadHeld ==
  /\ Reads("held")
  /\ cycle' = IF Unpriced THEN [cycle EXCEPT !.step = "cash_only"]
              ELSE [cycle EXCEPT !.step = "working", !.held = [u \in Instruments |-> pos[u].qty]]
  /\ UNCHANGED <<rows, equity>>

ReadCashAgain ==
  /\ Reads("cash_only")
  /\ cycle' = [cycle EXCEPT !.step = "working", !.cash = cash]
  /\ UNCHANGED <<rows, equity>>

\* Mutant of NonTerminal: only what is on its way to the market.
NonTerminalButAcked == {id \in Ids : istate[id] \in {"new", "submitted", "unknown"}}

NonTerminal == {id \in Ids : istate[id] \in IntentState \ Terminal}

ReadWorking ==
  /\ Reads("working")
  /\ cycle' = [cycle EXCEPT !.step = "decide", !.working = NonTerminal]
  /\ UNCHANGED <<rows, equity>>

-----------------------------------------------------------------------------
(* decide: dayPnL, and the rules engine's Decide *)

Working(u) == \E id \in cycle.working : order[id].uid = u

EngineDecision(u, action, qty) ==
  [action |-> action, uid |-> u, qty |-> qty, type |-> "market", limit |-> 0, tif |-> "day"]

\* Holds while an order is working; else enters a flat instrument or leaves a
\* held one on its signal.
Proposals(u) ==
  LET hold  == {EngineDecision(u, "hold", 0)}
      enter == {EngineDecision(u, "buy", n) : n \in EntrySizes}
      leave == {EngineDecision(u, "close", 0)}
  IN  hold \cup (IF Working(u) THEN {} ELSE IF cycle.held[u] > 0 THEN leave ELSE enter)

\* EnsureSessionStartSnapshot: the first cycle of a session rolls the latest
\* total forward, the first of all takes the cash, the account being flat until
\* a cycle has submitted an order.
WithBaseline ==
  IF equity.of = {sched.window} THEN equity
  ELSE LET base == IF equity.of = {} THEN cash ELSE equity.last
       IN  [of |-> {sched.window}, base |-> base, last |-> base]

DayPnL(snapshots) == snapshots.last - snapshots.base

\* dayPnL writes the baseline before it is subtracted from the latest snapshot.
Decide(actions) ==
  /\ Reads("decide")
  /\ \A k \in DOMAIN Universe : actions[k] \in Proposals(Universe[k])
  /\ equity' = WithBaseline
  /\ cycle' = [cycle EXCEPT !.step = "halt", !.dayPnL = DayPnL(equity'), !.actions = actions]
  /\ UNCHANGED rows

-----------------------------------------------------------------------------
(* buildRiskState: the halt, the count of orders and the positions are read *)
(* now, the cash and the open intents are those assemble has read *)

\* Mutant of CountSince: an order that has ended no longer counts.
CountOpenSince(since) == Cardinality({id \in Journaled : istate[id] = "acked" /\ order[id].createdAt >= since})

CountSince(since) == Cardinality({id \in Journaled : order[id].createdAt >= since})

\* Only this goroutine adds orders, so that the count is read with the halt.
ReadHalt ==
  /\ Reads("halt")
  /\ cycle' = [cycle EXCEPT !.step = "check", !.halted = halted,
                            !.ordersToday = CountSince(sched.window.start)]
  /\ UNCHANGED <<rows, equity>>

\* Mutant of RiskPosition: the position the engine was shown.
ShownPosition(u) ==
  IF cycle.held[u] = 0 THEN [qty |-> 0, last |-> 0]
  ELSE [qty |-> cycle.held[u], last |-> cycle.view[u].last]

RiskPosition(u) ==
  LET last == cycle.view[u].last IN
  IF pos[u].qty = 0 THEN [qty |-> 0, last |-> 0]
  ELSE [qty |-> pos[u].qty, last |-> IF last # 0 THEN last ELSE pos[u].avg]

WorkingOf(u, side) == {id \in cycle.working : order[id].uid = u /\ order[id].side = side}

RiskState ==
  [halted |-> cycle.halted, dayPnL |-> cycle.dayPnL, ordersToday |-> cycle.ordersToday,
   cash |-> cycle.cash, base |-> "rub",
   pos |-> [u \in Instruments |-> RiskPosition(u)],
   buys |-> [u \in Instruments |-> LET ids == SetToSeq(WorkingOf(u, "buy")) IN
               [k \in DOMAIN ids |-> [lots |-> order[ids[k]].qty, limit |-> order[ids[k]].limit]]],
   sells |-> [u \in Instruments |-> MapThenSumSet(LAMBDA id : order[id].qty, WorkingOf(u, "sell"))],
   quotes |-> cycle.view,
   info |-> [u \in Instruments |-> [lot |-> Lot[u], currency |-> "rub", ticker |-> u]],
   slippage |-> SlippageBps,
   feeBps |-> MulRat(CommNum, 10000, CommDen, "halfAwayFromZero")]

\* Every action gets its decision row; those that risk allows go on.
CheckRisk ==
  LET result == Check(cycle.actions, RiskState, Risk)
      kept == InOrder(result.live)
  IN  /\ Reads("check")
      /\ rows + Len(cycle.actions) <= MaxRows
      /\ rows' = rows + Len(cycle.actions)
      /\ cycle' = [cycle EXCEPT !.step = "build",
                     !.todo = [k \in DOMAIN kept |-> [did |-> rows + kept[k], dec |-> result.dec[kept[k]]]]]
      /\ UNCHANGED equity

-----------------------------------------------------------------------------
(* buildOrders and Submit *)

\* Mutant of Resolve: a close sells what the engine was shown.
ResolveShown(d) ==
  IF d.action \in {"buy", "sell"} THEN {d}
  ELSE {[d EXCEPT !.action = "sell", !.qty = n] : n \in {n \in {cycle.held[d.uid]} : d.action = "close" /\ n > 0}}

\* The order a decision becomes, as a set: a close sells the whole position as
\* it is now, a hold and the close of nothing become none.
Resolve(d) ==
  IF d.action \in {"buy", "sell"} THEN {d}
  ELSE {[d EXCEPT !.action = "sell", !.qty = n] : n \in {n \in {pos[d.uid].qty} : d.action = "close" /\ n > 0}}

BuildOrder ==
  /\ Reads("build") /\ cycle.todo # <<>>
  /\ LET head == Head(cycle.todo) IN
     cycle' = [cycle EXCEPT !.todo = Tail(@),
                 !.orders = @ \o SetToSeq({[did |-> head.did, dec |-> d] : d \in Resolve(head.dec)})]
  /\ UNCHANGED <<rows, equity>>

\* The cycle leaves every instrument's trading status as it is.
StartSubmit ==
  /\ cycle.step = "build" /\ cycle.todo = <<>> /\ cycle.orders # <<>>
  /\ BeginSubmit([u \in {} |-> Unrestricted])
  /\ UNCHANGED <<cycle, rows, equity>>

SubmitNext(id) ==
  /\ cycle.orders # <<>>
  /\ SubmitOne(Head(cycle.orders).did, Head(cycle.orders).dec, id)
  /\ cycle' = [cycle EXCEPT !.orders = Tail(@)]
  /\ UNCHANGED <<rows, equity>>

-----------------------------------------------------------------------------
(* MarkToMarket reads the balance and then the positions as well, whatever *)
(* fills in between *)

MarkCash ==
  /\ sched.call \in {"cycle", "submit"} /\ cycle.step = "build" /\ cycle.todo = <<>> /\ cycle.orders = <<>>
  /\ cycle' = [NoCycle EXCEPT !.step = "mark", !.view = cycle.view, !.cash = cash]
  /\ UNCHANGED <<vars, rows, equity>>

MarketValue == MapThenSumSet(LAMBDA u : pos[u].qty * Lot[u] * cycle.view[u].last, Instruments)

\* A snapshot that cannot be priced is not taken; the cycle goes on without.
MarkHeld ==
  /\ cycle.step = "mark"
  /\ equity' = IF Unpriced THEN equity ELSE [equity EXCEPT !.last = cycle.cash + MarketValue]
  /\ cycle' = [NoCycle EXCEPT !.step = "done"]
  /\ UNCHANGED <<vars, rows>>

\* Skipped for want of data, failed at any point, or done.
FinishCycle == EndCycle /\ cycle' = NoCycle /\ UNCHANGED <<rows, equity>>

-----------------------------------------------------------------------------
\* Engine.KillSwitch; nothing in the program clears the halt.
KillSwitch ==
  /\ proc = "up" /\ ~halted
  /\ halted' = TRUE
  /\ UNCHANGED <<now, startup, journal, fills, cash, seeded, pos, gates, sched, offer, cancels>>

CycleSteps ==
  \/ \E s \in Sessions : StartCycle(s)
  \/ \E view \in Views : ReadCash(view)
  \/ ReadHeld \/ ReadCashAgain \/ ReadWorking
  \/ \E actions \in [DOMAIN Universe -> UNION {Proposals(u) : u \in Instruments}] : Decide(actions)
  \/ ReadHalt \/ CheckRisk \/ BuildOrder \/ StartSubmit
  \/ \E id \in Ids : SubmitNext(id)
  \/ MarkCash \/ MarkHeld \/ FinishCycle

CycleCrash == Crash /\ cycle' = NoCycle /\ UNCHANGED <<rows, equity>>

Meanwhile ==
  /\ Expiry \/ Observation \/ Operator \/ KillSwitch
       \/ StartUp \/ (\E id \in Ids : Recover(id)) \/ Recovered \/ Tick
  /\ UNCHANGED <<cycle, rows, equity>>

CycleNext == CycleSteps \/ CycleCrash \/ Meanwhile

CycleSpec == CycleInit /\ [][CycleNext]_cycleVars
-----------------------------------------------------------------------------
RestingLots(u, side) ==
  MapThenSumSet(LAMBDA id : order[id].qty, {id \in Resting(u) : order[id].side = side})

\* An instrument never has two orders working, although cycles overrun, stop
\* half-way and restart between journaling orders and deciding on new ones.
OneWorkingOrder == \A u \in Instruments : Cardinality(Resting(u)) <= 1

\* What is resting to sell is always held, so that no settlement is refused as
\* an oversell, whatever fills between the engine's view and the submission.
SellsHeld == \A u \in Instruments : RestingLots(u, "sell") <= pos[u].qty

\* A day lasts from the start of its session to the start of the next.
OfDay(s) ==
  {id \in Journaled : /\ order[id].createdAt >= s.start
                      /\ \A t \in Sessions : t.start > s.start => order[id].createdAt < t.start}

\* The orders journaled in a day never exceed its cap: neither a restart, nor an
\* order that has ended, nor a cycle that overruns its session gives a slot back.
DailyCapKept == \A s \in Sessions : Cardinality(OfDay(s)) <= Risk.perDay

\* While the price stands still, what is held and what is resting to be bought
\* stays within the limit of the instrument and of the portfolio, although the
\* risk state is read piece by piece while orders fill.
CommittedWorth(u, price) == (pos[u].qty + RestingLots(u, "buy")) * Lot[u] * price
ExposureKept ==
  \A q \in Quotes :
    /\ \A u \in Instruments : CommittedWorth(u, q.last) <= Risk.maxPosition
    /\ MapThenSumSet(LAMBDA u : CommittedWorth(u, q.last), Instruments) <= Risk.maxTotal

\* portfolio/valuation.go:12-13: "Equity is one mark-to-market valuation of the
\* account: cash plus the current market value of every held position".  While
\* the price stands still and trading is free, nothing is lost in a day, so that
\* no daily loss may stop it from trading.
NoLossFromNothing == cycle.dayPnL >= 0

\* risk/check.go:511-514: "a new buy can never spend cash a pending buy is
\* already going to consume and drive the account below the floor once both
\* settle".  Prices stand still, so that every estimate is exact.
FloorKept == seeded => cash >= CashFloor
=============================================================================
