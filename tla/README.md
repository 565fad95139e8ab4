# A verification project for invest-robot

TLA+ models of the trading robot in this repository, TLC configurations that
model-check them on small instances, and TLAPS proofs of their main safety
properties for every value of their constants. Source paths below are relative
to `internal/`.

## 1. Inventory of the system

One process, one SQLite database over a single connection, a handful of
goroutines, and one child process per call of the broker's command line. Each
database transaction is atomic; between two transactions of one call every other
goroutine may run.

| Component | Files | State it keeps | Operations | What makes it correct |
|---|---|---|---|---|
| Paper executor | `execution/paper/simulator.go`, `fill.go`, `execution/executor.go` | none of its own; the tables `order_intents`, `fills`, `execution_session`, `instrument_trading_status`, `operational_halt` | `Submit`, `OnQuote`, `ExpireDay`, `Recover` | at most one order per decision, one outcome per order, one fill per filled order; fills only on the order's next observation; nothing stranded after a restart |
| Order journal | `execution/journal.go`, `model/order.go`, `store/sqlite/repo_intent.go` | `order_intents` | open, compare-and-swap of the state, list by age, find by decision | terminal states are final; rows are immutable otherwise |
| Portfolio accounting | `portfolio/portfolio.go` | `positions`, `cash_ledger`, `fills.realized_pnl` | `Init` (one deposit), `ApplyFill` | the books equal the sum of the fills; no short position; realized profit reconciles |
| Valuation and views | `portfolio/valuation.go`, `views.go` | `equity_snapshots` | `EnsureSessionStartSnapshot`, `MarkToMarket`, `DayPnL`, summaries | the day's profit is what was earned and lost since the session's first snapshot |
| Decimals | `model/decimal.go` | - | ratios, rounding, tick alignment | rounding never favours the wrong side; overflow is an error |
| Decision validation | `decision/validate.go` | - | shape and meaning of an answer's actions | only well-formed actions go on; a bad one takes no other with it |
| Risk limits | `risk/check.go`, `pricing.go`, `types.go` | - | `Check`: strip or shrink the actions of a cycle, rule by rule | the allowed actions, with what is pending, respect every limit |
| Trading cycle | `cycle/cycle.go` | `cycles`, `decisions`, `risk_adjustments` | `RunOnce`: assemble, decide, validate, risk-check, order, submit, mark to market | what is submitted respects the limits although fills run between its reads |
| Engine loop | `cycle/engine.go` | paused flag | scheduler loop, pause, kill switch, `RequestCancel` | cycles only in session, day orders expire at the close, a halt is one-way |
| Market collector | `market/collector.go`, `health.go` | candles, quotes, per-instrument health | candles, last prices, order books, gaps, backfill, confirmation, stream restart | no bar is lost or confirmed early; what is final stays final; the quote handed on is whole and not older than the one before |
| Broker stream | `tinvestcli/stream.go` | bounded queue, gap records, outcome | supervise the child process, deliver, drop, back off, end, `Close` | candles are never dropped silently; a loss is reported as a gap; the end and its cause reach the consumer |
| Broker commands | `tinvestcli/client.go`, `exec.go`, `methods.go`, ... | one lock per method group | run the command line under a deadline, decode, classify, retry reads | a mutation is sent once and never written off although it happened; every call returns |
| Rules engine, features | `decision/rules`, `features` | feature snapshots | moving averages, crossovers | a crossover is acted on once |
| Migrations | `store/sqlite/migrate.go` | `schema_migrations`, the schema | `Migrate` when the database is opened | a migration is applied once and whole, whoever else starts or is killed |
| Store | `store/sqlite` | the database | repositories, `WithTx` | transactions are atomic |
| Clocks | `clock` | waiters of the simulated clock | `Now`, `After`, `Advance` | waiters fire in order |
| Start-up, configuration, screens, test double | `app`, `config`, `tui`, `test/faketinvest` | - | wiring, parsing, display | - |

How they interact. **Start-up** opens the database, which migrates it, deposits the
cash, runs `Recover`, and only then starts the others. The **scheduler** goroutine
runs `loop` (`cycle/engine.go`), which calls either `RunOnce` and through it
`Submit`, or `ExpireDay`; never both at once. The **collector** goroutine is the
one consumer of the market data stream; it stores what it receives and calls `OnQuote` for
every quote, synchronously (`app/app.go:115`), one at a time. Behind the stream run two
more goroutines: the **supervisor**, which reads the child process and restarts
it, and the **pump**, which moves events from the queue they share to the
channel. Unary calls, from the collector and from start-up, go through the lock of
their method group, each with a child of its own. The **operator**, from the terminal, calls `RequestCancel`,
`Pause` and `KillSwitch`. Scheduler, collector and operator share the database and nothing else.

The hard behaviours, each listed with its line in `PROJECT.json` under `hazards`:
three actors updating one order from stale reads; a quote that arrives late, early
or stale; an error in the middle of a loop over orders; a stop between two
transactions and a restart that deposits or submits again; limits and profits computed on
figures that a fill changes while they are being read; day orders across a pause
or a stop at the close; a consumer slower than its feed; bars that trade while the
feed is down; a mutation whose answer is lost, late or damaged; two processes
that migrate one database.

## 2. The modules

| Module | Models |
|---|---|
| `IntentStates` | the lifecycle of an order intent: states, terminal states, edges |
| `Decimals` | `MulRat`, `RoundToIncrement` and their rounding modes, over integers |
| `FillPricing` | fill prices, commission, average entry price |
| `PaperTrading` | executor, journal, portfolio and operator cancel as one state machine |
| `ExecutionContract` | what they promise to the rest: an abstract specification |
| `PaperRefinesContract` | the refinement mapping from `PaperTrading` to it |
| `Ascending` | a set of indices as a sequence in ascending order |
| `DecisionValidation` | `decision/validate.go` as operators: which answers go on |
| `RiskCheck` | `risk`'s `Check` and `cycle.go`'s `reconstructFinal`, as operators |
| `RiskLimits` | validation and `Check` as a state machine that takes an answer through the ten rules, and what the result promises |
| `TradingCycle` | `RunOnce` and the valuation, composed with `PaperTrading` and `RiskCheck` |
| `CoalescingQueue` | the stream's bounded queue: enqueue, coalesce, merge gaps |
| `BrokerStream` | supervisor, child, queue, pump, consumer and `Close` |
| `MarketCollector` | the collector's goroutine against an exchange, a stream (the same `CoalescingQueue`) and a store |
| `BrokerCall` | one call of the command line: lock, child, deadline, classification, retries |
| `Migrations` | several processes that open one database |
| `MCPaperTrading`, `MCRiskLimits`, `MCTradingCycle`, `MCBrokerStream`, `MCMarketCollector`, `MCBrokerCall`, `MCMigrations` | the instances TLC checks |
| `FoldProofs` | lemmas about sums over finite sets |
| `TradingProofs` | theorems about `PaperTrading`, the refinement, and `TradingCycle` |
| `RiskProofs` | theorems about `RiskLimits`, and lemmas about `Check` that `TradingProofs` cites |
| `CoalescingQueueProofs` | lemmas about the queue that the next two cite |
| `BrokerStreamProofs`, `MarketCollectorProofs` | theorems about the stream and the collector |
| `BrokerCallProofs`, `MigrationsProofs` | theorems about calls and migrations |

`TradingCycle` composes `PaperTrading` with `RiskCheck`. `BrokerStream` and
`MarketCollector` are two sides of one channel: the first is checked against any consumer, the second
against any feed that fills such a queue. `RiskLimits` composes
`DecisionValidation` with `RiskCheck`.

### How `PaperTrading` corresponds to the code

One action is one transaction, or one read that a later step relies on.

| Action | Code |
|---|---|
| `StartUp`, `Recover`, `Recovered` | `App.Run` up to the wiring of quotes: `Portfolio.Init`, the list `Recover` reads, its transactions one by one |
| `Crash` | the process stops at any moment: calls in progress vanish, the database stays |
| `BeginCycle`, `BeginSubmit`, `SubmitOne`, `EndCycle` | a cycle that started inside the window; `Submit`'s two upserts; one transaction of `submitOne`; the end, at any point of the list, because an error ends a batch |
| `BeginExpire`, `ExpireOne`, `EndExpire` | `ExpireDay`: its list, one transaction per order, its return |
| `OnQuote`, `OfferRests`, `OfferCancelsIoc`, `OfferSettles`, `OfferFails` | what `OnQuote` reads before its loop, then the branches of `tryFill` for one order: leave it, cancel it, settle it, or fail and end the loop |
| `RequestCancel`, `CompleteCancel` | the operator's read and its compare-and-swap |
| `Tick` | the clock |

A loop over a list of orders is the set still to be visited; the visit order
(`created_at`, then the client order id) is `IsOldest`. `Cas` is the store's
update with the expected state in its WHERE clause. The settlement is one action
that updates the intent, the fills table, the position, the cash and the halt,
since the code does so in one transaction.

What is abstracted: events and log lines, reasons, currencies (one), ids drawn at
random (any unused id is taken), the fields of a row that no branch reads, and the
fidelity flag of a fill. The upserts at the start of `Submit`, and the reads at
the start of `OnQuote`, are each one step: every order they lead to is checked
again by its own compare-and-swap. Money is a whole number of the decimal's
smallest units, and the width of the mantissa is not modelled here.
`FillPrices` is a set with at most one element, empty when the order does not fill.

### How `DecisionValidation`, `RiskCheck` and `RiskLimits` correspond to the code

`DecisionValidation` says which actions of an answer are bad, by shape, by
repetition or by meaning, as `validate.go` does; `Accepted` leaves these out one
by one, as `RunOnce` does, and `RiskLimits` starts from what is left of any answer
of `Answers`.

In `RiskCheck` one operator is one rule of `check.go`. A batch is the decisions, the set of those
still live and the adjustments so far, as the `entry` slice and the adjustment list are; `Strip` and
`Shrink` are the two functions of these names. The four rules with a budget
(position, total exposure, cash, oversell) walk the batch in order and give each
decision what `maxWithinBudget`, the same binary search, finds: `Give` is one decision,
`Ration` the walk, with the rule's own budgets and costs; a budget of the whole portfolio is `Shared`.
Each rule is one step of `RiskLimits`, whose variables are `Check`'s arguments and the batch. A price or notional that the code cannot
compute is the empty set, and each use of one says what the rule then does; most rules fail
closed. The product of lots and lot size wraps at `MaxInt` as a 64-bit
integer does, so that the guard against it in `sharesFor` is exercised.

### How `TradingCycle` corresponds to the code

`RunOnce` reads the database in separate statements, and anything may happen between two of them.

| Action | Code |
|---|---|
| `ReadCash`, `ReadHeld`, `ReadCashAgain` | `portfolioView`: the two reads of `Portfolio.Summary`, and the balance alone when a position has no price |
| `ReadWorking` | `openIntentViews` |
| `Decide` | `dayPnL`, with `EnsureSessionStartSnapshot` (`WithBaseline`), and the rules engine: any signal for any instrument, but a hold while an order is working |
| `ReadHalt`, `CheckRisk` | `buildRiskState` and `risk.Check`; the halt and the order count are read first, the positions with the check; every action gets its decision row |
| `BuildOrder` | `buildOrders`, one decision at a time, because a close reads the position |
| `StartSubmit`, `SubmitNext` | `Submit` of `PaperTrading`, with the cycle's orders |
| `MarkCash`, `MarkHeld` | the two reads of `MarkToMarket`; the second stores the snapshot |
| `FinishCycle` | the end, at any point, as every step may fail |
| `KillSwitch` | `Engine.KillSwitch` |
| `Meanwhile`, `CycleCrash` | the collector, the operator, the clock, expiry and start-up as in `PaperTrading`; a stop loses the cycle |

The halt and the count of orders are one step because only the scheduler adds
orders. `equity` is what of `equity_snapshots` anything reads. Abstracted: the
quotes a cycle finds (any of `Views`, the same for the whole cycle), the size of
an entry and the feature snapshots. Database reads succeed.

### How `BrokerStream` corresponds to the code

| Action | Code |
|---|---|
| `Spawn`, `ReadFrame`, `ChildExits`, `Reap`, `Backoff` | the supervisor's loop: start the child, `dispatch` a line, meet the end of the pipe, `cmd.Wait` and what `supervise` makes of the outcome, `sleepBackoff` |
| `Deliver`, `Signal` | one locked section of `deliver` or `finish`, and the wake-up after the lock is released; `sup.todo` holds the deliveries still to make, `sup.then` where the supervisor goes on |
| `Look`, `Send`, `AwaitWake`, `Abandon` | the pump: its locked look at the queue, the send, the wait, the shutdown |
| `CloseDone` | the goroutine that waits for both and closes `done` |
| `Receive`, `Cancel` | the consumer; `Close`, or the end of the context |

`CoalescingQueue`'s `Enqueue` is one locked section: a quote replaces the
instrument's older one, a candle that finds no room turns into a gap from its bar
on, gaps of one instrument merge, and a status that finds no room is dropped. Two variables are not in the code: `owed`, what
the consumer must still hear of one way or the other, and `told`, whether it has heard the end.
How a line is decoded is its type only, and how long a child ran is any.

### How `MarketCollector` corresponds to the code

| Action | Code |
|---|---|
| `Start`, `Connect`, `Restart` | the universe and the backfill of `Start`; the stream's start; the cool-down after an end that is not permanent |
| `NextRange`, `Answer`, `CallFails`, `BackfillDone` | `backfillOne` for one instrument after another: where it starts, its call, its writes; `Answer` and `CallFails` are those of `confirmBar` as well |
| `OnCandle`, `OnGap`, `OnQuote`, `OnDown` | the handlers of `consume` |
| `CollectorCrash` | a stop at any time |
| `Trade`, `Roll`, `Quote`, `Disconnect`, `Reconnect`, `StreamEnds` | the exchange and the stream, not the collector: what may be put into the feed, and when |

Time is the number of the bar that is forming. A call is two steps, so that bars
trade and roll while it is on its way, and its answer is as of its arrival; the rows are written one by one, and a
write may fail after any of them. `Faults` lists what may go wrong: a call that
fails, an answer for another request, an answer whose last bar is not settled
yet, a failed read or write. `heard`, `missed` and `dark` are not in the code: the bars this process has had
a frame of, those a call or write has failed for, and those that traded while the stream was down. The
status event, which only logs, prices, and the log are left out.

### How `BrokerCall` corresponds to the code

| Action | Code |
|---|---|
| `Begin`, `Acquire` | a method of `methods.go`, with its check of the order id; the lock of its group |
| `StartFails`, `Start`, `Finish` | `runProcess`: `cmd.Start`, `cmd.Wait`, and `classify` of what the child left |
| `BackoffEnds`, `BackoffCanceled`, `Return` | the retry loop of reads; the caller's return |
| `Cancel`, `Backstop` | the caller's context and the local deadline, which kill the child |
| `Send`, `BrokerHandles`, `Answer`, `ChildDies`, `WaitFails` | the child and the broker, which are external |

The broker acts on its own time, also after the child is dead. `Truth` is what a child may
honestly say of a mutation in its present state; `Damaged` changes at most one aspect of it (truncated,
unparsable, another schema, exit code, error code, hint or payload).
`Classify` is the code's reading of it. A method is its group, whether it reads, and what
its success must carry. Without the bound on damage nothing could be
promised: an answer of which every part lies is a success that never was.

### How `Migrations` corresponds to the code

| Action | Code |
|---|---|
| `ReadApplied` | the creation and the read of `schema_migrations`, and the refusal of newer or foreign ones |
| `BeginTx`, `Precondition`, `Exec`, `Record`, `Commit`, `StepFails` | one migration's transaction: the check for duplicate fills, which fixes the snapshot it has read, the statements, the row, the commit, any of which may fail |
| `OpenDone`, `Exit` | the database is open; the process ends or is killed at any point |
| `InsertFill`, `RemoveDuplicates` | what fills the table meanwhile, and the remedy the refusal names |

The schema is the set of objects that migrations create. `legacyV1` is the form of
version 1 that held a part of version 2. SQLite is one writer at a time, readers on
the last commit, and a transaction that has read an older database cannot write.

## 3. The runs

Every passing run explores its instance exhaustively.

| Run | Instance | Shows |
|---|---|---|
| `paper_books` | 2 orders through a whole day (clock 0..3, session 0..2), or 3 orders at two prices in one open window | types; fills and intents agree; the halt; the next-observation discipline; one intent per decision; outcomes are final; an expiry is complete; the books equal the fills; the realized profit reconciles with fills and open lots up to the rounding of averages; `PaperTrading` implements `ExecutionContract` |
| `paper_recovery` | 4 orders, two of them left incomplete by an older robot, an instrument without a tick, suspended instruments, clock 0..2; with fairness | nothing is stranded by `Recover`; an offered quote is worked through; a day order ends if the robot stays up |
| `paper_ioc` | 2 orders | a finding below |
| `risk_limits` | answers of up to 3 of 7 proposals, or up to 2 when some are of 6 malformed ones; 28 accounts, 3 configurations, integers up to 1023 | exposure, cash and holdings are within their limits; exits survive a halt; the adjustments tell the result; a second check changes nothing; an order turned away takes nothing from the others; cuts are tight |
| `cycle_guard` | 1 instrument, 4 orders, 4 decisions, 3 orders a day, clock 0..2, session 0..3 | one working order per instrument; the cap of each day; the exposure limits while orders fill between the reads; what rests to be sold is held |
| `cycle_floor` | 2 instruments, 2 orders, 4 decisions, floor 61 of 100 | a finding below |
| `cycle_profit` | as `cycle_floor` | a finding below |
| `broker_stream` | 2 instruments, a queue of 1, 3 frames, 1 unexpected exit; with fairness | nothing is lost but to a shutdown; events come in the order of their frames; the queue is bounded; the end is told last; `Close` leaves nothing running; everything owed is delivered |
| `market` | 1 instrument, a queue of 1, 3 bars, 2 breaks or ends of the stream, 2 quotes, 1 crash, every fault | the watermark points at a final bar; every bar heard of is settled; final bars stay final; a quote is whole and none older replaces it |
| `market_hole` | the same with 1 break and nothing failing | a finding below |
| `migrations` | 2 processes, 5 builds, 4 starts, 11 databases | the schema is what the file records; refusals have a cause a person can mend; whoever opens finds all of it |
| `broker_call` | 2 callers, 7 kinds of request, 2 retries; with fairness | no mutation is sent twice or denied although it happened; every call returns |

**Why the bounds are enough.** The share of the paper runs has lots of 2 and a tick of 5, slippage is 5 %, commission 1 %,
and there are two quotes: a book on both sides and one of which only the last trade
is known. Every conflict of the executor is between two actors on one order, or
between two orders behind one another in one loop: two orders, three actors and a
crash reach all of them. Three orders are what the average price needs: two buys that
round and a sell that realizes; these run with no crash and no operator in
between, which the books of two orders already meet. A clock of 0..3 with a session of 0..2 and a maximal
age of 1 has quotes before, at and after activation, stale ones, one at the closing
instant, and an evening. Cash of 100 and a floor of 20 make the first buy breach
the floor.

For the risk limits, three decisions are two that compete for a budget and one that
a gate turns away between them, and each configuration binds another limit. For the
cycle, two decisions of one instrument are what a second working order or an exceeded limit takes,
three a sale after a sale, and the fourth meets a cap of three with room left by an order that has
ended. Ids are drawn in order there: the order of ids matters only between orders of one
instrument that rest together, which `OneWorkingOrder` excludes. Prices stand still in these runs, so that an estimate
is exact and a limit exceeded is the cycle's doing, not the market's.

For the stream, a queue of one is full at the second event, and three frames with one exit are a
candle that overflows it, a quote that coalesces and a gap that merges with another of its instrument,
before and after a restart; two instruments tell a gap of one from a gap of all; a breaker of one
reaches the seventh way out. For the collector three bars are one that is final, one being
confirmed and one forming, each on either side of a break and of a
crash, and the lookback of two starts a backfill above the first; two quotes are the two parts of a row. Instruments meet in the
queue's gaps and in the order of calls only, and the proofs are for any number of them. For migrations two processes
are what a race needs, four starts an interrupted start, its successor and a race with either.
For calls, two callers meet in a lock, and the requests are every mutation, the reads that share its lock, and
one that does not.

**Fairness.**

- `FairSpec` (`paper_recovery`): weak fairness of the steps of an
  offer in progress, of ending a cycle, of the expiry as a whole and of the clock. The code justifies it by its
  loops, which have no wait inside, the time budget of a decision, and the scheduler's
  tick while the market is closed. Nothing is assumed of quotes, decisions, the operator or restarts.
  `DayOrdersEnd` supposes that the process stays up, and, as the model has no pause,
  that the engine is not paused.
- `StreamFairness` (`broker_stream`): the supervisor's and the pump's goroutines run, so does the one
  that closes `done`; the consumer reads on; a child that was told to stop is
  killed after the grace of `stream.go`. The child owes no frame and no exit, so
  that a silent feed is among the behaviours.
- `CallFairness` (`broker_call`): timers fire and goroutines run, and strong fairness of
  `Acquire`, as Go's mutex hands itself to a waiter that starves. Neither the child nor
  the broker owes anything: the local deadline ends a call.

**The findings.**

- `paper_ioc`: `simulator.go:340` says immediate-or-cancel orders never rest across
  observations. TLC finds that they may: `OnQuote` returns at the first
  error (`simulator.go:261-265`), and a conflict with an operator's cancel, or a sell
  beyond the position, is such an error. Every later order of the instrument is left
  out of this quote. `ExpireDay` and `Recover` skip a conflict instead.
- `cycle_floor`: `risk/check.go:511-514` says a new buy can never spend the cash a resting
  buy is going to consume. `assemble` reads the cash before the open intents
  (`cycle/cycle.go:232-233`), and a buy that fills in between is in neither: with
  the price standing still, the balance sinks below the floor. With the open intents
  read first, a fill in between is counted twice and the run passes.
- `cycle_profit`: `portfolio/valuation.go:12-13` says an equity is the cash plus the value
  of every held position. `MarkToMarket` reads the cash (`valuation.go:31`) and then the positions
  (`valuation.go:35`). A sell that fills in between is in neither: the next cycle
  sees a loss nobody made (of 20, where a lot costs 20), which counts against the daily-loss limit.
- `market_hole`: `market/doc.go:13-14` says gaps and restarts trigger a backfill of the missed
  range. The gap of a disconnect is delivered at the disconnect
  (`tinvestcli/stream.go:362-367`) and backfilled at once (`market/collector.go:501-521`), before
  the feed is back. A bar that trades meanwhile stays partial or absent below the watermark, from
  which later backfills start, and the instrument is not marked stale.

Read in the code, and not the subject of a run: `exec.go:26-30` says a mutation whose
outcome cannot be read is reported as unknown, while a killed child, a truncated output or a malformed
envelope gives a `ProtocolError` (`MutationsAreSafe` counts it as no denial); after a
restart the first quote's time may lie below that of older rows, which a reader
of the latest then keeps (`QuotesStayWhole` says so); an answer for another request does not mark the
instrument stale (`collector.go:357-361`, `533-536`); a confirmation whose bar is not
complete yet is not asked for again.

Each property has a mutant, an operator defined just before the one it
replaces and marked as such: a version of the code with one plausible bug, under
which TLC finds the property violated.

## 4. The proofs

The theorems hold for any instruments, orders, quotes, frames, processes,
callers and bounds that satisfy the named assumptions: `PricingAssumption`,
`TradingAssumption`, `JournalAssumption` for trading, `CycleAssumption` for the cycle, `WidthAssumption` and `RiskAssumption` for the limits, `QueueAssumption` with
`StreamAssumption` or `CollectorAssumption` for market data, `MigrationsAssumption`,
`BrokerCallAssumption`. TLC evaluates all of them on its instances. `RiskAssumption` says what the
portfolio (`TypeCorrect`: no short position), the journal (a resting order has lots) and
the checks of the configuration (no negative limit, slippage or fee, limits of 64 bits) guarantee of a snapshot; of an answer it
asks nothing but that a quantity is a number, and of prices, cash and profit nothing but that. Lot sizes
may be zero or negative, prices missing, and products may wrap. `CycleAssumption` says that the universe
names each instrument once, that the limits are what the configuration admits, and that there are
finitely many old orders. Two theorems suppose something more in their statements: `DailyCap` that the orders
an older robot has journaled keep the cap of their day (`OldOrdersFit`), and `ExposureHolds` that the price
stands still (`PriceStandsStill`: the last price is one number wherever it is known, and no offer is below it), for limits are
valued at prices and a rising market takes any holding past them. The instances of `cycle_guard` satisfy both.

| Theorem | Statement | Argument |
|---|---|---|
| `TypeCorrect` | `Spec => []TypeOK` | inductive as it stands; the arithmetic lemmas show that prices, fees and averages are whole numbers, `CanApply` that no position is short |
| `FillsMatch` | `[]FillsMatchIntents` | a compare-and-swap never leaves a terminal state, a settlement starts from an intent without a fill |
| `OneIntent` | `[]OneIntentPerDecision` | `submitOne` looks the decision up in its own transaction |
| `OutcomesFinal` | `OutcomesAreFinal` | no edge leaves a terminal state; only an absent row is written |
| `ExpiryComplete` | `ExpiryIsComplete` | strengthened by `ExpiryCovers`: while `ExpireDay` runs, every resting day order is on its list, for nothing is submitted meanwhile |
| `FloorHalts` | `[]FloorBreachHalts` | strengthened by `SeededFirst`: the deposit precedes every fill, so only a settlement lowers the cash |
| `RecoveryComplete` | `[]NoneStranded` | strengthened by `RecoveryInv`: what is incomplete is on `Recover`'s list |
| `FillsObserve` | `[]FillsAreObservations` | strengthened by `GatesInv`: windows in use are known windows, an offer's clock is not ahead; `RoundToIncrementBounds` gives that a limit fill is never worse than its limit |
| `BooksAlwaysBalance` | `[]BooksBalance` | a settlement adds one fill to the table and its amounts to the cash and the position; the sum over the fills with one more is the sum and one more (`TotalWith`) |
| `ProfitReconciles` | `[]RealizedPnLReconciles` | strengthened by `PnLInv`: no more lots are held than were bought, and the gap between the profit, the money moved and the cost of the open lots is at most what the buys rounded. `BuyGap`, `NearestQuotient`: the average of one buy is off by at most half a unit per lot |
| `Refinement` | `ImplementsContract` | every step maps to a step of the contract or a stutter; strengthened by `SourcesInv`: an acknowledged intent comes from a decision that may be submitted, an offered quote is one of `Quotes` |
| `CycleTyped` | `CycleSpec => []CycleTypeOK` | inductive with `ActionsOK` and `QueueOK`, below |
| `OneWorks` | `[]OneWorkingOrder` | `FreshInv`: an instrument that is decided on, queued or about to be submitted has no order working |
| `SellsCovered` | `[]SellsHeld` | `HeldInv`: a resting or queued sell is of no more than is held, since nothing else of its instrument can settle before it |
| `DailyCap` | `OldOrdersFit` implies `[]DailyCapKept` | `CountedInv`, `RoomInv`: the count that the check has read, or the orders journaled since, with those still queued, stay within the cap |
| `ExposureHolds` | `PriceStandsStill(L)` implies `[]ExposureKept` | `StakeInv`: some stake in each instrument keeps to the limits and covers what is held with what rests or is queued to be bought |
| `DeliveryLosesNothing` | `[]NothingLost` | `StreamInv`: what is owed is settled by something in flight. `OwedIsCarried` follows each event from the supervisor's list through queue and hand to the channel; `LatestIsTold` that the newest quote of an instrument is the one that is kept |
| `FramesArriveInOrder` | `[]ArrivalOrder` | `OrderInv`: every stretch of the way (events, hand, queue, the supervisor's list) rises in frame numbers and each lies before the next; `EnqueueRises`: an Enqueue only appends, removes or replaces a gap |
| `QueueStaysBounded` | `[]QueueBounded` | `Bounded` is inductive: an Enqueue appends a candle or a status only when there is room, a quote after the older one is gone, and merges a gap into the one that waits |
| `TheEndIsTold` | `[]EndIsTold` | `EndInv`: an outcome is set once, behind the last event (`Farewell`, `LastWord`), and nothing comes after it (`Afterwards`) |
| `CloseIsComplete` | `[]DoneMeansReaped` | `ReapedBeforeDone`, a part of `EndInv` |
| `BuysWithinLimits` | `CheckSpec => []ExposureWithinLimits` | `CheckInv`, below: `WithinPosition` and `WithinTotal` |
| `BuysLeaveTheFloor` | `[]CashAboveFloor` | `WithinCash` |
| `SellsStayCovered` | `[]SellsCovered` | `WithinHeld`, and that validation refuses a second close of an instrument |
| `ExitsGetThrough` | `[]ExitsSurvive` | `ExitsOpen`, and `NoBuys` from the gates on: once the buys are gone, the caps count exits only |
| `AuditTellsAll` | `[]AuditComplete` | `Told`: after every rule the last adjustment of a decision is its quantity, and a decision is live when it has none of zero |
| `CutsStayTight` | `CheckSpec => CutsAreTight` | from `CheckInv`: after the position rule every buy is priced and fits (`OneMoreIsKnown`), `MaxWithin` stops only before a lot that does not fit (`MaxWithinFits`), and what the buys ahead drew is what they kept (`Tight`, `DrawsAre`) |
| `CheckingAgainChangesNothing` | `CheckSpec => []CheckIsStable` | `CourseInv`, below: each rule leaves alone what already satisfies it (`CheckSettles`), and the batch of what is allowed is checked like the batch it comes from (`PackedAlike`) |
| `GatedTakeNothing` | `CheckSpec => []GatedAreInvisible` | `CourseInv`: what the gates let through they let through again (`GatesOpen`), whichever decisions stand beside it (`PackedAlike`) |
| `WatermarkIsStored` | `[]WatermarkStored` | `CollectorInv`: rows are written oldest first and the watermark moves with the complete ones only |
| `HeardBarsAreSettled` | `[]HeardBarsSettle` | bars are heard in the order of the feed (`FeedInv`, from `EnqueueInOrder`), so that the one before is the one confirmed, and it has closed by then (`ConfirmInv`) |
| `FinalBarsStay` | `CompleteStays` | the upsert's guard |
| `QuotesAreWhole` | `QuotesStayWhole` | `LatestInv`: the row a reader gets is this process's newest, or an older process's with a later time |
| `SchemaRecorded` | `[]SchemaAsRecorded` | `MigrationsInv`: the committed file is a database of some build, and what each process has found missing is what it will create (`Sound`) |
| `RefusalsAreCaused` | `[]RefusedForCause` | a transaction that nothing has disturbed finds none of its objects there |
| `OpenIsComplete` | `OpensComplete` | versions are never taken back, and none is skipped |
| `MutationsStaySafe` | `[]MutationsAreSafe` | `ClassifyIsHonest`: of an answer with one aspect damaged, no reading is a success that was not, or a denial that was not; `CallInv` carries it from the child's exit to the return |

The proofs about `PaperTrading` go through `JournalStep`, `LedgerStep`, `SchedStep`, `OfferStep` and
`ProcStep`: what a step may do to one part of the state. Those about the stream and the
collector rest on `CoalescingQueueProofs`: what taking an element out, appending and merging gaps do to a
queue's set of events and to their order.

The proofs of the limits share one inductive invariant, `CheckInv`. The promises speak of the end of
`Check` only, and say nothing of the batch on its way, so none of them is inductive. `CheckInv` says what each
rule has established by the time the next one starts: the batch is the proposal with decisions taken out and
quantities reduced (`BatchOK`), its adjustments tell its quantities (`Told`), and from the rule that enforces a
limit on, the limit is kept to (`WithinPosition`, `WithinTotal`, `WithinCash`, `WithinHeld`); in distress the
covered exits are untouched (`ExitsOpen`) and the buys are gone (`NoBuys`). Each rule has a lemma about its effect
(`GateEffects`, `RationEffect` and one per ration), and `PositionStays`, `TotalStays`, `CashStays` carry what an
earlier rule established through the later ones, which only take away. `RationEffect` is the core: whatever
the budgets, accounts and costs, no account is overdrawn, a decision that can be paid as it stands is left alone,
and none is cut that could have kept one lot more. The promises count in unbounded integers; `SharesExact` and
`NotionalExact` show that a product that divides back has not wrapped, so that the 64-bit arithmetic of the rules
tells the truth whenever it tells anything.

`CheckIsStable` and `GatedAreInvisible` compare two runs of all ten rules, over batches whose decisions have
different indices. The invariant `CourseInv` says that the batch is what the rules so far have made of the
proposal, so that both promises become statements about the functions `Gates`, `Caps` and `Sizes`. Two facts
settle them. First, a rule sees only the live decisions and their order: two batches that hold the same ones
(`Mirrors`) are taken by every rule to two that do (`GatesMirror`, `CapsMirror`, `RationMirrors`,
`SizesMirror`), and hence to the same verdict (`PackedAlike`). Second, a rule changes nothing in a batch that
already satisfies it (`OpenIdle`, `CapsIdle`, `RationIdle`): a decision that can be paid beside all the
others (`Affords`) stays. What a limit's rule has made affordable stays so under the rules after it
(`PaysPosition`, `PaysTotal`, `PaysCash`), because they only take lots away, and fewer lots have a known cost when
more have, and no higher one (`CheaperLots`). So the ten rules reach a fixed point in one pass (`CheckSettles`).

The proofs about `TradingCycle` reuse those of its two parts. Each of the cycle's steps is a step of `PaperTrading`,
a stutter of it, the kill switch or a submission of the cycle's own orders (`CyclePaperStep`), so that `TypeOK` carries over, and its check is `Check` of `RiskProofs`, taken by
`INSTANCE` with the cycle's reading of the account for the account (`Rules`, `SameCheck`): `AccountTyped` shows that
this reading is one that `RiskAssumption` and `AccountOK` admit, and `CheckPromises` and `CheckLimits` say what the verdict keeps to.
None of the four safety properties is inductive: each speaks of the journal, and what keeps it is what the
cycle remembers. The invariant `Solo` therefore follows an order from the decision to the journal.
`WorkingInv` says that every acknowledged order is among the open intents that the cycle has read: until the cycle
submits, orders only leave the journal's open ones. From it and the engine's hold on an instrument with a working order
follows `FreshInv`, which `QueueOK` (one queued line per instrument, in the shape `buildOrders` gives it)
carries to the submission, and with it `OneInv` and `HeldInv`. For the cap, `Capped` ties the cycle to its session: `CallInv` and
`StartedInv` say that a cycle past its reads runs inside the call that started it, `CountedInv` that the count it has read is
still the number of orders since the start of its window, `RoomInv` that those with the queue fit. For the exposure, the
limits are promised by a check at the prices and positions it read, and what is committed changes at every fill. The
invariant fixes one number of lots per instrument at the check, its stake: the lots at risk with the buy kept, or the old stake where none
is kept (`NextStake`). `CheckAffords` shows from `CheckLimits` that this stake is within the limits, since `PriceInv` keeps every mark,
average price and quote from falling below the price, and `CoversStep` that no later step takes what is committed above it.

The attempt to prove `DailyCapKept` for several sessions showed that the cap is one of a session's day, from its start
to the start of the next; it is stated per day. The attempt to prove `CashAboveFloor` showed that a market buy whose padded price leaves the 64 bits is estimated
without the padding (`applyCashFloor` falls back to the price when `MulBps` fails); `KeptPrice` says so.

Sums over the fills, the instruments and the batch are folds over sets that choose an element at a time.
`FoldProofs` proves about them what the invariants need (`TotalWith`, `TotalMonotone`, `TotalByGroup`,
`TotalOfSums`, `TotalSupported`): the prover takes no induction principle over a predicate, so the induction is
stated over a set that holds the natural numbers or the subsets proved so far (`SetOfNaturals`, `SetOfSubsets`), and
the recursive function that a fold chooses is treated as an ordinary one that satisfies its equation (`IsSum`).

Only model-checked, not proved:

- the liveness properties `QuotesComplete`, `DayOrdersEnd`, `AllDelivered` and `CallsEnd`, which need
  fairness and ENABLED;
- the violations, which are counterexamples by nature.

## 5. Not modelled

- **Reads of the database that fail.** `buildRiskState` takes a failed read for no halt,
  no orders and no positions (`cycle/cycle.go:302-325`): with such reads every limit of
  the cycle is off at once, and nothing in the code or its documents promises otherwise.
- **Pauses and several days.** A pause is a cycle that does not start, which the models always
  allow; nothing promises that `ExpireDay` is called between two windows, so that a
  day order left resting may meet a later session.
- **Signals.** Indicators, crossovers, the snapshots of a skipped cycle and the sizing of an entry
  are any decision in `TradingCycle`; so are the retries of an engine's answer.
- **The first snapshot of all.** `dayPnL` marks the account itself when there is no snapshot
  and a position is held (`cycle/cycle.go:424-427`). Every cycle writes a baseline before it orders,
  so that only a database whose snapshots were lost gets there.
- **Width of decimals.** Mantissas are mathematical integers, except for lots in the risk
  limits; parsing and formatting are left out.
- **Clocks.** Time is a variable of each module; the simulated clock serves tests.
- **Configuration**, whose range checks are the assumptions on the constants; the **terminal's**
  screens, which only read; the broker's **wire types** and argument lists; the **test double**;
  the **repositories** that only read and write rows.
