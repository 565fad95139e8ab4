----------------------------- MODULE RiskLimits -----------------------------
(***************************************************************************)
(* One call of Check, rule by rule, on what validation leaves of any       *)
(* answer of an engine and on any snapshot of the account, with what the   *)
(* limits promise of its result.                                           *)
(* The promises are stated in unbounded integers and from the snapshot,    *)
(* not with the rules' own running totals.                                 *)
(***************************************************************************)
EXTENDS RiskCheck, DecisionValidation

CONSTANTS Answers, \* answers of an engine, valid or not
          Request, \* what validation knows of the instruments
          States,  \* snapshots of the account
          Limits   \* configurations

\* An action holds at most one limit; a snapshot knows every uid it is asked of.
\* Quantities held and resting are those of the portfolio and the journal, which
\* are never negative, and so are the limits, which fit 64 bits, the slippage
\* and the commission of the configuration (config.go refuses others).
ASSUME RiskAssumption ==
  /\ IsFiniteSet(Uids)
  /\ Request \in [Uids -> [tick : Int, lastClose : Int]]
  /\ \A answer \in Answers :
       /\ Len(answer) \in Nat /\ DOMAIN answer = 1..Len(answer)
       /\ \A i \in DOMAIN answer :
            /\ answer[i].qty \in Int /\ answer[i].limit \in SUBSET Int
            /\ \A p, q \in answer[i].limit : p = q
  /\ \A s \in States :
       /\ s.pos \in [Uids -> [qty : Nat, last : Int]]
       /\ s.buys \in [Uids -> Seq([lots : Nat \ {0}, limit : Int])]
       /\ s.sells \in [Uids -> Nat]
       /\ s.quotes \in [Uids -> [ask : Int, last : Int]]
       /\ DOMAIN s.info \subseteq Uids /\ \A u \in DOMAIN s.info : s.info[u].lot \in Int
       /\ {s.dayPnL, s.cash} \subseteq Int /\ {s.ordersToday, s.slippage, s.feeBps} \subseteq Nat
  /\ \A l \in Limits :
       {l.maxDailyLoss, l.perCycle, l.perDay, l.maxPosition, l.maxTotal, l.cashFloor} \subseteq 0..MaxInt

VARIABLES proposed, state, limits, \* Check's arguments
          batch,                   \* the batch as the rules so far left it
          rule                     \* the next rule, or "done"

args == <<proposed, state, limits>>
checkVars == <<args, batch, rule>>

CheckInit ==
  /\ proposed \in {Accepted(answer, Request) : answer \in Answers}
  /\ state \in States /\ limits \in Limits
  /\ batch = Batch(proposed)
  /\ rule = "kill_switch"

Step(from, result, to) ==
  /\ rule = from /\ rule' = to
  /\ batch' = result
  /\ UNCHANGED args

DailyLoss == Step("kill_switch", ApplyKillSwitch(batch, state, limits), "halt")
OperationalHalt == Step("halt", ApplyOperationalHalt(batch, state), "allowlist")
Allowlist == Step("allowlist", ApplyAllowlist(batch, state, limits), "currency")
CurrencyMismatch == Step("currency", ApplyCurrencyMismatch(batch, state), "per_cycle")
OrdersPerCycle ==
  Step("per_cycle", ApplyOrderCap(batch, limits.perCycle, "max_orders_per_cycle"), "per_day")
OrdersPerDay ==
  Step("per_day", ApplyOrderCap(batch, limits.perDay - state.ordersToday, "max_orders_per_day"), "position")
PositionNotional == Step("position", ApplyPositionNotional(batch, state, limits), "exposure")
TotalExposure == Step("exposure", ApplyTotalExposure(batch, state, limits), "cash")
CashFloorRule == Step("cash", ApplyCashFloor(batch, state, limits), "oversell")
Oversell == Step("oversell", ApplyOversell(batch, state), "done")

CheckNext ==
  \/ DailyLoss \/ OperationalHalt \/ Allowlist \/ CurrencyMismatch
  \/ OrdersPerCycle \/ OrdersPerDay
  \/ PositionNotional \/ TotalExposure \/ CashFloorRule \/ Oversell

CheckSpec == CheckInit /\ [][CheckNext]_checkVars

-----------------------------------------------------------------------------
Done == rule = "done"
Kept(action) == {i \in batch.live : batch.dec[i].action = action}

\* What the promises are about, without widths and without unknown values.
Mark(u) == IF state.pos[u].last > 0 THEN state.pos[u].last ELSE state.quotes[u].last
Quoted(d) ==
  IF d.type = "limit" THEN d.limit
  ELSE IF state.quotes[d.uid].ask > 0 THEN state.quotes[d.uid].ask ELSE state.quotes[d.uid].last
LotsAtRisk(u) == state.pos[u].qty + PendingLots(u, state)
Worth(u, lots, price) == lots * LotOf(u, state) * price
Bought(u, price(_)) ==
  MapThenSumSet(LAMBDA i : Worth(u, batch.dec[i].qty, price(batch.dec[i])),
                {i \in Kept("buy") : batch.dec[i].uid = u})
Exposure(u) ==
  IF LotsAtRisk(u) = 0 /\ \A i \in Kept("buy") : batch.dec[i].uid # u THEN 0
  ELSE Worth(u, LotsAtRisk(u), Mark(u)) + Bought(u, Quoted)

\* When a buy is kept, everything already held or resting could be valued and,
\* with the kept buys, stays within the limit of its instrument and of the
\* whole portfolio: no wrapped product, missing price or order of the batch
\* lets a buy through.
ExposureWithinLimits ==
  Done /\ Kept("buy") # {} =>
    /\ \A u \in Uids : LotsAtRisk(u) > 0 => u \in DOMAIN state.info /\ Mark(u) > 0
    /\ \A i \in Kept("buy") : Quoted(batch.dec[i]) > 0
                              /\ Exposure(batch.dec[i].uid) <= limits.maxPosition
    /\ MapThenSumSet(Exposure, Uids) <= limits.maxTotal

WithCommission(worth) == worth + MulBps(worth, state.feeBps)
Slipped(price) == MulBps(price, 10000 + state.slippage)
\* A market buy whose padded price leaves the 64 bits is estimated without the
\* padding.
KeptPrice(d) ==
  IF d.type = "market" /\ InRange(Slipped(Quoted(d))) THEN Slipped(Quoted(d)) ELSE Quoted(d)
KeptCost(d) == WithCommission(Worth(d.uid, d.qty, KeptPrice(d)))
RestingCost(u, b) ==
  WithCommission(Worth(u, b.lots, IF b.limit > 0 THEN b.limit ELSE Slipped(Mark(u))))

\* When a buy is kept, the cash pays for every kept and every resting buy at
\* the most it can cost, with the fee, and still leaves the floor.
CashAboveFloor ==
  Done /\ Kept("buy") # {} =>
    state.cash - MapThenSumSet(LAMBDA i : KeptCost(batch.dec[i]), Kept("buy"))
               - MapThenSumSet(LAMBDA p : RestingCost(p[1], state.buys[p[1]][p[2]]), Pending(state))
      >= limits.cashFloor

\* The kept sells of an instrument and those already resting never exceed what
\* is held, and no two closes sell the whole of it twice: a close is sized only
\* in buildOrders, where nothing looks at the others of the batch.
SellsCovered ==
  Done => \A u \in Uids :
    LET sold(action) == {i \in Kept(action) : batch.dec[i].uid = u} IN
    /\ sold("sell") # {} =>
         state.sells[u] + MapThenSumSet(LAMBDA i : batch.dec[i].qty, sold("sell")) <= state.pos[u].qty
    /\ Cardinality(sold("close")) <= 1

\* A robot that is halted, by the operator, by its floor or by the day's loss,
\* can always leave a position: as long as the order caps have room for the
\* exits, whatever buys were proposed beside them, none is lost or cut that is
\* covered and in the base currency.
ExitsSurvive ==
  LET exits == {i \in DOMAIN proposed : proposed[i].action \in Exits} IN
  Done /\ (state.halted \/ KillSwitchEngaged(state, limits))
       /\ Cardinality(exits) <= limits.perCycle /\ Cardinality(exits) <= limits.perDay - state.ordersToday =>
    \A i \in exits : LET d == proposed[i] IN
      (d.uid \in DOMAIN state.info => state.info[d.uid].currency = state.base)
        /\ (d.action = "sell" => d.qty <= state.pos[d.uid].qty - state.sells[d.uid])
        => i \in batch.live /\ batch.dec[i] = d

\* The adjustments alone tell what was allowed: RunOnce never looks at Allowed,
\* it builds its orders and its decision rows from the adjustments.
AuditComplete == Done => ReconstructFinal(proposed, batch.log) = Allowed(batch)

\* Checking what was allowed once more, against the same account, changes
\* nothing: no order was let through on room that another one had taken.
CheckIsStable == Done => Allowed(Check(Allowed(batch), state, limits)) = Allowed(batch)

\* An order that a gate turns away (loss, halt, allowlist, currency) takes no
\* slot of a cap and no budget from the others: without it Check's result is
\* the same.
GatedAreInvisible ==
  LET open == Gates(Batch(proposed), state, limits).live
      rest == [k \in 1..Cardinality(open) |-> proposed[InOrder(open)[k]]]
  IN  Done => Allowed(Check(rest, state, limits)) = Allowed(batch)

Baseline == MapThenSumSet(LAMBDA u : Worth(u, LotsAtRisk(u), Mark(u)), {u \in Uids : LotsAtRisk(u) > 0})

\* The lots left to decision i after a step, and the worth of those before it.
Left(i) == IF i \in batch'.live THEN batch'.dec[i].qty ELSE 0
Ahead(i) ==
  MapThenSumSet(LAMBDA j : LET d == batch.dec[j] IN Worth(d.uid, Left(j), Quoted(d)),
                {j \in Kept("buy") : j < i /\ j \in batch'.live})

\* The total exposure rule gives up no lot that would have fit: one more of an
\* order it cut exceeds the limit, unless the exposure is not known.
CutsAreTight ==
  [][TotalExposure /\ (\A u \in Uids : ExistingExposure(u, state) # {}) =>
       \A i \in Kept("buy") : LET d == batch.dec[i] IN
         Left(i) < d.qty => Baseline + Ahead(i) + Worth(d.uid, Left(i) + 1, Quoted(d)) > limits.maxTotal]_checkVars
=============================================================================
