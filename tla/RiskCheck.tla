------------------------------ MODULE RiskCheck ------------------------------
(***************************************************************************)
(* The pre-trade limits of internal/risk: Check takes a batch of decisions *)
(* through ten rules, each of which strips or shrinks what the rules       *)
(* before it left.  A value that may be unknown (a price, a notional that  *)
(* does not fit its 64 bits) is a set: empty when it is unknown, so that   *)
(* SumSet is the value, and 0 when it is unknown.                          *)
(*                                                                         *)
(* Check's State is a record s; a missing position, quote or pending       *)
(* intent is one of zeros, as Go's map lookup yields it:                   *)
(*   halted, dayPnL, ordersToday, cash, base (the base currency)           *)
(*   pos   [Uids -> [qty, last]]      buys [Uids -> Seq of [lots, limit]]  *)
(*   sells [Uids -> lots]             quotes [Uids -> [ask, last]]         *)
(*   info  [known Uids -> [lot, currency, ticker]]  slippage, feeBps       *)
(* and RiskConfig is a record lim: maxDailyLoss, allowlist, perCycle,      *)
(* perDay, maxPosition, maxTotal, cashFloor.  A market order has limit 0.  *)
(***************************************************************************)
EXTENDS Decimals, Ascending, SequencesExt

CONSTANTS Uids,    \* instrument uids
          MaxInt   \* the largest 64-bit integer

ASSUME WidthAssumption == MaxInt \in Nat \ {0}

Exits == {"sell", "close"}
Orders == {"buy", "sell", "close"}

-----------------------------------------------------------------------------
(* Prices and notionals *)

InRange(n) == -MaxInt <= n /\ n <= MaxInt
Wrapped(n) == ((n + MaxInt + 1) % (2 * (MaxInt + 1))) - (MaxInt + 1)

\* Mutant of SharesFor: the product of lots and lot size is not divided back.
SharesWrapped(qty, lot) == {n \in {Wrapped(qty * lot)} : qty > 0 /\ lot > 0 /\ n > 0}

\* The product of lots and lot size, refused when dividing it back shows that it wrapped.
SharesFor(qty, lot) ==
  {n \in {Wrapped(qty * lot)} : qty > 0 /\ lot > 0 /\ TruncDiv(n, lot) = qty}

NotionalOf(qty, lot, price) ==
  {n \in {price * shares : shares \in SharesFor(qty, lot)} : price > 0 /\ InRange(n)}

Positive(prices) == {p \in prices : p > 0}

PriceForBuy(d, quote) ==
  Positive({IF d.type = "limit" THEN d.limit ELSE IF quote.ask > 0 THEN quote.ask ELSE quote.last})

ExposurePrice(uid, s) ==
  Positive({IF s.pos[uid].last > 0 THEN s.pos[uid].last ELSE s.quotes[uid].last})

Padded(price, s) == {p \in {MulBps(price, 10000 + s.slippage)} : InRange(p)}

\* Mutant of MaxWithin: the search stops one short.
MaxWithinShort(fits) ==
  LET cap == Max(DOMAIN fits)
      search[r \in (1..cap) \X (1..cap)] ==
        LET lo == r[1]
            hi == r[2]
            mid == lo + (hi - lo + 1) \div 2
        IN  IF lo >= hi - 1 THEN lo ELSE search[IF fits[mid] THEN <<mid, hi>> ELSE <<lo, mid - 1>>]
  IN  IF cap <= 0 \/ ~fits[1] THEN 0 ELSE IF fits[cap] THEN cap ELSE search[<<1, cap>>]

\* The largest k that fits, by binary search; fits says of each of 0..cap
\* whether it does.
MaxWithin(fits) ==
  LET cap == Max(DOMAIN fits)
      search[r \in (1..cap) \X (1..cap)] ==
        LET lo == r[1]
            hi == r[2]
            mid == lo + (hi - lo + 1) \div 2
        IN  IF lo >= hi THEN lo ELSE search[IF fits[mid] THEN <<mid, hi>> ELSE <<lo, mid - 1>>]
  IN  IF cap <= 0 \/ ~fits[1] THEN 0 ELSE IF fits[cap] THEN cap ELSE search[<<1, cap>>]

-----------------------------------------------------------------------------
(* A batch on its way through the rules: the decisions, the indices of those *)
(* that are still live, and the adjustments made; an adjustment to 0 lots is *)
(* a strip *)

Batch(decisions) == [dec |-> decisions, live |-> DOMAIN decisions, log |-> <<>>]
Adjustment(i, rule, qty) == [index |-> i, rule |-> rule, qty |-> qty]

Allowed(b) == [k \in 1..Cardinality(b.live) |-> b.dec[InOrder(b.live)[k]]]

Strip(b, S, rule) ==
  [b EXCEPT !.live = @ \ S,
            !.log = @ \o [k \in 1..Cardinality(S) |-> Adjustment(InOrder(S)[k], rule, 0)]]

\* Mutant of Shrink: the quantity changes without an adjustment.
ShrinkSilently(b, i, qty, rule) ==
  IF qty <= 0 THEN Strip(b, {i}, rule) ELSE [b EXCEPT !.dec[i].qty = qty]

Shrink(b, i, qty, rule) ==
  IF qty = b.dec[i].qty THEN b
  ELSE IF qty <= 0 THEN Strip(b, {i}, rule)
  ELSE [b EXCEPT !.dec[i].qty = qty, !.log = Append(@, Adjustment(i, rule, qty))]

Those(b, actions) == {i \in b.live : b.dec[i].action \in actions}

\* Mutant of Give: a decision that was cut is not charged.
GiveUncut(acc, i, rule, action, account, cost) ==
  IF i \notin Those(acc.batch, {action}) THEN acc
  ELSE LET k == MaxWithin([n \in DOMAIN cost[i] |-> \E c \in cost[i][n] : c <= acc.left[account[i]]])
       IN  [batch |-> Shrink(acc.batch, i, k, rule),
            left |-> IF k < acc.batch.dec[i].qty THEN acc.left
                     ELSE [acc.left EXCEPT ![account[i]] = @ - SumSet(cost[i][k])]]

\* Gives decision i, when it is live and of this action, as many of its lots as
\* fit into what is left of the budget it draws on: cost[i][n] is what n lots of
\* it cost.
Give(acc, i, rule, action, account, cost) ==
  IF i \notin Those(acc.batch, {action}) THEN acc
  ELSE LET k == MaxWithin([n \in DOMAIN cost[i] |-> \E c \in cost[i][n] : c <= acc.left[account[i]]])
       IN  [batch |-> Shrink(acc.batch, i, k, rule),
            left |-> [acc.left EXCEPT ![account[i]] = @ - SumSet(cost[i][k])]]

\* Each decision in order.
Ration(b, rule, action, budget, account, cost) ==
  LET run[k \in 0..Len(b.dec)] ==
        IF k = 0 THEN [batch |-> b, left |-> budget]
        ELSE Give(run[k - 1], k, rule, action, account, cost)
  IN  run[Len(b.dec)].batch

PerInstrument(b) == [i \in DOMAIN b.dec |-> b.dec[i].uid]
Common(b) == [i \in DOMAIN b.dec |-> "all"]
Shared(amount) == [account \in {"all"} |-> amount]

-----------------------------------------------------------------------------
(* The rules *)

KillSwitchEngaged(s, lim) == AbsOf(IF s.dayPnL < 0 THEN s.dayPnL ELSE 0) >= lim.maxDailyLoss

ApplyKillSwitch(b, s, lim) ==
  IF KillSwitchEngaged(s, lim)
  THEN Strip(b, Those(b, {"buy", "hold"}), "daily_loss_kill_switch") ELSE b

\* Mutant of ApplyOperationalHalt: the halt leaves no order alive.
HaltEverything(b, s) == IF s.halted THEN Strip(b, Those(b, Orders), "operational_halt") ELSE b

ApplyOperationalHalt(b, s) ==
  IF s.halted THEN Strip(b, Those(b, {"buy"}), "operational_halt") ELSE b

Listed(uid, s, lim) ==
  uid \in lim.allowlist \/ (uid \in DOMAIN s.info /\ s.info[uid].ticker \in lim.allowlist)

ApplyAllowlist(b, s, lim) ==
  IF lim.allowlist = {} THEN b
  ELSE Strip(b, {i \in Those(b, {"buy"}) : ~Listed(b.dec[i].uid, s, lim)}, "allowlist")

ApplyCurrencyMismatch(b, s) ==
  Strip(b, {i \in Those(b, Orders) : /\ b.dec[i].uid \in DOMAIN s.info
                                     /\ s.info[b.dec[i].uid].currency # s.base}, "currency_mismatch")

\* Mutant of ApplyOrderCap: a decision that was stripped still holds its slot.
CapProposedOrders(b, cap, rule) ==
  LET proposed == {i \in DOMAIN b.dec : b.dec[i].action \in Orders}
  IN  Strip(b, {i \in Those(b, Orders) : Cardinality({j \in proposed : j < i}) >= cap}, rule)

ApplyOrderCap(b, cap, rule) ==
  LET orders == Those(b, Orders)
  IN  Strip(b, {i \in orders : Cardinality({j \in orders : j < i}) >= cap}, rule)

PendingLots(uid, s) == MapThenSumSet(LAMBDA k : s.buys[uid][k].lots, DOMAIN s.buys[uid])

LotOf(uid, s) == s.info[uid].lot

\* What qty lots of uid are worth at their mark.
Valued(uid, qty, s) ==
  IF qty = 0 THEN {0}
  ELSE UNION {NotionalOf(qty, LotOf(uid, s), p) : p \in {p \in ExposurePrice(uid, s) : uid \in DOMAIN s.info}}

\* The position together with the resting buys.
ExistingExposure(uid, s) ==
  {n \in {held + pending : held \in Valued(uid, s.pos[uid].qty, s),
                           pending \in Valued(uid, PendingLots(uid, s), s)} : InRange(n)}

BuyNotional(d, n, s) ==
  IF d.uid \notin DOMAIN s.info THEN {}
  ELSE UNION {NotionalOf(n, LotOf(d.uid, s), p) : p \in PriceForBuy(d, s.quotes[d.uid])}

BuyNotionals(b, s) == [i \in DOMAIN b.dec |-> [n \in 0..b.dec[i].qty |-> BuyNotional(b.dec[i], n, s)]]

ApplyPositionNotional(b, s, lim) ==
  LET room == [u \in Uids |-> IF ExistingExposure(u, s) = {} THEN 0
                              ELSE lim.maxPosition - SumSet(ExistingExposure(u, s))]
  IN  Ration(b, "max_position_notional", "buy", room, PerInstrument(b), BuyNotionals(b, s))

\* An exposure that cannot be valued leaves no room at all.
ApplyTotalExposure(b, s, lim) ==
  LET baseline == MapThenSumSet(LAMBDA u : SumSet(ExistingExposure(u, s)), Uids)
      unknown  == (\E u \in Uids : ExistingExposure(u, s) = {}) \/ ~InRange(baseline)
  IN  Ration(b, "max_total_exposure", "buy",
             Shared(IF unknown THEN 0 ELSE lim.maxTotal - baseline), Common(b), BuyNotionals(b, s))

WithFee(notional, s) == {n \in {notional + MulBps(notional, s.feeBps)} : InRange(n)}

\* Mutant of PendingBuyPrice: a resting limit buy is reserved at the mark.
PendingMark(uid, b, s) == UNION {Padded(p, s) : p \in ExposurePrice(uid, s)}

\* The most a resting buy may still cost.
PendingBuyPrice(uid, b, s) ==
  IF b.limit > 0 THEN {b.limit} ELSE UNION {Padded(p, s) : p \in ExposurePrice(uid, s)}

\* The resting buys, by instrument and position in its list.
Pending(s) == UNION {{u} \X DOMAIN s.buys[u] : u \in Uids}

PendingCost(p, s) ==
  LET b == s.buys[p[1]][p[2]] IN
  IF p[1] \notin DOMAIN s.info THEN {}
  ELSE UNION {WithFee(n, s) : n \in UNION {NotionalOf(b.lots, LotOf(p[1], s), price) :
                                             price \in PendingBuyPrice(p[1], b, s)}}

\* What all resting buys may still cost, unknown if one of them is.
ReservedPendingBuyCost(s) ==
  LET total == MapThenSumSet(LAMBDA p : SumSet(PendingCost(p, s)), Pending(s))
  IN  {n \in {total} : InRange(n) /\ \A p \in Pending(s) : PendingCost(p, s) # {}}

\* A market buy is padded for slippage, as far as the padded price is in range.
EffectivePrice(d, price, s) ==
  IF d.type = "market" /\ Padded(price, s) # {} THEN SumSet(Padded(price, s)) ELSE price

CostWithFee(d, n, s) ==
  IF d.uid \notin DOMAIN s.info THEN {}
  ELSE UNION {WithFee(v, s) : v \in UNION {NotionalOf(n, LotOf(d.uid, s), EffectivePrice(d, p, s)) :
                                             p \in PriceForBuy(d, s.quotes[d.uid])}}

ApplyCashFloor(b, s, lim) ==
  LET reserved == ReservedPendingBuyCost(s) IN
  Ration(b, "cash_floor", "buy",
         Shared(IF reserved = {} THEN 0 ELSE s.cash - lim.cashFloor - SumSet(reserved)),
         Common(b), [i \in DOMAIN b.dec |-> [n \in 0..b.dec[i].qty |-> CostWithFee(b.dec[i], n, s)]])

\* Mutant of Sellable: resting sells still count as available.
SellableGross(s) == [u \in Uids |-> s.pos[u].qty]

Sellable(s) == [u \in Uids |-> s.pos[u].qty - s.sells[u]]

ApplyOversell(b, s) ==
  Ration(b, "oversell", "sell", Sellable(s), PerInstrument(b),
         [i \in DOMAIN b.dec |-> [n \in 0..b.dec[i].qty |-> {n}]])

-----------------------------------------------------------------------------
(* The first four rules turn an order away whatever its size *)
Gates(b, s, lim) ==
  ApplyCurrencyMismatch(
    ApplyAllowlist(ApplyOperationalHalt(ApplyKillSwitch(b, s, lim), s), s, lim), s)

Caps(b, s, lim) ==
  ApplyOrderCap(ApplyOrderCap(b, lim.perCycle, "max_orders_per_cycle"),
                lim.perDay - s.ordersToday, "max_orders_per_day")

Sizes(b, s, lim) ==
  ApplyOversell(
    ApplyCashFloor(ApplyTotalExposure(ApplyPositionNotional(b, s, lim), s, lim), s, lim), s)

Check(decisions, s, lim) == Sizes(Caps(Gates(Batch(decisions), s, lim), s, lim), s, lim)

\* reconstructFinal: what RunOnce makes of the adjustments alone.  The last one
\* made to a decision tells its quantity.
ReconstructFinal(decisions, log) ==
  LET Latest(i) == {k \in DOMAIN log : log[k].index = i /\ \A j \in DOMAIN log : log[j].index = i => j <= k}
      Qty(i) == IF Latest(i) = {} THEN decisions[i].qty ELSE SumSet({log[k].qty : k \in Latest(i)})
      kept == {i \in DOMAIN decisions : \A k \in Latest(i) : log[k].qty > 0}
  IN  [k \in 1..Cardinality(kept) |->
         LET i == InOrder(kept)[k] IN [decisions[i] EXCEPT !.qty = Qty(i)]]
=============================================================================
