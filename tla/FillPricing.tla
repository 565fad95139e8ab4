---------------------------- MODULE FillPricing -----------------------------
(***************************************************************************)
(* How the paper simulator prices a fill (execution/paper/fill.go) and how *)
(* the portfolio averages a position's entry price (portfolio.go).  Money  *)
(* is an integer number of the decimal's smallest units; a price of a      *)
(* quote that is not known is 0, as the zero Decimal is in the code.       *)
(***************************************************************************)
EXTENDS Decimals

CONSTANTS SlippageBps,     \* config paper.slippage_bps
          CommNum, CommDen \* config paper.commission_rate as num / den

ASSUME PricingAssumption ==
  /\ SlippageBps \in Nat
  /\ CommNum \in Nat
  /\ CommDen \in Nat \ {0}

\* The price a side is priced off: ask for a buy, bid for a sell, else the
\* last trade; the empty set when none of them is known.
ReferenceBuy(q)  == {p \in {IF q.ask > 0 THEN q.ask ELSE q.last} : p > 0}
ReferenceSell(q) == {p \in {IF q.bid > 0 THEN q.bid ELSE q.last} : p > 0}
Reference(side, q) == IF side = "buy" THEN ReferenceBuy(q) ELSE ReferenceSell(q)

\* Slippage against the trader: added for a buy, taken off for a sell.
Adverse(base, side) ==
  IF side = "buy" THEN base + MulBps(base, SlippageBps)
                  ELSE base - MulBps(base, SlippageBps)

\* No limit price (0) is never crossed.
Crosses(side, limit, base) ==
  limit > 0 /\ IF side = "buy" THEN base <= limit ELSE base >= limit

LimitPrice(side, base, tick) ==
  RoundToIncrement(base, tick, IF side = "buy" THEN "floor" ELSE "ceil")

MarketPrice(side, base, tick) ==
  RoundToIncrement(Adverse(base, side), tick, IF side = "buy" THEN "ceil" ELSE "floor")

\* The price at which quote q fills order o, as a set: empty when it does not.
PriceFill(o, q, tick) ==
  IF o.type = "limit"
  THEN {LimitPrice(o.side, b, tick) : b \in {b \in Reference(o.side, q) : Crosses(o.side, o.limit, b)}}
  ELSE {MarketPrice(o.side, b, tick) : b \in Reference(o.side, q)}

Notional(price, lots, lot) == price * (lots * lot)

Commission(price, lots, lot) ==
  MulRat(Notional(price, lots, lot), CommNum, CommDen, "halfAwayFromZero")

\* Mutant of RecomputeAvgPrice: the plain mean of the two prices.
PlainMeanPrice(avg, held, price, qty) ==
  IF held = 0 THEN price ELSE MulRat(avg + price, 1, 2, "halfAwayFromZero")

\* The weighted average entry price after adding qty lots at price.
RecomputeAvgPrice(avg, held, price, qty) ==
  MulRat(avg * held + price * qty, 1, held + qty, "halfAwayFromZero")
=============================================================================
