---------------------------- MODULE MCRiskLimits ----------------------------
(***************************************************************************)
(* Batches, snapshots and configurations for RiskLimits: a share in lots   *)
(* of 10, of which 205 lots wrap, and a bond in lots of 1 that may be      *)
(* unknown, unpriced or of another currency.                               *)
(***************************************************************************)
EXTENDS RiskLimits

CONSTANTS share, bond

Action(uid, action, qty, type, limit) ==
  [uid |-> uid, action |-> action, qty |-> qty, type |-> type, limit |-> limit, tif |-> "day",
   confident |-> TRUE]

Proposals ==
  {Action(share, "buy", 3, "limit", {10}), Action(share, "buy", 205, "market", {}),
   Action(bond, "buy", 4, "market", {}), Action(share, "sell", 2, "market", {}),
   Action(share, "close", 0, "market", {}), Action(bond, "sell", 1, "limit", {40}),
   Action(bond, "hold", 0, "market", {})}

\* No quantity, a limit that is missing, off the tick or far from the market, a
\* close that names its lots, and an action nobody knows.
BadProposals ==
  {Action(share, "sell", 0, "market", {}), Action(share, "buy", 1, "limit", {}),
   Action(share, "buy", 1, "limit", {11}), Action(bond, "buy", 1, "limit", {50}),
   Action(bond, "close", 1, "market", {}), Action(bond, "short", 1, "market", {})}

MCAnswers == SeqOf(Proposals, 3) \cup SeqOf(Proposals \cup BadProposals, 2)
MCRequest == [u \in Uids |-> [tick |-> 5, lastClose |-> IF u = share THEN 10 ELSE 40]]

Info(lot, currency, ticker) == [lot |-> lot, currency |-> currency, ticker |-> ticker]
SharesOnly == [u \in {share} |-> Info(10, "rub", "SHR")]
Both(currency) == [u \in Uids |-> IF u = share THEN Info(10, "rub", "SHR") ELSE Info(1, currency, "BND")]

\* A position in the share with a resting sell and a resting limit buy of the
\* bond; nothing held and a resting market buy of the share; a position in the
\* bond that has no mark.
Held == [pos |-> [u \in Uids |-> IF u = share THEN [qty |-> 3, last |-> 9] ELSE [qty |-> 0, last |-> 0]],
         buys |-> [u \in Uids |-> IF u = bond THEN <<[lots |-> 1, limit |-> 50]>> ELSE <<>>],
         sells |-> [u \in Uids |-> IF u = share THEN 2 ELSE 0],
         quotes |-> [u \in Uids |-> IF u = share THEN [ask |-> 10, last |-> 9] ELSE [ask |-> 0, last |-> 40]]]
Flat == [pos |-> [u \in Uids |-> [qty |-> 0, last |-> 0]],
         buys |-> [u \in Uids |-> IF u = share THEN <<[lots |-> 1, limit |-> 0]>> ELSE <<>>],
         sells |-> [u \in Uids |-> 0],
         quotes |-> Held.quotes]
Unmarked == [pos |-> [u \in Uids |-> IF u = bond THEN [qty |-> 2, last |-> 0] ELSE [qty |-> 1, last |-> 9]],
             buys |-> [u \in Uids |-> <<>>],
             sells |-> [u \in Uids |-> 0],
             quotes |-> [u \in Uids |-> IF u = share THEN [ask |-> 10, last |-> 9] ELSE [ask |-> 0, last |-> 0]]]

Account(a, info, halted, dayPnL, ordersToday, cash) ==
  [pos |-> a.pos, buys |-> a.buys, sells |-> a.sells, quotes |-> a.quotes, info |-> info,
   halted |-> halted, dayPnL |-> dayPnL, ordersToday |-> ordersToday, cash |-> cash,
   base |-> "rub", slippage |-> 500, feeBps |-> 100]

MCStates ==
  {Account(a, Both("rub"), halted, dayPnL, 1, cash) :
     a \in {Held, Flat, Unmarked}, halted \in BOOLEAN, dayPnL \in {0, -60}, cash \in {300, 900}}
  \cup {Account(a, info, FALSE, 0, 0, 900) : a \in {Held, Flat}, info \in {SharesOnly, Both("usd")}}

Config(allowlist, perCycle, perDay, maxTotal, maxDailyLoss) ==
  [allowlist |-> allowlist, perCycle |-> perCycle, perDay |-> perDay, maxPosition |-> 450,
   maxTotal |-> maxTotal, maxDailyLoss |-> maxDailyLoss, cashFloor |-> 100]

MCLimits ==
  {Config({}, 2, 4, 520, 50), Config({"SHR"}, 3, 3, 700, 50), Config({bond}, 3, 2, 420, 0)}
=============================================================================
