--------------------------- MODULE MCPaperTrading ---------------------------
(***************************************************************************)
(* Instances of PaperTrading for TLC: a share traded in lots of 2 with a   *)
(* tick of 5, a bond whose tick is unknown, and one trading day followed   *)
(* by an evening.  Decision ids are interchangeable, client order ids are  *)
(* not: their order breaks ties between orders of the same instant.        *)
(***************************************************************************)
EXTENDS PaperRefinesContract, TLC

CONSTANTS share, bond, d1, d2, d3, d4

DecisionSymmetry == Permutations(DecisionIds)

MCLot == [u \in Instruments |-> 2]
MCTick == [u \in Instruments |-> IF u = share THEN 5 ELSE 0]

Buy(u, qty, type, limit, tif) ==
  [uid |-> u, action |-> "buy", qty |-> qty, type |-> type, limit |-> limit, tif |-> tif]
Sell(u, qty, type, limit, tif) == [Buy(u, qty, type, limit, tif) EXCEPT !.action = "sell"]

\* A book on both sides, and a quote of which only the last trade is known.
Book(b, a, l) == [bid |-> b, ask |-> a, last |-> l]
MCQuotes == {Book(21, 23, 22), Book(0, 0, 32)}

Day1 == {[start |-> 0, end |-> 2]}

NoPermissions == {[u \in {} |-> Unrestricted]}
Suspended == {[u \in Instruments |-> [buy |-> FALSE, sell |-> FALSE]], [u \in {} |-> Unrestricted]}

NoOldState == [id \in Ids |-> Absent]
NoOldOrder == [id \in Ids |-> NoOrder]

\* An older robot stopped between journaling, submitting and acknowledging.
RemnantState ==
  [id \in Ids |-> CASE id = 1 -> "new" [] id = 2 -> "submitted" [] OTHER -> Absent]
RemnantOrder ==
  [id \in Ids |->
     IF id > 2 THEN NoOrder
     ELSE [decision |-> IF id = 1 THEN d1 ELSE d2, uid |-> share, side |-> "buy", qty |-> 1,
           type |-> "limit", limit |-> 25, tif |-> "day", createdAt |-> 0]]

\* The first buy takes the cash below its floor; two buys at different prices
\* round the average price; a sell may come before there is anything to sell.
BooksDecisions ==
  {Buy(share, 2, "limit", 25, "day"), Buy(share, 1, "market", 0, "ioc"),
   Sell(share, 1, "market", 0, "day")}

\* Three of these, two buys at different prices and two sells, one of more than a
\* buy brings, before the window closes.
PnLDecisions ==
  {Buy(share, 2, "market", 0, "ioc"), Buy(share, 1, "limit", 40, "ioc"),
   Sell(share, 1, "market", 0, "ioc"), Sell(share, 2, "limit", 20, "day")}

\* An order that rests and one that does not, one that is refused, and two
\* decisions that are no order.
RecoveryDecisions ==
  {Buy(share, 1, "limit", 25, "day"), Buy(share, 1, "limit", 25, "ioc"),
   Buy(bond, 1, "market", 0, "day"), Buy(share, 0, "market", 0, "day"),
   [Buy(share, 1, "market", 0, "ioc") EXCEPT !.action = "hold"]}

\* Either the whole day with two of the first orders, or three orders of the second
\* kind while the window is open, with no crash or operator between them and the ids
\* in the order of the drawing.
OfKind(decisions) ==
  \A id \in Journaled : \E d \in decisions :
    <<order[id].side, order[id].qty, order[id].type, order[id].limit, order[id].tif>>
      = <<d.action, d.qty, d.type, d.limit, d.tif>>
TheDay == istate[3] = Absent /\ OfKind(BooksDecisions)
TheTrades ==
  /\ now <= 1 /\ \A id \in Ids \ {1} : istate[id] # Absent => istate[id - 1] # Absent
  /\ proc = "up" /\ cancels = {} /\ OfKind(PnLDecisions)
AllDecisions == BooksDecisions \cup PnLDecisions
MCSpec == Init /\ [][Next /\ (TheDay \/ TheTrades)']_vars
=============================================================================
