--------------------------- MODULE MCTradingCycle ---------------------------
(***************************************************************************)
(* Instances of TradingCycle for TLC: one or two instruments in lots of 1, *)
(* whose price stands still, and a quote store that may not have a price.  *)
(***************************************************************************)
EXTENDS TradingCycle

CONSTANTS share, bond

OneLot == [u \in Instruments |-> 1]
OneTick == [u \in Instruments |-> 1]
Steady == [bid |-> 20, ask |-> 20, last |-> 20]
SteadyQuotes == {Steady}
Day == {[start |-> 0, end |-> 3]}

Priced == [u \in Instruments |-> Steady]
PricedViews == {Priced}
AnyViews == {Priced, [u \in Instruments |-> NoQuote],
             [u \in Instruments |-> [Steady EXCEPT !.last = 0]]}

NoPermissions == {[u \in {} |-> Unrestricted]}
NoDecisions == {}
NoOldState == [id \in Ids |-> Absent]
NoOldOrder == [id \in Ids |-> NoOrder]

ShareOnly == <<share>>
ShareAndBond == <<bond, share>>
OneSize == {1}

\* Room for two lots, and for a buy, a sale and one order more a day.
GuardRisk ==
  [maxDailyLoss |-> 20, allowlist |-> {}, perCycle |-> 1, perDay |-> 3, maxPosition |-> 40,
   maxTotal |-> 40, cashFloor |-> 0]

\* Cash for one lot above the floor.
FloorRisk == [GuardRisk EXCEPT !.maxDailyLoss = 100, !.perCycle = 2, !.cashFloor = 61]

\* Ids are random in the code, and their order matters only between orders of
\* one instrument that rest together: until there are two, drawing the ids in
\* their order loses no behaviour.
DrawnInOrder == \A id \in Ids \ {1} : istate[id] # Absent => istate[id - 1] # Absent
MCSpec == CycleInit /\ [][CycleNext /\ DrawnInOrder']_cycleVars
=============================================================================
