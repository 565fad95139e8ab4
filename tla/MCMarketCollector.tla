-------------------------- MODULE MCMarketCollector --------------------------
(***************************************************************************)
(* Instances of MarketCollector for TLC.  Bars and quotes meet in the      *)
(* queue and in the order of events only, so that one run takes bars from  *)
(* the first on, with no quotes, and quotes in the last bar.               *)
(***************************************************************************)
EXTENDS MarketCollector

CONSTANTS share, bond

InBars == now = 1 /\ spent = [breaks |-> 0, quotes |-> MaxQuotes, crashes |-> 0]
InQuotes == now = MaxBar /\ spent = [breaks |-> 0, quotes |-> 0, crashes |-> 0]

MCInit == CollectorInit /\ (InBars \/ InQuotes)
MCSpec == MCInit /\ [][CollectorNext]_collectorVars
=============================================================================
