-------------------------- MODULE MCBrokerStream --------------------------
(***************************************************************************)
(* Instances of BrokerStream for TLC: two instruments whose candles may be *)
(* corrected late, and a queue of one.                                     *)
(***************************************************************************)
EXTENDS BrokerStream

CONSTANTS share, bond

Candle(u, t) == [type |-> "candle", uid |-> u, time |-> t]
MCFrames ==
  {Candle(share, 1), Candle(share, 2),
   [type |-> "last_price", uid |-> share], [type |-> "orderbook", uid |-> bond],
   [type |-> "lifecycle", lost |-> TRUE],
   [type |-> "error", code |-> "USAGE"], [type |-> "malformed"]}
=============================================================================
