------------------------- MODULE DecisionValidation -------------------------
(***************************************************************************)
(* internal/decision/validate.go and its use in RunOnce: the answer of an  *)
(* engine is a sequence of actions, of which the bad ones are left out one *)
(* by one and the others go on to risk.  Only whether an action is bad is  *)
(* modelled, not the field and the message it is reported with.            *)
(*                                                                         *)
(* An action has a uid, an action, a qty, a type, a limit (a set, empty    *)
(* when there is none), a tif, and whether its confidence lies in [0, 1].  *)
(* A request maps the instruments of the cycle to [tick, lastClose], each  *)
(* 0 when it is not known.                                                 *)
(***************************************************************************)
EXTENDS Decimals, Ascending, SequencesExt

Actions == {"buy", "sell", "hold", "close"}
OrderTypes == {"market", "limit"}
TimesInForce == {"day", "ioc"}
DefaultPriceSanityBandBps == 1000

Sided(a) == a.action \in {"buy", "sell"}

\* Mutant of Repeats: every action is looked at by itself.
RepeatsNothing(actions, i) == FALSE

\* The second action of its kind on its instrument; the first one counts even
\* when it is bad itself.
Repeats(actions, i) ==
  /\ actions[i].action \in Actions
  /\ \E j \in 1..(i - 1) : actions[j].uid = actions[i].uid /\ actions[j].action = actions[i].action

BadShape(actions, i) ==
  LET a == actions[i] IN
  \/ a.action \notin Actions
  \/ a.type \notin OrderTypes
  \/ a.type \in OrderTypes /\ (a.type = "limit") # (a.limit # {})
  \/ Sided(a) /\ a.qty <= 0
  \/ a.tif \notin TimesInForce
  \/ ~a.confident
  \/ Repeats(actions, i)

\* Positive, a whole number of ticks and within the band around the last close;
\* a tick or a close that is not known is not checked against.
GoodLimitPrice(price, instr) ==
  LET band == MulBps(instr.lastClose, DefaultPriceSanityBandBps) IN
  /\ price > 0
  /\ instr.tick > 0 => price % instr.tick = 0
  /\ instr.lastClose > 0 => instr.lastClose - band <= price /\ price <= instr.lastClose + band

BadSemantics(a, request) ==
  \/ a.uid \notin DOMAIN request
  \/ /\ a.uid \in DOMAIN request
     /\ \/ Sided(a) /\ a.qty <= 0
        \/ a.action \in {"hold", "close"} /\ (a.qty # 0 \/ a.limit # {})
        \/ a.type = "limit" /\ \E p \in a.limit : ~GoodLimitPrice(p, request[a.uid])

Bad(actions, request) ==
  {i \in DOMAIN actions : BadShape(actions, i) \/ BadSemantics(actions[i], request)}

\* The actions RunOnce takes on, in their order, a market order with limit 0.
Accepted(actions, request) ==
  LET kept == InOrder(DOMAIN actions \ Bad(actions, request))
      decision(a) == [uid |-> a.uid, action |-> a.action, qty |-> a.qty, type |-> a.type,
                      limit |-> SumSet(a.limit), tif |-> a.tif]
  IN  [k \in DOMAIN kept |-> decision(actions[kept[k]])]
=============================================================================
