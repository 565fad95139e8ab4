--------------------------- MODULE TradingProofs ---------------------------
(***************************************************************************)
(* Theorems for every value of the constants.  About PaperTrading: its     *)
(* types, its journal, its books, and that it implements ExecutionContract *)
(* under the refinement mapping of PaperRefinesContract.  About            *)
(* TradingCycle, the cycle composed with that executor and with the risk   *)
(* check: its types, one working order an instrument, covered sells, the   *)
(* cap of the day and the limits on what is committed.                     *)
(***************************************************************************)
EXTENDS PaperRefinesContract, TradingCycle, FoldProofs, SequenceTheorems, TLAPS

-----------------------------------------------------------------------------
(* The arithmetic *)

\* Dividing by a positive integer, Go's way, yields an integer.
LEMMA TruncDivType == ASSUME NEW n \in Int, NEW d \in Nat \ {0}
                      PROVE  /\ TruncDiv(n, d) \in Int
                             /\ TruncRem(n, d) \in Int
BY DEF TruncDiv, TruncRem

\* What rounding adds to a quotient is -1, 0 or 1, whatever the mode.
LEMMA RoundQuotientType ==
  ASSUME NEW r \in Int, NEW den, NEW mode
  PROVE  RoundQuotient(r, den, mode) \in -1..1
BY DEF RoundQuotient, SignOf

\* A ratio of a decimal is a decimal.
LEMMA MulRatType ==
  ASSUME NEW d \in Int, NEW num \in Int, NEW den \in Nat \ {0}
  PROVE  MulRat(d, num, den, "halfAwayFromZero") \in Int
<1> DEFINE n == d * num
<1>1. n \in Int /\ ~(den < 0) /\ AbsOf(den) = den
  BY DEF AbsOf
<1>2. TruncDiv(n, den) \in Int /\ TruncRem(n, den) \in Int
  BY <1>1, TruncDivType
<1>3. RoundQuotient(TruncRem(n, den), den, "halfAwayFromZero") \in -1..1
  BY <1>2, RoundQuotientType
<1> QED BY <1>1, <1>2, <1>3 DEF MulRat

\* Aligning to a tick: the result is a decimal, and "floor" never moves a price
\* up nor "ceil" down (RoundToIncrement's directions, decimal.go).
LEMMA RoundToIncrementBounds ==
  ASSUME NEW d \in Int, NEW inc \in Nat \ {0}
  PROVE  /\ RoundToIncrement(d, inc, "floor") \in Int
         /\ RoundToIncrement(d, inc, "ceil") \in Int
         /\ RoundToIncrement(d, inc, "floor") <= d
         /\ RoundToIncrement(d, inc, "ceil") >= d
<1> DEFINE q == TruncDiv(d, inc)
           r == TruncRem(d, inc)
<1>1. q \in Int /\ r \in Int
  BY TruncDivType
<1>2. d = q * inc + r
  BY <1>1 DEF TruncRem
<1>3. /\ d >= 0 => 0 <= r /\ r < inc
      /\ d < 0 => -inc < r /\ r <= 0
  BY DEF TruncDiv, TruncRem
<1> HIDE DEF q, r
<1>4. (q + 1) * inc = q * inc + inc /\ (q - 1) * inc = q * inc - inc /\ (q + 0) * inc = q * inc
  BY <1>1
<1>5. RoundToIncrement(d, inc, "floor") = IF r < 0 THEN (q - 1) * inc ELSE (q + 0) * inc
  BY <1>1 DEF RoundToIncrement, RoundQuotient, RoundsAway, SignOf, q, r
<1>6. RoundToIncrement(d, inc, "ceil") = IF r > 0 THEN (q + 1) * inc ELSE (q + 0) * inc
  BY <1>1 DEF RoundToIncrement, RoundQuotient, RoundsAway, SignOf, q, r
<1>7. q * inc \in Int
  BY <1>1
<1> QED BY <1>1, <1>2, <1>3, <1>4, <1>5, <1>6, <1>7

-----------------------------------------------------------------------------
(* Pricing *)

Quote == [bid : Nat, ask : Nat, last : Nat]

\* priceFill yields whole numbers, and a limit order never fills at a price worse
\* than its limit: its reference price crosses the limit and rounds towards the
\* trader.
LEMMA PriceFillBounds ==
  ASSUME NEW o \in Order, NEW q \in Quote, NEW tick \in Nat \ {0},
         NEW p \in PriceFill(o, q, tick)
  PROVE  /\ p \in Int
         /\ o.type = "limit" => IF o.side = "buy" THEN p <= o.limit ELSE p >= o.limit
<1>1. Reference(o.side, q) \subseteq Nat
  BY DEF Reference, ReferenceBuy, ReferenceSell, Quote
<1>2. CASE o.type = "limit"
  <2>1. PICK b \in Reference(o.side, q) :
          Crosses(o.side, o.limit, b) /\ p = LimitPrice(o.side, b, tick)
    BY <1>2 DEF PriceFill
  <2>2. b \in Int /\ o.limit \in Int
    BY <1>1, <2>1 DEF Order
  <2>3. CASE o.side = "buy"
    <3>1. p = RoundToIncrement(b, tick, "floor") /\ b <= o.limit
      BY <2>1, <2>3 DEF LimitPrice, Crosses
    <3>2. p \in Int /\ p <= b
      BY <2>2, <3>1, RoundToIncrementBounds
    <3> QED BY <2>2, <2>3, <3>1, <3>2
  <2>4. CASE o.side # "buy"
    <3>1. p = RoundToIncrement(b, tick, "ceil") /\ b >= o.limit
      BY <2>1, <2>4 DEF LimitPrice, Crosses
    <3>2. p \in Int /\ p >= b
      BY <2>2, <3>1, RoundToIncrementBounds
    <3> QED BY <2>2, <2>4, <3>1, <3>2
  <2> QED BY <2>3, <2>4
<1>3. CASE o.type # "limit"
  <2>1. PICK b \in Reference(o.side, q) : p = MarketPrice(o.side, b, tick)
    BY <1>3 DEF PriceFill
  <2>2. MulBps(b, SlippageBps) \in Int
    BY <1>1, <2>1, MulRatType, PricingAssumption DEF MulBps
  <2>3. Adverse(b, o.side) \in Int
    BY <1>1, <2>1, <2>2 DEF Adverse
  <2>4. p \in Int
    BY <2>1, <2>3, RoundToIncrementBounds DEF MarketPrice
  <2> QED BY <1>3, <2>4
<1> QED BY <1>2, <1>3

\* Notionals and commissions are whole numbers of the smallest unit.
LEMMA MoneyType ==
  ASSUME NEW price \in Int, NEW lots \in Nat, NEW lot \in Nat
  PROVE  Notional(price, lots, lot) \in Int /\ Commission(price, lots, lot) \in Int
<1>1. Notional(price, lots, lot) \in Int
  BY DEF Notional
<1> QED BY <1>1, MulRatType, PricingAssumption DEF Commission

LEMMA AvgPriceType ==
  ASSUME NEW avg \in Int, NEW held \in Nat, NEW price \in Int, NEW qty \in Nat \ {0}
  PROVE  RecomputeAvgPrice(avg, held, price, qty) \in Int
<1>1. avg * held + price * qty \in Int /\ held + qty \in Nat \ {0}
  OBVIOUS
<1> QED BY <1>1, MulRatType DEF RecomputeAvgPrice

-----------------------------------------------------------------------------
(* Type correctness *)

ApplyTypes == fills' \in SUBSET Fill /\ cash' \in Int /\ halted' \in BOOLEAN
              /\ pos' \in [Instruments -> [qty : Nat, avg : Int]] /\ seeded' \in BOOLEAN

\* ApplyFill keeps the books well typed; in particular no position goes below
\* zero, because an oversell is refused.
LEMMA ApplyFillType ==
  ASSUME TypeOK, NEW id \in Ids, order[id] \in Order,
         PriceTick[order[id].uid] > 0,
         NEW price \in PriceFill(order[id], offer.quote, PriceTick[order[id].uid]),
         ApplyFill(id, price)
  PROVE  ApplyTypes
<1> DEFINE o == order[id]
           held == pos[o.uid]
<1>1. /\ o.uid \in Instruments /\ o.qty \in Nat \ {0} /\ o.side \in {"buy", "sell"}
      /\ held \in [qty : Nat, avg : Int]
      /\ PriceTick[o.uid] \in Nat \ {0} /\ Lot[o.uid] \in Nat \ {0}
      /\ offer.quote \in Quote /\ offer.now \in Nat /\ offer.ts \in Nat
  BY TradingAssumption DEF TypeOK, Order, Quote
<1>2. price \in Nat
  <2>1. price \in Int
    BY <1>1, PriceFillBounds
  <2> QED BY <2>1 DEF ApplyFill, CanApply
<1>3. Notional(price, o.qty, Lot[o.uid]) \in Int /\ Fee(o, price) \in Int
  <2>1. price \in Int /\ o.qty \in Nat /\ Lot[o.uid] \in Nat
    BY <1>1, <1>2
  <2> HIDE DEF o
  <2> QED BY <2>1, MoneyType DEF Fee
<1>4. RealizedPnL(o, price) \in Int
  <2>1. price - held.avg \in Int
    BY <1>1, <1>2
  <2>2. Notional(price - held.avg, o.qty, Lot[o.uid]) \in Int
    BY <1>1, <2>1, MoneyType
  <2> QED BY <2>2 DEF RealizedPnL
<1>5. fills' \in SUBSET Fill
  BY <1>1, <1>2, <1>3, <1>4 DEF ApplyFill, Fill, TypeOK
<1>6. cash' \in Int
  BY <1>3 DEF ApplyFill, CashDelta, TypeOK
<1>7. halted' \in BOOLEAN /\ seeded' \in BOOLEAN
  BY DEF ApplyFill, TypeOK, BelowFloor
<1>8. PositionAfter(o, price) \in [qty : Nat, avg : Int]
  <2>1. CASE o.side = "buy"
    <3>1. RecomputeAvgPrice(held.avg, held.qty, price, o.qty) \in Int
      <4>1. held.avg \in Int /\ held.qty \in Nat /\ price \in Int /\ o.qty \in Nat \ {0}
        BY <1>1, <1>2
      <4> HIDE DEF o, held
      <4> QED BY <4>1, AvgPriceType
    <3> QED BY <1>1, <2>1, <3>1 DEF PositionAfter
  <2>2. CASE o.side = "sell"
    <3>1. o.qty <= held.qty
      BY <2>2 DEF ApplyFill, CanApply
    <3> QED BY <1>1, <2>2, <3>1 DEF PositionAfter
  <2> QED BY <1>1, <2>1, <2>2
<1>9. pos' \in [Instruments -> [qty : Nat, avg : Int]]
  BY <1>1, <1>8 DEF ApplyFill, TypeOK
<1> QED BY <1>5, <1>6, <1>7, <1>9 DEF ApplyTypes

JournalOK ==
  /\ istate \in [Ids -> IntentState \cup {Absent}]
  /\ order \in [Ids -> Order \cup {NoOrder}]
  /\ \A id \in Ids : istate[id] = Absent <=> order[id] = NoOrder

\* No edge of the lifecycle leaves or enters the absent state.
LEMMA EdgesWithinStates ==
  ASSUME NEW from, NEW to, CanTransition(from, to)
  PROVE  from \in IntentState \ Terminal /\ to \in IntentState /\ from # Absent /\ to # Absent
BY DEF CanTransition, Edges, IntentState, Terminal, Absent

LEMMA CasType ==
  ASSUME JournalOK, NEW id \in Ids, NEW from, NEW to, Cas(id, from, to)
  PROVE  JournalOK'
<1>1. /\ from = istate[id] /\ to \in IntentState /\ from # Absent /\ to # Absent
      /\ istate' = [istate EXCEPT ![id] = to] /\ order' = order
  BY EdgesWithinStates DEF Cas
<1> QED BY <1>1 DEF JournalOK

\* The record submitOne journals is an order.
LEMMA SubmitOneType ==
  ASSUME TypeOK, NEW did \in DecisionIds, NEW d \in Decision, NEW id \in Ids,
         SubmitOne(did, d, id)
  PROVE  JournalOK' /\ order'[id] \in Order
<1> DEFINE new == [decision |-> did, uid |-> d.uid, side |-> d.action, qty |-> d.qty,
                   type |-> d.type, limit |-> d.limit, tif |-> d.tif, createdAt |-> now]
<1>1. d \in Decision /\ d.action \in {"buy", "sell"} /\ d.qty \in Nat \ {0} /\ now \in Nat
  BY DEF SubmitOne, Submittable, Decision, TypeOK
<1>2. new \in Order
  BY <1>1 DEF Order, Decision
<1>3. NoOrder # new
  BY <1>2, TradingAssumption
<1>4. order' = [order EXCEPT ![id] = new]
  BY DEF SubmitOne
<1>5. PICK st \in {"rejected", "acked"} : istate' = [istate EXCEPT ![id] = st]
  BY DEF SubmitOne
<1>6. st \in IntentState /\ st # Absent
  BY DEF IntentState, Absent
<1> HIDE DEF new
<1> QED BY <1>2, <1>3, <1>4, <1>5, <1>6 DEF JournalOK, TypeOK

LEMMA TypeInit == Init => TypeOK
<1> SUFFICES ASSUME Init PROVE TypeOK
  OBVIOUS
<1>1. JournalOK
  BY JournalAssumption DEF Init, JournalOK, IntentState, Absent
<1>2. now \in Nat /\ proc \in {"down", "recovering", "up"} /\ toRecover \in SUBSET Ids
  BY DEF Init
<1>3. /\ fills \in SUBSET Fill /\ cash \in Int /\ seeded \in BOOLEAN /\ halted \in BOOLEAN
      /\ pos \in [Instruments -> [qty : Nat, avg : Int]]
  <2>1. fills \in SUBSET Fill
    BY DEF Init
  <2>2. cash \in Int
    BY DEF Init
  <2>4. seeded \in BOOLEAN /\ halted \in BOOLEAN
    BY Zenon DEF Init
  <2>3. pos \in [Instruments -> [qty : Nat, avg : Int]]
    BY DEF Init
  <2> QED BY <2>1, <2>2, <2>3, <2>4
<1>4. session \in Window /\ status \in [Instruments -> Permission]
  BY DEF Init, AllDay, Window, Permission, Unrestricted
<1>5. /\ sched \in [call : {"idle", "cycle", "submit", "expire"}, todo : SUBSET Ids, window : Window]
      /\ offer \in [todo : SUBSET Ids, quote : [bid : Nat, ask : Nat, last : Nat], ts : Nat,
                    now : Nat, session : Window, can : Permission]
      /\ cancels \in SUBSET [id : Ids, from : IntentState]
  BY DEF Init, IdleSched, NoOffer, NoQuote, AllDay, Window, Permission, Unrestricted
<1> QED BY <1>1, <1>2, <1>3, <1>4, <1>5 DEF TypeOK, JournalOK

\* What the conjuncts of TypeOK outside the journal and the books say.
CallsOK ==
  /\ now \in Nat /\ proc \in {"down", "recovering", "up"} /\ toRecover \in SUBSET Ids
  /\ session \in Window /\ status \in [Instruments -> Permission]
  /\ sched \in [call : {"idle", "cycle", "submit", "expire"}, todo : SUBSET Ids, window : Window]
  /\ offer \in [todo : SUBSET Ids, quote : [bid : Nat, ask : Nat, last : Nat], ts : Nat,
                now : Nat, session : Window, can : Permission]
  /\ cancels \in SUBSET [id : Ids, from : IntentState]

BooksOK ==
  /\ fills \in SUBSET Fill
  /\ cash \in Int /\ seeded \in BOOLEAN /\ halted \in BOOLEAN
  /\ pos \in [Instruments -> [qty : Nat, avg : Int]]

LEMMA NextOfferType ==
  ASSUME CallsOK, NEW id, offer' \in {NextOffer(id), NoOffer}
  PROVE  offer' \in [todo : SUBSET Ids, quote : [bid : Nat, ask : Nat, last : Nat], ts : Nat,
                     now : Nat, session : Window, can : Permission]
<1> DEFINE T == [todo : SUBSET Ids, quote : [bid : Nat, ask : Nat, last : Nat], ts : Nat,
                 now : Nat, session : Window, can : Permission]
<1>1. NoOffer \in T
  BY DEF NoOffer, NoQuote, AllDay, Window, Permission, Unrestricted
<1>2. [offer EXCEPT !.todo = @ \ {id}] \in T
  BY DEF CallsOK
<1> HIDE DEF T
<1>3. offer' \in T
  BY <1>1, <1>2 DEF NextOffer
<1> QED BY <1>3 DEF T

LEMMA TypeStep == TypeOK /\ [Next]_vars => TypeOK'
<1> SUFFICES ASSUME JournalOK, BooksOK, CallsOK, [Next]_vars
             PROVE  JournalOK' /\ BooksOK' /\ CallsOK'
  BY DEF TypeOK, JournalOK, BooksOK, CallsOK
<1> USE DEF startup, journal, ledger, gates
<1>0. TypeOK
  BY DEF TypeOK, JournalOK, BooksOK, CallsOK
<1>1. ASSUME UNCHANGED vars PROVE JournalOK' /\ BooksOK' /\ CallsOK'
  BY <1>1 DEF vars, JournalOK, BooksOK, CallsOK
<1>2. ASSUME Submission PROVE JournalOK' /\ BooksOK' /\ CallsOK'
  <2>1. ASSUME NEW s \in Sessions, BeginCycle(s) PROVE JournalOK' /\ BooksOK' /\ CallsOK'
    <3>1. s \in Window
      BY TradingAssumption
    <3>2. CallsOK'
      BY <2>1, <3>1 DEF BeginCycle, CallsOK, IdleSched
    <3> QED BY <2>1, <3>2 DEF BeginCycle, JournalOK, BooksOK
  <2>2. ASSUME NEW p \in StatusInputs, BeginSubmit(p) PROVE JournalOK' /\ BooksOK' /\ CallsOK'
    <3>1. PICK S \in SUBSET Instruments : p \in [S -> Permission]
      BY TradingAssumption
    <3>2. status' \in [Instruments -> Permission]
      BY <2>2, <3>1 DEF BeginSubmit, CallsOK
    <3>3. session' \in Window
      BY <2>2 DEF BeginSubmit, CallsOK
    <3>4. sched' \in [call : {"idle", "cycle", "submit", "expire"}, todo : SUBSET Ids, window : Window]
      BY <2>2 DEF BeginSubmit, IdleSched, AllDay, Window
    <3>5. CallsOK'
      BY <2>2, <3>2, <3>3, <3>4 DEF BeginSubmit, CallsOK
    <3> QED BY <2>2, <3>5 DEF BeginSubmit, JournalOK, BooksOK
  <2>3. ASSUME NEW did \in DecisionIds, NEW d \in Decisions, NEW id \in Ids, SubmitOne(did, d, id)
        PROVE  JournalOK' /\ BooksOK' /\ CallsOK'
    <3>1. d \in Decision
      BY TradingAssumption
    <3>2. JournalOK'
      BY <1>0, <2>3, <3>1, SubmitOneType
    <3> QED BY <2>3, <3>2 DEF SubmitOne, BooksOK, CallsOK
  <2>4. ASSUME EndCycle PROVE JournalOK' /\ BooksOK' /\ CallsOK'
    <3>1. CallsOK'
      BY <2>4 DEF EndCycle, CallsOK, IdleSched, AllDay, Window
    <3> QED BY <2>4, <3>1 DEF EndCycle, JournalOK, BooksOK
  <2> QED BY <1>2, <2>1, <2>2, <2>3, <2>4 DEF Submission
<1>3. ASSUME Expiry PROVE JournalOK' /\ BooksOK' /\ CallsOK'
  <2>1. ASSUME BeginExpire PROVE JournalOK' /\ BooksOK' /\ CallsOK'
    <3>1. CallsOK'
      BY <2>1 DEF BeginExpire, CallsOK, IdleSched, AllDay, Window, DayOrders
    <3> QED BY <2>1, <3>1 DEF BeginExpire, JournalOK, BooksOK
  <2>2. ASSUME NEW id \in Ids, ExpireOne(id) PROVE JournalOK' /\ BooksOK' /\ CallsOK'
    <3>1. JournalOK'
      <4>1. Cas(id, "acked", "canceled") \/ UNCHANGED journal
        BY <2>2 DEF ExpireOne
      <4>2. UNCHANGED journal => JournalOK'
        BY DEF JournalOK
      <4> QED BY <4>1, <4>2, CasType
    <3>2. CallsOK'
      BY <2>2 DEF ExpireOne, CallsOK
    <3> QED BY <2>2, <3>1, <3>2 DEF ExpireOne, BooksOK
  <2>3. ASSUME EndExpire PROVE JournalOK' /\ BooksOK' /\ CallsOK'
    <3>1. CallsOK'
      BY <2>3 DEF EndExpire, CallsOK, IdleSched, AllDay, Window
    <3> QED BY <2>3, <3>1 DEF EndExpire, JournalOK, BooksOK
  <2> QED BY <1>3, <2>1, <2>2, <2>3 DEF Expiry
<1>4. ASSUME Observation PROVE JournalOK' /\ BooksOK' /\ CallsOK'
  <2>1. ASSUME NEW uid \in Instruments, NEW q \in Quotes, NEW ts \in 0..MaxTime, OnQuote(uid, q, ts)
        PROVE  JournalOK' /\ BooksOK' /\ CallsOK'
    <3>1. /\ q \in [bid : Nat, ask : Nat, last : Nat] /\ ts \in Nat /\ Resting(uid) \in SUBSET Ids
          /\ status[uid] \in Permission
      BY TradingAssumption DEF Resting, CallsOK
    <3>2. CallsOK'
      BY <2>1, <3>1 DEF OnQuote, CallsOK
    <3> QED BY <2>1, <3>2 DEF OnQuote, JournalOK, BooksOK
  <2>2. ASSUME NEW id \in Ids, OfferRests(id) PROVE JournalOK' /\ BooksOK' /\ CallsOK'
    <3>1. CallsOK'
      BY <2>2, NextOfferType DEF OfferRests, CallsOK
    <3> QED BY <2>2, <3>1 DEF OfferRests, JournalOK, BooksOK
  <2>3. ASSUME NEW id \in Ids, OfferCancelsIoc(id) PROVE JournalOK' /\ BooksOK' /\ CallsOK'
    <3>1. CallsOK'
      BY <2>3, NextOfferType DEF OfferCancelsIoc, CallsOK
    <3>2. JournalOK'
      BY <2>3, CasType DEF OfferCancelsIoc
    <3> QED BY <2>3, <3>1, <3>2 DEF OfferCancelsIoc, BooksOK
  <2>4. ASSUME NEW id \in Ids, OfferSettles(id) PROVE JournalOK' /\ BooksOK' /\ CallsOK'
    <3>1. CallsOK'
      BY <2>4, NextOfferType DEF OfferSettles, CallsOK
    <3>2. JournalOK'
      BY <2>4, CasType DEF OfferSettles
    <3>3. PICK price \in FillPrices(id) : ApplyFill(id, price)
      BY <2>4 DEF OfferSettles
    <3>4. order[id] \in Order
      BY <2>4 DEF OfferSettles, Cas, JournalOK, Absent
    <3>5. PriceTick[order[id].uid] > 0 /\ price \in PriceFill(order[id], offer.quote, PriceTick[order[id].uid])
      BY <3>3 DEF FillPrices
    <3>6. ApplyTypes
      BY <1>0, <3>3, <3>4, <3>5, ApplyFillType
    <3>7. BooksOK'
      BY <3>6 DEF ApplyTypes, BooksOK
    <3> QED BY <3>1, <3>2, <3>7
  <2>5. ASSUME NEW id \in Ids, OfferFails(id) PROVE JournalOK' /\ BooksOK' /\ CallsOK'
    <3>1. CallsOK'
      BY <2>5, NextOfferType DEF OfferFails, CallsOK
    <3> QED BY <2>5, <3>1 DEF OfferFails, JournalOK, BooksOK
  <2> QED BY <1>4, <2>1, <2>2, <2>3, <2>4, <2>5 DEF Observation
<1>5. ASSUME Operator PROVE JournalOK' /\ BooksOK' /\ CallsOK'
  <2>1. ASSUME NEW id \in Ids, RequestCancel(id) PROVE JournalOK' /\ BooksOK' /\ CallsOK'
    <3>1. CallsOK'
      BY <2>1 DEF RequestCancel, CallsOK
    <3> QED BY <2>1, <3>1 DEF RequestCancel, JournalOK, BooksOK
  <2>2. ASSUME NEW c \in cancels, CompleteCancel(c) PROVE JournalOK' /\ BooksOK' /\ CallsOK'
    <3>1. JournalOK'
      <4>1. c.id \in Ids
        BY DEF CallsOK
      <4>2. Cas(c.id, c.from, "canceled") \/ UNCHANGED journal
        BY <2>2 DEF CompleteCancel
      <4>3. UNCHANGED journal => JournalOK'
        BY DEF JournalOK
      <4> QED BY <4>1, <4>2, <4>3, CasType
    <3>2. CallsOK'
      BY <2>2 DEF CompleteCancel, CallsOK
    <3> QED BY <2>2, <3>1, <3>2 DEF CompleteCancel, BooksOK
  <2> QED BY <1>5, <2>1, <2>2 DEF Operator
<1>6. ASSUME Process PROVE JournalOK' /\ BooksOK' /\ CallsOK'
  <2>1. ASSUME StartUp PROVE JournalOK' /\ BooksOK' /\ CallsOK'
    <3>1. StartingCash \in Int
      BY TradingAssumption
    <3>2. cash' \in Int
      BY <2>1, <3>1 DEF StartUp, Funded, BooksOK
    <3>3. seeded' \in BOOLEAN
      BY <2>1, Zenon DEF StartUp
    <3>4. BooksOK'
      BY <2>1, <3>2, <3>3 DEF StartUp, BooksOK
    <3>5. CallsOK'
      BY <2>1 DEF StartUp, CallsOK, Incomplete
    <3> QED BY <2>1, <3>4, <3>5 DEF StartUp, JournalOK
  <2>2. ASSUME NEW id \in Ids, Recover(id) PROVE JournalOK' /\ BooksOK' /\ CallsOK'
    <3>1. JournalOK'
      BY <2>2, CasType DEF Recover
    <3>2. CallsOK'
      BY <2>2 DEF Recover, CallsOK
    <3> QED BY <2>2, <3>1, <3>2 DEF Recover, BooksOK
  <2>3. ASSUME Recovered PROVE JournalOK' /\ BooksOK' /\ CallsOK'
    BY <2>3 DEF Recovered, JournalOK, BooksOK, CallsOK
  <2>4. ASSUME Crash PROVE JournalOK' /\ BooksOK' /\ CallsOK'
    <3>1. offer' \in {NoOffer}
      BY <2>4 DEF Crash
    <3>2. CallsOK'
      BY <2>4, <3>1, NextOfferType DEF Crash, CallsOK, IdleSched, AllDay, Window
    <3> QED BY <2>4, <3>2 DEF Crash, JournalOK, BooksOK
  <2>5. ASSUME Tick PROVE JournalOK' /\ BooksOK' /\ CallsOK'
    BY <2>5 DEF Tick, JournalOK, BooksOK, CallsOK
  <2> QED BY <1>6, <2>1, <2>2, <2>3, <2>4, <2>5 DEF Process
<1> QED BY <1>1, <1>2, <1>3, <1>4, <1>5, <1>6 DEF Next

\* Type correctness (and that no position is ever short): the type invariant
\* is inductive.
THEOREM TypeCorrect == Spec => []TypeOK
<1> QED BY TypeInit, TypeStep, PTL DEF Spec

-----------------------------------------------------------------------------
(* Orders and their fills *)

Ends(id) ==
  /\ \E from \in IntentState, to \in {"rejected", "canceled"} : Cas(id, from, to)
  /\ fills' = fills

\* What a step does to the journal and the fills: nothing, one submission, one
\* order that ends without a fill, or one settlement.
LEMMA JournalStep ==
  ASSUME TypeOK, [Next]_vars
  PROVE  \/ UNCHANGED <<journal, fills>>
         \/ \E did \in DecisionIds, d \in Decisions, id \in Ids : SubmitOne(did, d, id)
         \/ \E id \in Ids : Ends(id)
         \/ \E id \in Ids : OfferSettles(id)
<1> DEFINE Goal == \/ UNCHANGED <<journal, fills>>
                   \/ \E did \in DecisionIds, d \in Decisions, id \in Ids : SubmitOne(did, d, id)
                   \/ \E id \in Ids : Ends(id)
                   \/ \E id \in Ids : OfferSettles(id)
<1> USE DEF journal, ledger, IntentState
<1>1. UNCHANGED vars => Goal
  BY DEF vars
<1>2. Submission => Goal
  BY DEF Submission, BeginCycle, BeginSubmit, EndCycle
<1>3. Expiry => Goal
  <2>1. ASSUME NEW id \in Ids, ExpireOne(id) PROVE Goal
    BY <2>1 DEF ExpireOne, Ends
  <2> QED BY <2>1 DEF Expiry, BeginExpire, EndExpire
<1>4. Observation => Goal
  <2>1. ASSUME NEW id \in Ids, OfferCancelsIoc(id) PROVE Goal
    BY <2>1 DEF OfferCancelsIoc, Ends
  <2> QED BY <2>1 DEF Observation, OnQuote, OfferRests, OfferFails
<1>5. Operator => Goal
  <2>1. ASSUME NEW c \in cancels, CompleteCancel(c) PROVE Goal
    <3>1. c.id \in Ids /\ c.from \in IntentState
      BY DEF TypeOK
    <3> QED BY <2>1, <3>1 DEF CompleteCancel, Ends
  <2> QED BY <2>1 DEF Operator, RequestCancel
<1>6. Process => Goal
  <2>1. ASSUME NEW id \in Ids, Recover(id) PROVE Goal
    BY <2>1 DEF Recover, Ends
  <2> QED BY <2>1 DEF Process, StartUp, Recovered, Crash, Tick
<1> QED BY <1>1, <1>2, <1>3, <1>4, <1>5, <1>6 DEF Next

\* A compare-and-swap changes the state of its own row, which was not terminal,
\* and nothing else in the journal.
LEMMA CasEffect ==
  ASSUME TypeOK, NEW id \in Ids, NEW from, NEW to, Cas(id, from, to)
  PROVE  /\ istate[id] = from /\ from \notin Terminal /\ from # Absent /\ to # Absent
         /\ istate'[id] = to
         /\ \A i \in Ids \ {id} : istate'[i] = istate[i]
         /\ order' = order
BY EdgesWithinStates DEF Cas, TypeOK

LEMMA SubmitEffect ==
  ASSUME TypeOK, NEW did, NEW d, NEW id \in Ids, SubmitOne(did, d, id)
  PROVE  /\ istate[id] = Absent /\ istate'[id] \in {"rejected", "acked"}
         /\ order'[id].decision = did /\ order'[id].createdAt = now
         /\ \A i \in Ids \ {id} : istate'[i] = istate[i] /\ order'[i] = order[i]
         /\ fills' = fills
BY DEF SubmitOne, TypeOK, ledger

\* A settlement adds one fill, of its own intent.
LEMMA SettleEffect ==
  ASSUME NEW id \in Ids, OfferSettles(id)
  PROVE  /\ Cas(id, "acked", "filled") /\ IsObservation(id)
         /\ \E f : /\ fills' = fills \cup {f} /\ f.intent = id /\ f.qty = order[id].qty
                   /\ f.ts = offer.now /\ f.obs = offer.ts /\ f.price \in FillPrices(id)
<1>1. PICK price \in FillPrices(id) : ApplyFill(id, price)
  BY DEF OfferSettles
<1> DEFINE f == [intent |-> id, price |-> price, qty |-> order[id].qty, fee |-> Fee(order[id], price),
                 ts |-> offer.now, pnl |-> RealizedPnL(order[id], price), obs |-> offer.ts]
<1>2. fills' = fills \cup {f}
  BY <1>1 DEF ApplyFill
<1>3. f.intent = id /\ f.qty = order[id].qty /\ f.ts = offer.now /\ f.obs = offer.ts /\ f.price = price
  OBVIOUS
<1> HIDE DEF f
<1> QED BY <1>2, <1>3 DEF OfferSettles

LEMMA FillsMatchStep == TypeOK /\ FillsMatchIntents /\ [Next]_vars => FillsMatchIntents'
<1> SUFFICES ASSUME TypeOK, FillsMatchIntents, [Next]_vars PROVE FillsMatchIntents'
  OBVIOUS
<1>0. \A f \in fills : f.intent \in Ids /\ istate[f.intent] = "filled"
  BY DEF TypeOK, Fill, FillsMatchIntents
<1>1. CASE UNCHANGED <<journal, fills>>
  BY <1>1 DEF FillsMatchIntents, journal
<1>2. ASSUME NEW did \in DecisionIds, NEW d \in Decisions, NEW id \in Ids, SubmitOne(did, d, id)
      PROVE  FillsMatchIntents'
  <2>1. \A f \in fills : f.intent # id
    BY <1>0, <1>2, SubmitEffect DEF Absent
  <2> QED BY <1>0, <1>2, <2>1, SubmitEffect DEF FillsMatchIntents
<1>3. ASSUME NEW id \in Ids, Ends(id) PROVE FillsMatchIntents'
  <2>1. PICK from \in IntentState, to \in {"rejected", "canceled"} : Cas(id, from, to)
    BY <1>3 DEF Ends
  <2>2. \A f \in fills : f.intent # id
    BY <1>0, <2>1, CasEffect DEF Terminal
  <2> QED BY <1>0, <1>3, <2>1, <2>2, CasEffect DEF FillsMatchIntents, Ends
<1>4. ASSUME NEW id \in Ids, OfferSettles(id) PROVE FillsMatchIntents'
  <2>1. PICK f : fills' = fills \cup {f} /\ f.intent = id /\ f.qty = order[id].qty
    BY <1>4, SettleEffect
  <2>2. Cas(id, "acked", "filled")
    BY <1>4, SettleEffect
  <2>3. \A g \in fills : g.intent # id
    BY <1>0, <2>2, CasEffect
  <2> QED BY <1>0, <2>1, <2>2, <2>3, CasEffect DEF FillsMatchIntents
<1> QED BY <1>1, <1>2, <1>3, <1>4, JournalStep

\* The fills table and the journal agree: an intent is filled exactly when it has
\* its one fill, for its whole quantity, however settlements, cancels, expiries
\* and crashes interleave.
THEOREM FillsMatch == Spec => []FillsMatchIntents
<1>1. Init => FillsMatchIntents
  BY JournalAssumption DEF Init, FillsMatchIntents, Absent
<1> QED BY <1>1, TypeInit, TypeStep, FillsMatchStep, PTL DEF Spec

LEMMA OneIntentStep == TypeOK /\ OneIntentPerDecision /\ [Next]_vars => OneIntentPerDecision'
<1> SUFFICES ASSUME TypeOK, OneIntentPerDecision, [Next]_vars PROVE OneIntentPerDecision'
  OBVIOUS
<1>1. CASE UNCHANGED <<journal, fills>>
  BY <1>1 DEF OneIntentPerDecision, Journaled, journal
<1>2. ASSUME NEW did \in DecisionIds, NEW d \in Decisions, NEW id \in Ids, SubmitOne(did, d, id)
      PROVE  OneIntentPerDecision'
  <2>1. \A i \in Journaled : order[i].decision # did
    BY <1>2 DEF SubmitOne, HasIntent
  <2>2. Journaled' \subseteq Journaled \cup {id}
    BY <1>2, SubmitEffect DEF Journaled
  <2>3. \A i \in Journaled : i # id
    BY <1>2, SubmitEffect DEF Journaled
  <2> QED BY <1>2, <2>1, <2>2, <2>3, SubmitEffect DEF OneIntentPerDecision, Journaled
<1>3. ASSUME NEW id \in Ids, NEW from, NEW to, Cas(id, from, to) PROVE OneIntentPerDecision'
  <2>1. Journaled' = Journaled /\ order' = order
    BY <1>3, CasEffect DEF Journaled
  <2> QED BY <2>1 DEF OneIntentPerDecision
<1> QED BY <1>1, <1>2, <1>3, JournalStep DEF Ends, OfferSettles

\* Submit is idempotent per decision: retried batches, restarts and remnants of
\* an older robot never lead to a second order for the same decision.
THEOREM OneIntent == Spec => []OneIntentPerDecision
<1>1. Init => OneIntentPerDecision
  BY JournalAssumption DEF Init, OneIntentPerDecision, Journaled
<1> QED BY <1>1, TypeInit, TypeStep, OneIntentStep, PTL DEF Spec

LEMMA OutcomeStep == TypeOK /\ [Next]_vars => OutcomesKept
<1> SUFFICES ASSUME TypeOK, [Next]_vars PROVE OutcomesKept
  OBVIOUS
<1>1. CASE UNCHANGED <<journal, fills>>
  BY <1>1 DEF OutcomesKept, journal
<1>2. ASSUME NEW did \in DecisionIds, NEW d \in Decisions, NEW id \in Ids, SubmitOne(did, d, id)
      PROVE  OutcomesKept
  BY <1>2, SubmitEffect DEF OutcomesKept, Journaled
<1>3. ASSUME NEW id \in Ids, NEW from, NEW to, Cas(id, from, to) PROVE OutcomesKept
  BY <1>3, CasEffect DEF OutcomesKept, Journaled
<1> QED BY <1>1, <1>2, <1>3, JournalStep DEF Ends, OfferSettles

\* Whoever races for an order, its outcome is final and its row immutable.
THEOREM OutcomesFinal == Spec => OutcomesAreFinal
<1> QED BY OutcomeStep, TypeCorrect, PTL DEF Spec, OutcomesAreFinal

-----------------------------------------------------------------------------
(* Expiry *)

\* While ExpireDay runs, every day order still resting is on its list: nothing
\* can be submitted meanwhile, because one goroutine makes both calls.
ExpiryCovers ==
  sched.call = "expire" => DayOrders \subseteq sched.todo

LEMMA SchedStep ==
  ASSUME [Next]_vars
  PROVE  \/ UNCHANGED sched
         \/ sched.call # "expire" /\ sched'.call # "expire"
         \/ BeginExpire \/ (\E id \in Ids : ExpireOne(id)) \/ EndExpire \/ Crash
<1>1. Submission => UNCHANGED sched \/ (sched.call # "expire" /\ sched'.call # "expire")
  <2>1. ASSUME NEW s \in Sessions, BeginCycle(s) PROVE sched.call # "expire" /\ sched'.call # "expire"
    BY <2>1 DEF BeginCycle, IdleSched
  <2>2. ASSUME NEW p \in StatusInputs, BeginSubmit(p) PROVE sched.call # "expire" /\ sched'.call # "expire"
    BY <2>2 DEF BeginSubmit, IdleSched
  <2>3. EndCycle => sched.call # "expire" /\ sched'.call # "expire"
    BY DEF EndCycle, IdleSched
  <2> QED BY <2>1, <2>2, <2>3 DEF Submission, SubmitOne
<1>2. Observation \/ Operator => UNCHANGED sched
  BY DEF Observation, OnQuote, OfferRests, OfferCancelsIoc, OfferSettles, OfferFails,
         Operator, RequestCancel, CompleteCancel
<1>3. Process => UNCHANGED sched \/ Crash
  BY DEF Process, StartUp, Recover, Recovered, Tick
<1> QED BY <1>1, <1>2, <1>3 DEF Next, Expiry, vars

LEMMA ExpiryCoversStep == TypeOK /\ ExpiryCovers /\ [Next]_vars => ExpiryCovers'
<1> SUFFICES ASSUME TypeOK, ExpiryCovers, [Next]_vars, sched'.call = "expire"
             PROVE  DayOrders' \subseteq sched'.todo
  BY DEF ExpiryCovers
<1>1. CASE BeginExpire
  BY <1>1 DEF BeginExpire, DayOrders, IdleSched, journal
<1>2. ASSUME NEW id \in Ids, ExpireOne(id)
      PROVE  DayOrders' \subseteq sched'.todo
  <2>1. sched.call = "expire" /\ sched'.todo = sched.todo \ {id}
    BY <1>2 DEF ExpireOne, TypeOK
  <2>2. istate'[id] # "acked" /\ order' = order /\ \A i \in Ids \ {id} : istate'[i] = istate[i]
    BY <1>2, CasEffect DEF ExpireOne, journal
  <2> QED BY <2>1, <2>2 DEF ExpiryCovers, DayOrders
<1>3. CASE UNCHANGED sched
  <2>1. DayOrders' \subseteq DayOrders
    <3>1. CASE UNCHANGED <<journal, fills>>
      BY <3>1 DEF DayOrders, journal
    <3>2. ASSUME NEW did \in DecisionIds, NEW d \in Decisions, NEW id \in Ids, SubmitOne(did, d, id)
          PROVE  FALSE
      BY <1>3, <3>2 DEF SubmitOne
    <3>3. ASSUME NEW id \in Ids, NEW from, NEW to, to # "acked", Cas(id, from, to) PROVE DayOrders' \subseteq DayOrders
      BY <3>3, CasEffect DEF DayOrders
    <3> QED BY <3>1, <3>2, <3>3, JournalStep DEF Ends, OfferSettles
  <2> QED BY <1>3, <2>1 DEF ExpiryCovers
<1>4. CASE EndExpire \/ Crash
  BY <1>4 DEF EndExpire, Crash, IdleSched
<1> QED BY <1>1, <1>2, <1>3, <1>4, SchedStep

LEMMA ExpiryReturnsCleanStep == TypeOK /\ ExpiryCovers /\ [Next]_vars => ExpiryReturnsClean
<1> SUFFICES ASSUME TypeOK, ExpiryCovers, [Next]_vars, sched.call = "expire", sched' = IdleSched, proc' = "up"
             PROVE  \A id \in Ids : ~(istate'[id] = "acked" /\ order'[id].tif = "day")
  BY DEF ExpiryReturnsClean
<1>1. EndExpire
  <2>1. sched # sched'
    BY DEF IdleSched
  <2>2. ~BeginExpire
    BY DEF BeginExpire, IdleSched
  <2>3. ASSUME NEW id \in Ids, ExpireOne(id) PROVE FALSE
    BY <2>3 DEF ExpireOne, IdleSched, TypeOK
  <2>4. ~Crash
    BY DEF Crash
  <2> QED BY <2>1, <2>2, <2>3, <2>4, SchedStep
<1> QED BY <1>1 DEF EndExpire, ExpiryCovers, DayOrders, journal

\* When ExpireDay returns, no day order is resting, although fills and cancels
\* run between its read and its updates.
THEOREM ExpiryComplete == Spec => ExpiryIsComplete
<1>1. Init => ExpiryCovers
  BY DEF Init, ExpiryCovers, IdleSched
<1>2. Spec => []ExpiryCovers
  BY <1>1, TypeInit, TypeStep, ExpiryCoversStep, PTL DEF Spec
<1> QED BY <1>2, TypeCorrect, ExpiryReturnsCleanStep, PTL DEF Spec, ExpiryIsComplete

-----------------------------------------------------------------------------
(* The cash floor *)

LEMMA LedgerStep ==
  ASSUME [Next]_vars
  PROVE  UNCHANGED ledger \/ StartUp \/ \E id \in Ids : OfferSettles(id)
<1>1. Submission \/ Expiry \/ Operator => UNCHANGED ledger
  BY DEF Submission, BeginCycle, BeginSubmit, SubmitOne, EndCycle, Expiry, BeginExpire, ExpireOne,
         EndExpire, Operator, RequestCancel, CompleteCancel
<1>2. Observation => UNCHANGED ledger \/ \E id \in Ids : OfferSettles(id)
  BY DEF Observation, OnQuote, OfferRests, OfferCancelsIoc, OfferFails
<1>3. Process => UNCHANGED ledger \/ StartUp
  BY DEF Process, Recover, Recovered, Crash, Tick
<1> QED BY <1>1, <1>2, <1>3 DEF Next, vars

\* Start-up seeds the ledger before anything can be offered or filled.
SeededFirst == proc # "down" \/ offer.todo # {} \/ fills # {} => seeded

LEMMA OfferStep ==
  ASSUME TypeOK, [Next]_vars
  PROVE  \/ UNCHANGED offer
         \/ \E uid \in Instruments, q \in Quotes, ts \in 0..MaxTime : OnQuote(uid, q, ts)
         \/ offer.todo # {} /\ offer' = [offer EXCEPT !.todo = offer'.todo]
         \/ offer' = NoOffer
<1>1. Submission \/ Expiry \/ Operator => UNCHANGED offer
  BY DEF Submission, BeginCycle, BeginSubmit, SubmitOne, EndCycle, Expiry, BeginExpire, ExpireOne,
         EndExpire, Operator, RequestCancel, CompleteCancel
<1>2. ASSUME NEW id \in Ids, IsOldest(id, offer.todo), offer' = NextOffer(id)
      PROVE  offer' = NoOffer \/ (offer.todo # {} /\ offer' = [offer EXCEPT !.todo = offer'.todo])
  BY <1>2 DEF NextOffer, IsOldest, TypeOK
<1>3. ASSUME NEW id \in Ids, OfferRests(id) \/ OfferCancelsIoc(id) \/ OfferSettles(id) \/ OfferFails(id)
      PROVE  offer' = NoOffer \/ (offer.todo # {} /\ offer' = [offer EXCEPT !.todo = offer'.todo])
  BY <1>2, <1>3 DEF OfferRests, OfferCancelsIoc, OfferSettles, OfferFails
<1>4. Process => UNCHANGED offer \/ offer' = NoOffer
  BY DEF Process, StartUp, Recover, Recovered, Crash, Tick
<1> QED BY <1>1, <1>3, <1>4 DEF Next, Observation, vars

LEMMA ProcStep ==
  ASSUME [Next]_vars
  PROVE  UNCHANGED proc \/ StartUp \/ Recovered \/ Crash
<1>1. Submission \/ Expiry \/ Operator => UNCHANGED proc
  BY DEF Submission, BeginCycle, BeginSubmit, SubmitOne, EndCycle, Expiry, BeginExpire, ExpireOne,
         EndExpire, Operator, RequestCancel, CompleteCancel, startup
<1>2. Observation => UNCHANGED proc
  BY DEF Observation, OnQuote, OfferRests, OfferCancelsIoc, OfferSettles, OfferFails, startup
<1>3. Process => UNCHANGED proc \/ StartUp \/ Recovered \/ Crash
  BY DEF Process, Recover, Tick, startup
<1> QED BY <1>1, <1>2, <1>3 DEF Next, vars, startup

LEMMA SeededFirstStep == TypeOK /\ SeededFirst /\ [Next]_vars => SeededFirst'
<1> SUFFICES ASSUME TypeOK, SeededFirst, [Next]_vars PROVE SeededFirst'
  OBVIOUS
<1>1. CASE StartUp
  BY <1>1 DEF StartUp, SeededFirst
<1>2. CASE ~StartUp
  <2>1. seeded' = seeded
    BY <1>2, LedgerStep DEF ledger, OfferSettles, ApplyFill
  <2>2. proc' # "down" => proc # "down"
    BY <1>2, ProcStep DEF Recovered, Crash
  <2>3. offer'.todo # {} => proc # "down" \/ offer.todo # {}
    BY OfferStep DEF OnQuote, NoOffer
  <2>4. fills' # {} => fills # {} \/ offer.todo # {}
    BY <1>2, LedgerStep DEF ledger, OfferSettles, IsOldest
  <2> QED BY <2>1, <2>2, <2>3, <2>4 DEF SeededFirst
<1> QED BY <1>1, <1>2

LEMMA FloorStep == TypeOK /\ SeededFirst /\ FloorBreachHalts /\ [Next]_vars => FloorBreachHalts'
<1> SUFFICES ASSUME TypeOK, SeededFirst, FloorBreachHalts, [Next]_vars PROVE FloorBreachHalts'
  OBVIOUS
<1>1. CASE UNCHANGED ledger
  BY <1>1 DEF ledger, FloorBreachHalts
<1>2. CASE StartUp
  BY <1>2 DEF StartUp, Funded, SeededFirst, FloorBreachHalts
<1>3. ASSUME NEW id \in Ids, OfferSettles(id) PROVE FloorBreachHalts'
  BY <1>3 DEF OfferSettles, ApplyFill, BelowFloor, FloorBreachHalts
<1> QED BY <1>1, <1>2, <1>3, LedgerStep

\* Whatever sequence of fills takes the cash below its floor, the operational halt
\* is latched in the very transaction, and stays.
THEOREM FloorHalts == Spec => []FloorBreachHalts
<1>1. Init => SeededFirst /\ FloorBreachHalts
  BY DEF Init, SeededFirst, FloorBreachHalts, NoOffer
<1> QED BY <1>1, TypeInit, TypeStep, SeededFirstStep, FloorStep, PTL DEF Spec

-----------------------------------------------------------------------------
(* Recovery *)

Interrupted == {id \in Ids : istate[id] \in {"new", "submitted"}}

\* No intent is ever "unknown"; those of an interrupted submission are exactly
\* what Recover has still to visit, and there are none once it has finished.
RecoveryInv ==
  /\ \A id \in Ids : istate[id] # "unknown"
  /\ proc = "recovering" => Interrupted \subseteq toRecover
  /\ proc = "up" => Interrupted = {}

LEMMA RecoveryInvStep == TypeOK /\ RecoveryInv /\ [Next]_vars => RecoveryInv'
<1> SUFFICES ASSUME TypeOK, RecoveryInv, [Next]_vars PROVE RecoveryInv'
  OBVIOUS
<1>1. /\ \A id \in Ids : istate'[id] # "unknown"
      /\ Interrupted' \subseteq Interrupted
  <2> DEFINE Goal == (\A id \in Ids : istate'[id] # "unknown") /\ Interrupted' \subseteq Interrupted
  <2>1. CASE UNCHANGED <<journal, fills>>
    BY <2>1 DEF RecoveryInv, Interrupted, journal
  <2>2. ASSUME NEW did \in DecisionIds, NEW d \in Decisions, NEW id \in Ids, SubmitOne(did, d, id)
        PROVE  Goal
    BY <2>2, SubmitEffect DEF RecoveryInv, Interrupted
  <2>3. ASSUME NEW id \in Ids, NEW from, NEW to \in Terminal, Cas(id, from, to) PROVE Goal
    BY <2>3, CasEffect DEF RecoveryInv, Interrupted, Terminal
  <2> QED BY <2>1, <2>2, <2>3, JournalStep DEF Ends, OfferSettles, Terminal
<1>2. CASE StartUp
  BY <1>2 DEF StartUp, Incomplete, RecoveryInv, Interrupted, journal
<1>3. CASE Crash
  BY <1>1, <1>3 DEF Crash, RecoveryInv
<1>4. CASE Recovered
  BY <1>4 DEF Recovered, RecoveryInv, Interrupted, journal
<1>5. ASSUME NEW id \in Ids, Recover(id) PROVE RecoveryInv'
  <2>1. istate'[id] \in {"rejected", "canceled"} /\ toRecover' = toRecover \ {id} /\ proc' = proc
    BY <1>5, CasEffect DEF Recover
  <2> QED BY <1>1, <1>5, <2>1 DEF RecoveryInv, Interrupted, Recover
<1>6. CASE UNCHANGED startup
  BY <1>1, <1>6 DEF RecoveryInv, startup
<1>7. UNCHANGED startup \/ StartUp \/ Crash \/ Recovered \/ \E id \in Ids : Recover(id)
  <2>1. Submission \/ Expiry \/ Operator => UNCHANGED startup
    BY DEF Submission, BeginCycle, BeginSubmit, SubmitOne, EndCycle, Expiry, BeginExpire, ExpireOne,
           EndExpire, Operator, RequestCancel, CompleteCancel
  <2>2. Observation => UNCHANGED startup
    BY DEF Observation, OnQuote, OfferRests, OfferCancelsIoc, OfferSettles, OfferFails
  <2> QED BY <2>1, <2>2 DEF Next, Process, Tick, vars
<1> QED BY <1>2, <1>3, <1>4, <1>5, <1>6, <1>7

\* Recover strands nothing: once the robot is up, every journaled intent is
\* resting or has ended, whatever an older robot left behind.
THEOREM RecoveryComplete == Spec => []NoneStranded
<1>1. Init => RecoveryInv
  BY JournalAssumption DEF Init, RecoveryInv, Absent
<1>2. TypeOK /\ RecoveryInv => NoneStranded
  BY DEF TypeOK, RecoveryInv, NoneStranded, Journaled, Interrupted, IntentState, Terminal, Absent
<1> QED BY <1>1, <1>2, TypeInit, TypeStep, RecoveryInvStep, PTL DEF Spec

-----------------------------------------------------------------------------
(* Next-observation discipline *)

Windows == Sessions \cup {AllDay}

\* Every window in use is a trading day's or the open one, and an offer never
\* works with a clock ahead of the present.
GatesInv ==
  /\ session \in Windows /\ sched.window \in Windows /\ offer.session \in Windows
  /\ offer.now <= now

LEMMA ClockStep == TypeOK /\ [Next]_vars => now' \in Nat /\ now <= now'
<1> SUFFICES ASSUME TypeOK, [Next]_vars PROVE now' \in Nat /\ now <= now'
  OBVIOUS
<1>1. UNCHANGED now \/ now' = now + 1
  <2>1. Submission \/ Expiry \/ Operator => UNCHANGED now
    BY DEF Submission, BeginCycle, BeginSubmit, SubmitOne, EndCycle, Expiry, BeginExpire, ExpireOne,
           EndExpire, Operator, RequestCancel, CompleteCancel
  <2>2. Observation => UNCHANGED now
    BY DEF Observation, OnQuote, OfferRests, OfferCancelsIoc, OfferSettles, OfferFails
  <2>3. Process => UNCHANGED now \/ now' = now + 1
    BY DEF Process, StartUp, Recover, Recovered, Crash, Tick
  <2> QED BY <2>1, <2>2, <2>3 DEF Next, vars
<1> QED BY <1>1 DEF TypeOK

LEMMA WindowStep == TypeOK /\ GatesInv /\ [Next]_vars => session' \in Windows /\ sched'.window \in Windows
<1> SUFFICES ASSUME TypeOK, GatesInv, [Next]_vars PROVE session' \in Windows /\ sched'.window \in Windows
  OBVIOUS
<1> DEFINE Goal == session' \in Windows /\ sched'.window \in Windows
<1>1. ASSUME NEW s \in Sessions, BeginCycle(s) PROVE Goal
  BY <1>1 DEF BeginCycle, GatesInv, Windows, IdleSched, gates
<1>2. ASSUME NEW p \in StatusInputs, BeginSubmit(p) PROVE Goal
  BY <1>2 DEF BeginSubmit, GatesInv, Windows, IdleSched
<1>3. EndCycle \/ BeginExpire \/ EndExpire \/ Crash => Goal
  <2>1. EndCycle \/ EndExpire \/ Crash => sched'.window = AllDay
    BY DEF EndCycle, EndExpire, Crash, IdleSched
  <2>2. BeginExpire => sched'.window = AllDay
    BY DEF BeginExpire, IdleSched
  <2>3. EndCycle \/ BeginExpire \/ EndExpire \/ Crash => session' = session
    BY DEF EndCycle, BeginExpire, EndExpire, Crash, gates
  <2> QED BY <2>1, <2>2, <2>3 DEF GatesInv, Windows
<1>4. ASSUME NEW id \in Ids, ExpireOne(id) PROVE Goal
  BY <1>4 DEF ExpireOne, GatesInv, TypeOK, gates
<1>5. UNCHANGED <<session, sched>> => Goal
  BY DEF GatesInv
<1>6. Observation \/ Operator => UNCHANGED <<session, sched>>
  BY DEF Observation, OnQuote, OfferRests, OfferCancelsIoc, OfferSettles, OfferFails,
         Operator, RequestCancel, CompleteCancel, gates
<1>7. Submission => Goal
  BY <1>1, <1>2, <1>3, <1>5 DEF Submission, SubmitOne, gates
<1>8. Process => Goal
  BY <1>3, <1>5 DEF Process, StartUp, Recover, Recovered, Tick, gates
<1> QED BY <1>3, <1>4, <1>5, <1>6, <1>7, <1>8 DEF Next, Expiry, vars, gates

LEMMA GatesInvStep == TypeOK /\ GatesInv /\ [Next]_vars => GatesInv'
<1> SUFFICES ASSUME TypeOK, GatesInv, [Next]_vars
             PROVE  offer'.session \in Windows /\ offer'.now <= now'
  BY WindowStep DEF GatesInv
<1>0. now \in Nat /\ now' \in Nat /\ now <= now' /\ offer.now \in Nat
  BY ClockStep DEF TypeOK
<1>1. CASE UNCHANGED offer
  BY <1>0, <1>1 DEF GatesInv
<1>2. ASSUME NEW uid \in Instruments, NEW q \in Quotes, NEW ts \in 0..MaxTime, OnQuote(uid, q, ts)
      PROVE  offer'.session \in Windows /\ offer'.now <= now'
  BY <1>0, <1>2 DEF OnQuote, GatesInv
<1>3. CASE offer.todo # {} /\ offer' = [offer EXCEPT !.todo = offer'.todo]
  <2>1. offer'.session = offer.session /\ offer'.now = offer.now
    <3> DEFINE T == offer'.todo
    <3>1. offer' = [offer EXCEPT !.todo = T]
      BY <1>3
    <3> HIDE DEF T
    <3> QED BY <3>1 DEF TypeOK
  <2> QED BY <1>0, <2>1 DEF GatesInv
<1>4. CASE offer' = NoOffer
  BY <1>0, <1>4 DEF NoOffer, Windows
<1> QED BY <1>1, <1>2, <1>3, <1>4, OfferStep

Observed(f) ==
  LET o == order[f.intent] IN
    /\ o.createdAt < f.obs /\ f.obs <= f.ts /\ f.ts <= now
    /\ MaxQuoteAge > 0 => f.ts - f.obs <= MaxQuoteAge
    /\ \E s \in Windows : IsOpen(s, f.obs)
    /\ o.type = "limit" => IF o.side = "buy" THEN f.price <= o.limit ELSE f.price >= o.limit

LEMMA ObservedFills == FillsAreObservations <=> \A f \in fills : Observed(f)
BY DEF FillsAreObservations, Observed, Windows

\* The fill a settlement writes was priced on its order's next observation.
LEMMA SettleObserves ==
  ASSUME TypeOK, GatesInv, NEW id \in Ids, Cas(id, "acked", "filled"), IsObservation(id), UNCHANGED now,
         NEW f, f.intent = id, f.ts = offer.now, f.obs = offer.ts, f.price \in FillPrices(id)
  PROVE  Observed(f)'
<1> DEFINE o == order[id]
<1>1. o \in Order /\ order' = order
  BY DEF Cas, TypeOK, Absent
<1>2. ~IsStale /\ IsOpen(offer.session, offer.ts)
  BY DEF FillPrices
<1>3. f.price \in PriceFill(o, offer.quote, PriceTick[o.uid]) /\ PriceTick[o.uid] \in Nat \ {0}
  BY <1>1, TradingAssumption DEF FillPrices, Order
<1>4. offer.quote \in Quote
  BY DEF TypeOK, Quote
<1>5. o.type = "limit" => IF o.side = "buy" THEN f.price <= o.limit ELSE f.price >= o.limit
  BY <1>1, <1>3, <1>4, PriceFillBounds
<1>6. /\ o.createdAt < f.obs /\ f.obs <= f.ts /\ f.ts <= now
      /\ MaxQuoteAge > 0 => f.ts - f.obs <= MaxQuoteAge
  BY <1>2, TradingAssumption DEF IsObservation, IsStale, GatesInv, TypeOK
<1>7. \E s \in Windows : IsOpen(s, f.obs)
  BY <1>2 DEF GatesInv
<1> QED BY <1>1, <1>5, <1>6, <1>7 DEF Observed

LEMMA ObservedStep ==
  TypeOK /\ GatesInv /\ FillsMatchIntents /\ FillsAreObservations /\ [Next]_vars => FillsAreObservations'
<1> SUFFICES ASSUME TypeOK, GatesInv, FillsMatchIntents, FillsAreObservations, [Next]_vars,
                    NEW f \in fills'
             PROVE  Observed(f)'
  BY DEF FillsAreObservations, Observed, Windows
<1>1. CASE f \in fills
  <2>1. f.intent \in Journaled
    BY <1>1 DEF TypeOK, Fill, FillsMatchIntents, Journaled, Absent
  <2>2. order'[f.intent] = order[f.intent]
    BY <2>1, OutcomeStep DEF OutcomesKept
  <2>3. Observed(f) /\ f.ts \in Nat /\ now \in Nat
    BY <1>1, ObservedFills DEF TypeOK, Fill
  <2>4. f.ts <= now'
    BY <2>3, ClockStep DEF Observed
  <2> QED BY <2>2, <2>3, <2>4 DEF Observed
<1>2. CASE f \notin fills
  <2>1. PICK id \in Ids : OfferSettles(id)
    BY <1>2, JournalStep, SubmitEffect DEF Ends
  <2>2. /\ Cas(id, "acked", "filled") /\ IsObservation(id) /\ UNCHANGED now
        /\ f.intent = id /\ f.ts = offer.now /\ f.obs = offer.ts /\ f.price \in FillPrices(id)
    BY <1>2, <2>1, SettleEffect DEF OfferSettles
  <2> QED BY <2>2, SettleObserves
<1> QED BY <1>1, <1>2

\* No order fills on what was seen before it, in the future, on stale data, outside
\* every session window, or at a price worse than its limit.
THEOREM FillsObserve == Spec => []FillsAreObservations
<1>1. Init => GatesInv /\ FillsAreObservations
  BY DEF Init, GatesInv, FillsAreObservations, Windows, IdleSched, NoOffer
<1>2. Init => FillsMatchIntents
  BY JournalAssumption DEF Init, FillsMatchIntents, Absent
<1> QED BY <1>1, <1>2, TypeInit, TypeStep, GatesInvStep, FillsMatchStep, ObservedStep, PTL DEF Spec

-----------------------------------------------------------------------------
(* The books *)

\* The summands of the books as functions on the fills table, and their sums.
QtyOf == [f \in fills |-> SignedQty(f)]
CashBy == [f \in fills |-> CashOf(f)]
MovedBy == [f \in fills |-> CashOf(f) + f.fee]
PnLOf == [f \in fills |-> f.pnl]
BoughtBy == [f \in fills |-> f.qty]
BuysOf(uid) == {f \in FillsOf(uid) : order[f.intent].side = "buy"}

Held(uid) == Total(QtyOf, FillsOf(uid))
Moved(uid) == Total(MovedBy, FillsOf(uid))
Profit(uid) == Total(PnLOf, FillsOf(uid))
Bought(uid) == Total(BoughtBy, BuysOf(uid))
CashMoved == Total(CashBy, fills)

FillsOrdered == \A f \in fills : f \in Fill /\ order[f.intent] \in Order

LEMMA FillsHaveOrders == TypeOK /\ FillsMatchIntents => FillsOrdered
BY DEF TypeOK, FillsMatchIntents, FillsOrdered, Fill, Absent

\* What a fill of an order contributes is a whole number.
LEMMA SummandTypes ==
  ASSUME NEW f \in Fill, order[f.intent] \in Order
  PROVE  SignedQty(f) \in Int /\ CashOf(f) \in Int /\ CashOf(f) + f.fee \in Int /\ f.pnl \in Int /\ f.qty \in Int
<1> DEFINE o == order[f.intent]
<1>1. f.qty \in Nat \ {0} /\ f.price \in Int /\ f.fee \in Int /\ f.pnl \in Int /\ Lot[o.uid] \in Nat
  BY TradingAssumption DEF Fill, Order
<1>2. Notional(f.price, f.qty, Lot[o.uid]) \in Int
  BY <1>1, MoneyType
<1>3. CashOf(f) \in Int
  BY <1>1, <1>2 DEF CashOf, CashDelta
<1> QED BY <1>1, <1>3 DEF SignedQty

LEMMA SummandsAreInts ==
  ASSUME FillsOrdered, NEW S \in SUBSET fills
  PROVE  IntsOn(QtyOf, S) /\ IntsOn(CashBy, S) /\ IntsOn(MovedBy, S) /\ IntsOn(PnLOf, S) /\ IntsOn(BoughtBy, S)
<1>1. ASSUME NEW f \in S PROVE f \in fills /\ f \in Fill /\ order[f.intent] \in Order
  BY DEF FillsOrdered
<1>2. ASSUME NEW f \in S
      PROVE  SignedQty(f) \in Int /\ CashOf(f) \in Int /\ CashOf(f) + f.fee \in Int /\ f.pnl \in Int /\ f.qty \in Int
  BY <1>1, SummandTypes
<1> QED BY <1>1, <1>2 DEF IntsOn, QtyOf, CashBy, MovedBy, PnLOf, BoughtBy

LEMMA FinitePart ==
  ASSUME IsFiniteSet(fills), NEW uid
  PROVE  /\ IsFiniteSet(FillsOf(uid)) /\ FillsOf(uid) \in SUBSET fills
         /\ IsFiniteSet(BuysOf(uid)) /\ BuysOf(uid) \in SUBSET fills
<1>1. FillsOf(uid) \in SUBSET fills /\ BuysOf(uid) \in SUBSET fills
  BY DEF FillsOf, BuysOf
<1> QED BY <1>1, FS_Subset

\* The sums stand while the fills table does and the rows of its orders are kept.
LEMMA SumsStand ==
  ASSUME fills' = fills, \A f \in fills : order'[f.intent] = order[f.intent], NEW uid
  PROVE  /\ Held(uid)' = Held(uid) /\ Moved(uid)' = Moved(uid) /\ Profit(uid)' = Profit(uid)
         /\ Bought(uid)' = Bought(uid) /\ BuysOf(uid)' = BuysOf(uid) /\ CashMoved' = CashMoved
<1>1. /\ \A f \in fills : SignedQty(f)' = SignedQty(f) /\ CashOf(f)' = CashOf(f)
      /\ FillsOf(uid)' = FillsOf(uid)
  BY DEF SignedQty, CashOf, FillsOf
<1>2. BuysOf(uid)' = BuysOf(uid)
  BY <1>1 DEF BuysOf, FillsOf
<1>3. QtyOf' = QtyOf /\ CashBy' = CashBy /\ MovedBy' = MovedBy /\ PnLOf' = PnLOf /\ BoughtBy' = BoughtBy
  BY <1>1 DEF QtyOf, CashBy, MovedBy, PnLOf, BoughtBy
<1> QED BY <1>1, <1>2, <1>3 DEF Held, Moved, Profit, Bought, CashMoved

\* One more fill of order o adds what it contributes to the sums of its
\* instrument, and to no other's.
LEMMA SumsGrow ==
  ASSUME IsFiniteSet(fills), FillsOrdered, NEW f \in Fill, order[f.intent] \in Order,
         f \notin fills, fills' = fills \cup {f}, order' = order, NEW uid
  PROVE  /\ CashMoved' = CashMoved + CashOf(f)
         /\ order[f.intent].uid # uid =>
              /\ Held(uid)' = Held(uid) /\ Moved(uid)' = Moved(uid) /\ Profit(uid)' = Profit(uid)
              /\ Bought(uid)' = Bought(uid) /\ BuysOf(uid)' = BuysOf(uid)
         /\ order[f.intent].uid = uid =>
              /\ Held(uid)' = Held(uid) + SignedQty(f)
              /\ Moved(uid)' = Moved(uid) + (CashOf(f) + f.fee)
              /\ Profit(uid)' = Profit(uid) + f.pnl
              /\ IF order[f.intent].side = "buy"
                 THEN /\ Bought(uid)' = Bought(uid) + f.qty
                      /\ BuysOf(uid)' = BuysOf(uid) \cup {f} /\ f \notin BuysOf(uid)
                 ELSE Bought(uid)' = Bought(uid) /\ BuysOf(uid)' = BuysOf(uid)
<1>1. /\ \A g \in fills \cup {f} : /\ SignedQty(g)' = SignedQty(g) /\ CashOf(g)' = CashOf(g)
                                   /\ SignedQty(g) \in Int /\ CashOf(g) \in Int /\ CashOf(g) + g.fee \in Int
                                   /\ g.pnl \in Int /\ g.qty \in Int
  <2>1. ASSUME NEW g \in fills \cup {f} PROVE g \in Fill /\ order[g.intent] \in Order
    BY DEF FillsOrdered
  <2>2. ASSUME NEW g \in fills \cup {f} PROVE SignedQty(g)' = SignedQty(g) /\ CashOf(g)' = CashOf(g)
    BY DEF SignedQty, CashOf
  <2> QED BY <2>1, <2>2, SummandTypes
<1>2. \A g \in fills \cup {f} :
        /\ QtyOf'[g] = SignedQty(g) /\ CashBy'[g] = CashOf(g) /\ MovedBy'[g] = CashOf(g) + g.fee
        /\ PnLOf'[g] = g.pnl /\ BoughtBy'[g] = g.qty
  BY <1>1 DEF QtyOf, CashBy, MovedBy, PnLOf, BoughtBy
<1>3. \A g \in fills :
        /\ QtyOf[g] = SignedQty(g) /\ CashBy[g] = CashOf(g) /\ MovedBy[g] = CashOf(g) + g.fee
        /\ PnLOf[g] = g.pnl /\ BoughtBy[g] = g.qty
  BY DEF QtyOf, CashBy, MovedBy, PnLOf, BoughtBy
<1>4. ASSUME NEW S \in SUBSET fills, IsFiniteSet(S)
      PROVE  /\ Total(QtyOf', S) = Total(QtyOf, S) /\ Total(MovedBy', S) = Total(MovedBy, S)
             /\ Total(PnLOf', S) = Total(PnLOf, S) /\ Total(BoughtBy', S) = Total(BoughtBy, S)
             /\ Total(QtyOf', S \cup {f}) = Total(QtyOf, S) + SignedQty(f)
             /\ Total(CashBy', S \cup {f}) = Total(CashBy, S) + CashOf(f)
             /\ Total(MovedBy', S \cup {f}) = Total(MovedBy, S) + (CashOf(f) + f.fee)
             /\ Total(PnLOf', S \cup {f}) = Total(PnLOf, S) + f.pnl
             /\ Total(BoughtBy', S \cup {f}) = Total(BoughtBy, S) + f.qty
  <2>1. IntsOn(QtyOf, S) /\ IntsOn(CashBy, S) /\ IntsOn(MovedBy, S) /\ IntsOn(PnLOf, S) /\ IntsOn(BoughtBy, S)
    BY SummandsAreInts
  <2>2. f \notin S /\ \A g \in S : /\ QtyOf'[g] = QtyOf[g] /\ CashBy'[g] = CashBy[g] /\ MovedBy'[g] = MovedBy[g]
                                   /\ PnLOf'[g] = PnLOf[g] /\ BoughtBy'[g] = BoughtBy[g]
    BY <1>2, <1>3
  <2>3. /\ QtyOf'[f] = SignedQty(f) /\ CashBy'[f] = CashOf(f) /\ MovedBy'[f] = CashOf(f) + f.fee
        /\ PnLOf'[f] = f.pnl /\ BoughtBy'[f] = f.qty
    BY <1>2
  <2>4. /\ QtyOf'[f] \in Int /\ CashBy'[f] \in Int /\ MovedBy'[f] \in Int /\ PnLOf'[f] \in Int /\ BoughtBy'[f] \in Int
    BY <1>1, <2>3
  <2>5. /\ Total(QtyOf', S) = Total(QtyOf, S) /\ Total(MovedBy', S) = Total(MovedBy, S)
        /\ Total(PnLOf', S) = Total(PnLOf, S) /\ Total(BoughtBy', S) = Total(BoughtBy, S)
    BY <1>4, <2>1, <2>2, TotalsAgree
  <2> DEFINE T == S \cup {f}
  <2>6. T = S \cup {f} /\ IsFiniteSet(S)
    BY <1>4
  <2> HIDE DEF T
  <2>7. Total(QtyOf', T) = Total(QtyOf, S) + SignedQty(f)
    <3>1. IntsOn(QtyOf, S) /\ f \notin S /\ QtyOf'[f] \in Int /\ \A g \in S : QtyOf'[g] = QtyOf[g]
      BY <2>1, <2>2, <2>4
    <3>2. Total(QtyOf', T) = Total(QtyOf, S) + QtyOf'[f]
      BY <2>6, <3>1, TotalGrows
    <3> QED BY <2>3, <3>2
  <2>8. Total(CashBy', T) = Total(CashBy, S) + CashOf(f)
    <3>1. IntsOn(CashBy, S) /\ f \notin S /\ CashBy'[f] \in Int /\ \A g \in S : CashBy'[g] = CashBy[g]
      BY <2>1, <2>2, <2>4
    <3>2. Total(CashBy', T) = Total(CashBy, S) + CashBy'[f]
      BY <2>6, <3>1, TotalGrows
    <3> QED BY <2>3, <3>2
  <2>9. Total(MovedBy', T) = Total(MovedBy, S) + (CashOf(f) + f.fee)
    <3>1. IntsOn(MovedBy, S) /\ f \notin S /\ MovedBy'[f] \in Int /\ \A g \in S : MovedBy'[g] = MovedBy[g]
      BY <2>1, <2>2, <2>4
    <3>2. Total(MovedBy', T) = Total(MovedBy, S) + MovedBy'[f]
      BY <2>6, <3>1, TotalGrows
    <3> QED BY <2>3, <3>2
  <2>10. Total(PnLOf', T) = Total(PnLOf, S) + f.pnl
    <3>1. IntsOn(PnLOf, S) /\ f \notin S /\ PnLOf'[f] \in Int /\ \A g \in S : PnLOf'[g] = PnLOf[g]
      BY <2>1, <2>2, <2>4
    <3>2. Total(PnLOf', T) = Total(PnLOf, S) + PnLOf'[f]
      BY <2>6, <3>1, TotalGrows
    <3> QED BY <2>3, <3>2
  <2>11. Total(BoughtBy', T) = Total(BoughtBy, S) + f.qty
    <3>1. IntsOn(BoughtBy, S) /\ f \notin S /\ BoughtBy'[f] \in Int /\ \A g \in S : BoughtBy'[g] = BoughtBy[g]
      BY <2>1, <2>2, <2>4
    <3>2. Total(BoughtBy', T) = Total(BoughtBy, S) + BoughtBy'[f]
      BY <2>6, <3>1, TotalGrows
    <3> QED BY <2>3, <3>2
  <2> QED BY <2>5, <2>6, <2>7, <2>8, <2>9, <2>10, <2>11
<1>5. /\ FillsOf(uid)' = IF order[f.intent].uid = uid THEN FillsOf(uid) \cup {f} ELSE FillsOf(uid)
      /\ BuysOf(uid)' = IF order[f.intent].uid = uid /\ order[f.intent].side = "buy"
                        THEN BuysOf(uid) \cup {f} ELSE BuysOf(uid)
      /\ f \notin BuysOf(uid)
  BY DEF FillsOf, BuysOf
<1>6. /\ IsFiniteSet(FillsOf(uid)) /\ FillsOf(uid) \in SUBSET fills
      /\ IsFiniteSet(BuysOf(uid)) /\ BuysOf(uid) \in SUBSET fills
  BY FinitePart
<1> DEFINE own == FillsOf(uid)
           buys == BuysOf(uid)
<1>7. /\ Total(QtyOf', own) = Total(QtyOf, own) /\ Total(MovedBy', own) = Total(MovedBy, own)
      /\ Total(PnLOf', own) = Total(PnLOf, own)
      /\ Total(QtyOf', own \cup {f}) = Total(QtyOf, own) + SignedQty(f)
      /\ Total(MovedBy', own \cup {f}) = Total(MovedBy, own) + (CashOf(f) + f.fee)
      /\ Total(PnLOf', own \cup {f}) = Total(PnLOf, own) + f.pnl
  BY <1>4, <1>6
<1>8. Total(BoughtBy', buys) = Total(BoughtBy, buys) /\ Total(BoughtBy', buys \cup {f}) = Total(BoughtBy, buys) + f.qty
  BY <1>4, <1>6
<1>9. CashMoved' = CashMoved + CashOf(f)
  BY <1>4 DEF CashMoved
<1> QED BY <1>5, <1>7, <1>8, <1>9 DEF Held, Moved, Profit, Bought

\* The books in terms of the sums: what the fills moved, and nothing else.
BooksInv ==
  /\ IsFiniteSet(fills)
  /\ cash = (IF seeded THEN StartingCash ELSE 0) + CashMoved
  /\ \A u \in Instruments : pos[u].qty = Held(u)

\* A fill changes its own instrument's position by its signed quantity, and the
\* cash by what it moves.
LEMMA SettleBooks ==
  ASSUME TypeOK, FillsMatchIntents, NEW id \in Ids, OfferSettles(id), TypeOK'
  PROVE  \E f \in Fill :
           LET o == order[id] IN
           /\ f \notin fills /\ fills' = fills \cup {f} /\ f.intent = id /\ o \in Order /\ order' = order
           /\ cash' = cash + CashOf(f) /\ seeded' = seeded
           /\ f.qty = o.qty /\ f.pnl = RealizedPnL(o, f.price)
           /\ CanApply(o, f.price) /\ pos' = [pos EXCEPT ![o.uid] = PositionAfter(o, f.price)]
<1>1. PICK price \in FillPrices(id) : ApplyFill(id, price)
  BY DEF OfferSettles
<1> DEFINE o == order[id]
           f == [intent |-> id, price |-> price, qty |-> o.qty, fee |-> Fee(o, price),
                 ts |-> offer.now, pnl |-> RealizedPnL(o, price), obs |-> offer.ts]
<1>2. /\ fills' = fills \cup {f} /\ seeded' = seeded /\ CanApply(o, price)
      /\ cash' = cash + CashDelta(o.side, Notional(price, o.qty, Lot[o.uid]), Fee(o, price))
      /\ pos' = [pos EXCEPT ![o.uid] = PositionAfter(o, price)]
  BY <1>1 DEF ApplyFill
<1>3. f.intent = id /\ f.price = price /\ f.qty = o.qty /\ f.fee = Fee(o, price) /\ f.pnl = RealizedPnL(o, price)
  OBVIOUS
<1> HIDE DEF f
<1>4. istate[id] = "acked" /\ order' = order
  BY DEF OfferSettles, Cas
<1>5. f \notin fills
  BY <1>3, <1>4 DEF FillsMatchIntents
<1>6. o \in Order
  BY <1>4 DEF TypeOK, Absent
<1>7. f \in Fill
  BY <1>2 DEF TypeOK
<1>8. cash' = cash + CashOf(f)
  BY <1>2, <1>3 DEF CashOf
<1> QED BY <1>2, <1>3, <1>4, <1>5, <1>6, <1>7, <1>8

LEMMA BooksStep ==
  TypeOK /\ TypeOK' /\ FillsMatchIntents /\ SeededFirst /\ BooksInv /\ [Next]_vars => BooksInv'
<1> SUFFICES ASSUME TypeOK, TypeOK', FillsMatchIntents, SeededFirst, BooksInv, [Next]_vars PROVE BooksInv'
  OBVIOUS
<1>1. FillsOrdered
  BY FillsHaveOrders
<1>2. \A f \in fills : order'[f.intent] = order[f.intent]
  BY OutcomeStep DEF OutcomesKept, FillsMatchIntents, Journaled, Absent, TypeOK, Fill
<1>3. ASSUME fills' = fills
      PROVE  CashMoved' = CashMoved /\ \A u \in Instruments : Held(u)' = Held(u)
  BY <1>2, <1>3, SumsStand
<1>4. CASE UNCHANGED ledger
  BY <1>3, <1>4 DEF ledger, BooksInv
<1>5. CASE StartUp
  <2>1. fills' = fills /\ pos' = pos /\ seeded' = TRUE /\ cash' = Funded
    BY <1>5 DEF StartUp
  <2>2. cash' = StartingCash + CashMoved
    <3>1. CASE seeded
      BY <2>1, <3>1 DEF Funded, BooksInv
    <3>2. CASE ~seeded
      <4>1. fills = {}
        BY <3>2 DEF SeededFirst
      <4>2. CashMoved = 0
        BY <4>1, TotalOfNone DEF CashMoved
      <4> QED BY <2>1, <3>2, <4>2, TradingAssumption DEF Funded
    <3> QED BY <3>1, <3>2
  <2> QED BY <1>3, <2>1, <2>2 DEF BooksInv
<1>6. ASSUME NEW id \in Ids, OfferSettles(id) PROVE BooksInv'
  <2> DEFINE o == order[id]
  <2>1. PICK f \in Fill :
          /\ f \notin fills /\ fills' = fills \cup {f} /\ f.intent = id /\ o \in Order /\ order' = order
          /\ cash' = cash + CashOf(f) /\ seeded' = seeded
          /\ f.qty = o.qty /\ f.pnl = RealizedPnL(o, f.price)
          /\ CanApply(o, f.price) /\ pos' = [pos EXCEPT ![o.uid] = PositionAfter(o, f.price)]
    BY <1>6, SettleBooks
  <2>2. IsFiniteSet(fills')
    BY <2>1, FS_AddElement DEF BooksInv
  <2>3. CashMoved \in Int /\ CashOf(f) \in Int
    <3>1. IntsOn(CashBy, fills)
      BY <1>1, SummandsAreInts
    <3> QED BY <2>1, <3>1, TotalType, SummandTypes DEF CashMoved, BooksInv
  <2>4. CashMoved' = CashMoved + CashOf(f)
    BY <1>1, <2>1, SumsGrow DEF BooksInv
  <2>5. cash' = (IF seeded' THEN StartingCash ELSE 0) + CashMoved'
    BY <2>1, <2>3, <2>4, TradingAssumption DEF BooksInv
  <2>6. ASSUME NEW u \in Instruments PROVE pos'[u].qty = Held(u)'
    <3>1. /\ o.uid # u => Held(u)' = Held(u)
          /\ o.uid = u => Held(u)' = Held(u) + SignedQty(f)
      BY <1>1, <2>1, SumsGrow DEF BooksInv
    <3>2. CASE o.uid # u
      BY <2>1, <3>1, <3>2 DEF TypeOK, BooksInv
    <3>3. CASE o.uid = u
      <4>1. pos'[u].qty = PositionAfter(o, f.price).qty
        BY <2>1, <3>3 DEF TypeOK
      <4>2. o.qty \in Nat /\ o.side \in {"buy", "sell"} /\ pos[u].qty \in Nat
        BY <2>1 DEF TypeOK, Order
      <4>3. PositionAfter(o, f.price).qty = pos[u].qty + SignedQty(f)
        BY <2>1, <3>3, <4>2 DEF PositionAfter, SignedQty
      <4> QED BY <3>1, <3>3, <4>1, <4>3 DEF BooksInv
    <3> QED BY <3>2, <3>3
  <2> QED BY <2>2, <2>5, <2>6 DEF BooksInv
<1> QED BY <1>4, <1>5, <1>6, LedgerStep

\* The sums as the invariants of the specification write them.
LEMMA HeldIsSum ==
  ASSUME IsFiniteSet(fills), FillsOrdered, NEW S \in SUBSET fills, IsFiniteSet(S)
  PROVE  MapThenSumSet(SignedQty, S) = Total(QtyOf, S)
<1> DEFINE J(it) == it = [s \in SUBSET S |-> IF s = {} THEN 0
                                             ELSE SignedQty(CHOOSE x \in s : TRUE) + it[s \ {CHOOSE x \in s : TRUE}]]
<1>1. MapThenSumSet(SignedQty, S) = (CHOOSE it : J(it))[S]
  BY Zenon DEF MapThenSumSet, MapThenFoldSet
<1>2. \A s \in SUBSET S : s # {} => QtyOf[OneOf(s)] = SignedQty(CHOOSE x \in s : TRUE)
  BY DEF OneOf, QtyOf
<1>3. \A it : J(it) <=> IsSum(it, QtyOf, S)
  BY <1>2 DEF IsSum, OneOf
<1> HIDE DEF J
<1>4. IntsOn(QtyOf, S)
  BY SummandsAreInts
<1>5. J(CHOOSE it : J(it))
  BY <1>3, <1>4, SumExists
<1> QED BY <1>1, <1>3, <1>4, <1>5, SumIsTotal

LEMMA CashIsSum ==
  ASSUME IsFiniteSet(fills), FillsOrdered
  PROVE  MapThenSumSet(CashOf, fills) = CashMoved
<1> DEFINE J(it) == it = [s \in SUBSET fills |-> IF s = {} THEN 0
                                                 ELSE CashOf(CHOOSE x \in s : TRUE) + it[s \ {CHOOSE x \in s : TRUE}]]
<1>1. MapThenSumSet(CashOf, fills) = (CHOOSE it : J(it))[fills]
  BY Zenon DEF MapThenSumSet, MapThenFoldSet
<1>2. \A s \in SUBSET fills : s # {} => CashBy[OneOf(s)] = CashOf(CHOOSE x \in s : TRUE)
  BY DEF OneOf, CashBy
<1>3. \A it : J(it) <=> IsSum(it, CashBy, fills)
  BY <1>2 DEF IsSum, OneOf
<1> HIDE DEF J
<1>4. IntsOn(CashBy, fills)
  BY SummandsAreInts
<1>5. J(CHOOSE it : J(it))
  BY <1>3, <1>4, SumExists
<1> QED BY <1>1, <1>3, <1>4, <1>5, SumIsTotal DEF CashMoved

LEMMA BooksInit == Init => BooksInv
<1> SUFFICES ASSUME Init PROVE BooksInv
  OBVIOUS
<1>1. fills = {} /\ cash = 0 /\ seeded = FALSE /\ \A u \in Instruments : pos[u].qty = 0
  BY DEF Init
<1>2. IsFiniteSet(fills) /\ CashMoved = 0
  BY <1>1, FS_EmptySet, TotalOfNone DEF CashMoved
<1>3. \A u \in Instruments : Held(u) = 0
  <2>1. \A u \in Instruments : FillsOf(u) = {}
    BY <1>1 DEF FillsOf
  <2> QED BY <2>1, TotalOfNone DEF Held
<1> QED BY <1>1, <1>2, <1>3 DEF BooksInv

LEMMA BooksInvBalance == TypeOK /\ FillsMatchIntents /\ BooksInv => BooksBalance
<1> SUFFICES ASSUME TypeOK, FillsMatchIntents, BooksInv PROVE BooksBalance
  OBVIOUS
<1>1. IsFiniteSet(fills) /\ FillsOrdered
  BY FillsHaveOrders DEF BooksInv
<1>2. ASSUME NEW u \in Instruments
      PROVE  pos[u].qty = MapThenSumSet(SignedQty, FillsOf(u)) /\ pos[u].qty >= 0
  <2>1. MapThenSumSet(SignedQty, FillsOf(u)) = Held(u)
    BY <1>1, FinitePart, HeldIsSum DEF Held
  <2> QED BY <2>1 DEF BooksInv, TypeOK
<1> QED BY <1>1, <1>2, CashIsSum DEF BooksBalance, BooksInv

\* Whatever settles, is canceled, expires, crashes or restarts, each position is
\* the sum of its fills and never short, and the cash is the one deposit plus
\* what the fills moved.
THEOREM BooksAlwaysBalance == Spec => []BooksBalance
<1>1. Init => SeededFirst
  BY DEF Init, SeededFirst, NoOffer
<1>2. Init => FillsMatchIntents
  BY JournalAssumption DEF Init, FillsMatchIntents, Absent
<1> QED BY <1>1, <1>2, BooksInit, TypeInit, TypeStep, SeededFirstStep, FillsMatchStep, BooksStep,
           BooksInvBalance, PTL DEF Spec

-----------------------------------------------------------------------------
(* Realized profit *)

\* An average is off its exact value by at most half a unit per lot it is taken over.
LEMMA NearestQuotient ==
  ASSUME NEW n \in Int, NEW d \in Nat \ {0}
  PROVE  LET a == MulRat(n, 1, d, "halfAwayFromZero")
         IN  a \in Int /\ 2 * AbsOf(n - a * d) <= d
<1> DEFINE t == TruncDiv(n, d)
           r == TruncRem(n, d)
           b == RoundQuotient(r, d, "halfAwayFromZero")
<1>1. t \in Int /\ r \in Int /\ n = t * d + r /\ t * d \in Int
  <2>1. t \in Int /\ r \in Int
    BY TruncDivType
  <2>2. n = d * t + r
    BY <2>1 DEF TruncRem
  <2> HIDE DEF t, r
  <2> QED BY <2>1, <2>2
<1>2. /\ n >= 0 => 0 <= r /\ r < d
      /\ n < 0 => -d < r /\ r <= 0
  BY DEF TruncDiv, TruncRem
<1>3. MulRat(n, 1, d, "halfAwayFromZero") = t + b
  <2>1. n * 1 = n /\ ~(d < 0) /\ AbsOf(d) = d
    BY DEF AbsOf
  <2> QED BY <2>1 DEF MulRat
<1> HIDE DEF t, r
<1>4. b = IF r # 0 /\ 2 * AbsOf(r) >= d THEN SignOf(r) ELSE 0
  BY DEF RoundQuotient, RoundsAway
<1> HIDE DEF b
<1>5. CASE r # 0 /\ 2 * AbsOf(r) >= d /\ r > 0
  <2>1. b = 1 /\ (t + b) * d = t * d + d
    BY <1>1, <1>4, <1>5 DEF SignOf
  <2> QED BY <1>1, <1>2, <1>3, <1>5, <2>1 DEF AbsOf
<1>6. CASE r # 0 /\ 2 * AbsOf(r) >= d /\ r < 0
  <2>1. b = -1 /\ (t + b) * d = t * d - d
    BY <1>1, <1>4, <1>6 DEF SignOf
  <2> QED BY <1>1, <1>2, <1>3, <1>6, <2>1 DEF AbsOf
<1>7. CASE ~(r # 0 /\ 2 * AbsOf(r) >= d)
  <2>1. b = 0 /\ (t + b) * d = t * d
    BY <1>1, <1>4, <1>7
  <2> QED BY <1>1, <1>2, <1>3, <1>7, <2>1 DEF AbsOf
<1> QED BY <1>1, <1>5, <1>6, <1>7

\* The realized profit of u's fills, less what they moved and what the open lots
\* cost at their average price.
Gap(u) == Profit(u) - Moved(u) - Notional(pos[u].avg, pos[u].qty, Lot[u])

\* No more lots are held than were bought, and the gap is what the buys rounded.
PnLInv ==
  \A u \in Instruments :
    /\ pos[u].qty <= Bought(u)
    /\ 2 * AbsOf(Gap(u)) <= Cardinality(BuysOf(u)) * Bought(u) * Lot[u]

LEMMA SumTypes ==
  ASSUME IsFiniteSet(fills), FillsOrdered, NEW u
  PROVE  Held(u) \in Int /\ Moved(u) \in Int /\ Profit(u) \in Int /\ Bought(u) \in Int
         /\ Cardinality(BuysOf(u)) \in Nat
<1>1. /\ IsFiniteSet(FillsOf(u)) /\ FillsOf(u) \in SUBSET fills
      /\ IsFiniteSet(BuysOf(u)) /\ BuysOf(u) \in SUBSET fills
  BY FinitePart
<1>2. IntsOn(QtyOf, FillsOf(u)) /\ IntsOn(MovedBy, FillsOf(u)) /\ IntsOn(PnLOf, FillsOf(u))
  BY <1>1, SummandsAreInts
<1>3. IntsOn(BoughtBy, BuysOf(u))
  BY <1>1, SummandsAreInts
<1>4. Held(u) \in Int
  BY <1>1, <1>2, TotalType DEF Held
<1>5. Moved(u) \in Int
  BY <1>1, <1>2, TotalType DEF Moved
<1>6. Profit(u) \in Int
  BY <1>1, <1>2, TotalType DEF Profit
<1>7. Bought(u) \in Int
  BY <1>1, <1>3, TotalType DEF Bought
<1> QED BY <1>1, <1>4, <1>5, <1>6, <1>7, FS_CardinalityType

\* One buy of q lots at price p on top of h lots at average a: the gap moves by the
\* rounding of the new average, times the shares in a lot.
LEMMA BuyGap ==
  ASSUME NEW a \in Int, NEW h \in Nat, NEW p \in Int, NEW q \in Nat \ {0}, NEW l \in Nat,
         NEW gap \in Int, NEW b, b = RecomputeAvgPrice(a, h, p, q),
         NEW new, new = gap + Notional(p, q, l) + Notional(a, h, l) - Notional(b, h + q, l)
  PROVE  new \in Int /\ 2 * AbsOf(new) <= 2 * AbsOf(gap) + (h + q) * l
<1> DEFINE n == a * h + p * q
           d == h + q
           e == n - b * d
<1>1. n \in Int /\ d \in Nat \ {0}
  OBVIOUS
<1>2. b = MulRat(n, 1, d, "halfAwayFromZero")
  BY DEF RecomputeAvgPrice
<1> HIDE DEF n
<1>3. b \in Int /\ 2 * AbsOf(n - b * d) <= d
  BY <1>1, <1>2, NearestQuotient
<1>3a. new = gap + Notional(p, q, l) + Notional(a, h, l) - Notional(b, d, l)
  OBVIOUS
<1> HIDE DEF d
<1>4. e \in Int /\ 2 * AbsOf(e) <= d
  BY <1>1, <1>3
<1>5. new = gap + e * l
  <2>1. Notional(p, q, l) = p * q * l /\ Notional(a, h, l) = a * h * l /\ Notional(b, d, l) = b * d * l
    BY <1>1, <1>3 DEF Notional
  <2>2. a * h \in Int /\ p * q \in Int /\ b * d \in Int
    BY <1>1, <1>3
  <2>3. (a * h + p * q - b * d) * l = a * h * l + p * q * l - b * d * l
    BY <2>2
  <2>4. a * h * l \in Int /\ p * q * l \in Int /\ b * d * l \in Int
    BY <2>2
  <2> QED BY <1>3a, <2>1, <2>2, <2>3, <2>4 DEF n
<1> HIDE DEF e
<1>6. AbsOf(e * l) = AbsOf(e) * l
  BY <1>4 DEF AbsOf
<1>7. AbsOf(e) \in Nat /\ AbsOf(e) * l \in Nat /\ e * l \in Int
  BY <1>4 DEF AbsOf
<1>8. 2 * (AbsOf(e) * l) <= d * l
  <2>1. 2 * (AbsOf(e) * l) = (2 * AbsOf(e)) * l
    BY <1>7
  <2> DEFINE m == 2 * AbsOf(e)
  <2>2. m \in Nat /\ m <= d
    BY <1>4, <1>7
  <2> HIDE DEF m
  <2>3. m * l <= d * l
    BY <1>1, <2>2
  <2> QED BY <2>1, <2>3 DEF m
<1>9. AbsOf(new) <= AbsOf(gap) + AbsOf(e * l) /\ AbsOf(gap) \in Nat
  BY <1>5, <1>7 DEF AbsOf
<1>10. new \in Int /\ AbsOf(new) \in Nat
  BY <1>5, <1>7 DEF AbsOf
<1>11. d * l \in Nat
  BY <1>1
<1>12. 2 * AbsOf(new) <= 2 * AbsOf(gap) + d * l
  BY <1>6, <1>7, <1>8, <1>9, <1>10, <1>11
<1> QED BY <1>10, <1>12 DEF d

\* A bound of n buys of c lots leaves room for half a unit per share of one more
\* position of at most c + q lots.
LEMMA BoundGrows ==
  ASSUME NEW n \in Nat, NEW c \in Nat, NEW q \in Nat \ {0}, NEW l \in Nat, NEW d \in Nat, d <= c + q
  PROVE  n * c * l + d * l <= (n + 1) * (c + q) * l
<1> DEFINE b == c + q
<1>1. b \in Nat /\ c <= b /\ d <= b
  OBVIOUS
<1> HIDE DEF b
<1>2. n * c <= n * b /\ n * c \in Nat /\ n * b \in Nat
  BY <1>1
<1>3. (n + 1) * b = n * b + b
  BY <1>1
<1>4. n * c + d <= (n + 1) * b
  BY <1>1, <1>2, <1>3
<1> DEFINE x == n * c + d
           y == (n + 1) * b
<1>5. x \in Nat /\ y \in Nat /\ x <= y
  BY <1>1, <1>2, <1>3, <1>4
<1>6. n * c * l + d * l = x * l
  BY <1>2
<1> HIDE DEF x, y
<1>7. x * l <= y * l
  BY <1>5
<1> QED BY <1>6, <1>7 DEF y, b

LEMMA PnLStep ==
  TypeOK /\ TypeOK' /\ FillsMatchIntents /\ BooksInv /\ PnLInv /\ [Next]_vars => PnLInv'
<1> SUFFICES ASSUME TypeOK, TypeOK', FillsMatchIntents, BooksInv, PnLInv, [Next]_vars, NEW u \in Instruments
             PROVE  /\ pos'[u].qty <= Bought(u)'
                    /\ 2 * AbsOf(Gap(u)') <= Cardinality(BuysOf(u)') * Bought(u)' * Lot[u]
  BY DEF PnLInv
<1> DEFINE Goal == /\ pos'[u].qty <= Bought(u)'
                   /\ 2 * AbsOf(Gap(u)') <= Cardinality(BuysOf(u)') * Bought(u)' * Lot[u]
<1>1. FillsOrdered /\ IsFiniteSet(fills)
  BY FillsHaveOrders DEF BooksInv
<1>2. \A f \in fills : order'[f.intent] = order[f.intent]
  BY OutcomeStep DEF OutcomesKept, FillsMatchIntents, Journaled, Absent, TypeOK, Fill
<1>3. pos[u].qty <= Bought(u) /\ 2 * AbsOf(Gap(u)) <= Cardinality(BuysOf(u)) * Bought(u) * Lot[u]
  BY DEF PnLInv
<1>4. ASSUME Moved(u)' = Moved(u), Profit(u)' = Profit(u), Bought(u)' = Bought(u), BuysOf(u)' = BuysOf(u),
             pos'[u] = pos[u]
      PROVE  Goal
  BY <1>3, <1>4 DEF Gap
<1>5. CASE UNCHANGED ledger \/ StartUp
  <2>1. fills' = fills /\ pos' = pos
    BY <1>5 DEF ledger, StartUp
  <2> QED BY <1>2, <1>4, <2>1, SumsStand
<1>6. ASSUME NEW id \in Ids, OfferSettles(id) PROVE Goal
  <2> DEFINE o == order[id]
  <2>1. PICK f \in Fill :
          /\ f \notin fills /\ fills' = fills \cup {f} /\ f.intent = id /\ o \in Order /\ order' = order
          /\ cash' = cash + CashOf(f) /\ seeded' = seeded
          /\ f.qty = o.qty /\ f.pnl = RealizedPnL(o, f.price)
          /\ CanApply(o, f.price) /\ pos' = [pos EXCEPT ![o.uid] = PositionAfter(o, f.price)]
    BY <1>6, SettleBooks
  <2>2. CASE o.uid # u
    <3>1. pos'[u] = pos[u]
      BY <2>1, <2>2 DEF TypeOK
    <3> QED BY <1>1, <1>4, <2>1, <2>2, <3>1, SumsGrow
  <2>3. CASE o.uid = u
    <3> DEFINE a == pos[u].avg
               h == pos[u].qty
               p == f.price
               q == f.qty
               l == Lot[u]
               c == Bought(u)
               n == Cardinality(BuysOf(u))
    <3>1. /\ a \in Int /\ h \in Nat /\ p \in Nat /\ q \in Nat \ {0} /\ l \in Nat
          /\ o.side \in {"buy", "sell"}
      BY <2>1, TradingAssumption DEF TypeOK, Fill, Order
    <3>2. Moved(u) \in Int /\ Profit(u) \in Int /\ c \in Int /\ n \in Nat
      BY <1>1, SumTypes
    <3>3. Moved(u)' = Moved(u) + (CashOf(f) + f.fee) /\ Profit(u)' = Profit(u) + f.pnl
      BY <1>1, <2>1, <2>3, SumsGrow
    <3>4. pos'[u] = PositionAfter(o, p)
      BY <2>1, <2>3 DEF TypeOK
    <3> HIDE DEF a, h, p, q, l, c, n
    <3>4a. p \in Int
      BY <3>1
    <3>5. Notional(p, q, l) \in Int /\ Notional(a, h, l) \in Int /\ f.fee \in Int
      <4>1. Notional(p, q, l) \in Int
        BY <3>1, MoneyType
      <4>2. Notional(a, h, l) \in Int
        BY <3>1, MoneyType
      <4> QED BY <2>1, <4>1, <4>2 DEF Fill
    <3>6. Gap(u) \in Int /\ h <= c /\ c \in Nat /\ Gap(u) = Profit(u) - Moved(u) - Notional(a, h, l)
      <4>1. Gap(u) = Profit(u) - Moved(u) - Notional(a, h, l) /\ h <= c
        BY <1>3 DEF Gap, a, h, l, c
      <4> QED BY <3>1, <3>2, <3>5, <4>1
    <3>7. CASE o.side = "buy"
      <4> DEFINE b == RecomputeAvgPrice(a, h, p, q)
      <4>1. pos'[u].qty = h + q /\ pos'[u].avg = b
        BY <2>1, <2>3, <3>4, <3>7 DEF PositionAfter, a, h, p, q
      <4>2. CashOf(f) + f.fee = - Notional(p, q, l) /\ f.pnl = 0
        BY <2>1, <2>3, <3>5, <3>7 DEF CashOf, CashDelta, RealizedPnL, p, q, l
      <4>3. Bought(u)' = c + q /\ BuysOf(u)' = BuysOf(u) \cup {f} /\ f \notin BuysOf(u)
        BY <1>1, <2>1, <2>3, <3>7, SumsGrow DEF c, q
      <4>4. Cardinality(BuysOf(u)') = n + 1
        BY <1>1, <4>3, FinitePart, FS_AddElement DEF n
      <4> DEFINE new == Gap(u) + Notional(p, q, l) + Notional(a, h, l) - Notional(b, h + q, l)
      <4>4a. b = RecomputeAvgPrice(a, h, p, q) /\ new = Gap(u) + Notional(p, q, l) + Notional(a, h, l) - Notional(b, h + q, l)
        OBVIOUS
      <4> HIDE DEF b, new
      <4>5. new \in Int /\ 2 * AbsOf(new) <= 2 * AbsOf(Gap(u)) + (h + q) * l
        BY <3>1, <3>6, <3>4a, <4>4a, BuyGap
      <4>6. Gap(u)' = new
        <5>1. b \in Int
          BY <3>1, <3>4a, <4>4a, AvgPriceType
        <5>2. Notional(b, h + q, l) \in Int
          <6>1. h + q \in Nat
            BY <3>1
          <6> QED BY <3>1, <5>1, <6>1, MoneyType
        <5>3. Gap(u)' = Profit(u)' - Moved(u)' - Notional(b, h + q, l)
          BY <4>1 DEF Gap, l
        <5>4. Gap(u)' = Profit(u) - (Moved(u) - Notional(p, q, l)) - Notional(b, h + q, l)
          BY <3>2, <3>3, <3>5, <4>2, <5>3
        <5> QED BY <3>2, <3>5, <3>6, <4>4a, <5>2, <5>4
      <4>7. n * c * l + (h + q) * l <= (n + 1) * (c + q) * l
        <5>1. h + q \in Nat /\ h + q <= c + q
          BY <3>1, <3>6
        <5> QED BY <3>1, <3>2, <3>6, <5>1, BoundGrows
      <4>8. 2 * AbsOf(Gap(u)) <= n * c * l
        BY <1>3 DEF n, c, l
      <4>9. n * c * l \in Int /\ (h + q) * l \in Int /\ (n + 1) * (c + q) * l \in Int /\ AbsOf(Gap(u)) \in Int
            /\ AbsOf(new) \in Int
        BY <3>1, <3>2, <3>6, <4>5 DEF AbsOf
      <4>10. 2 * AbsOf(new) <= (n + 1) * (c + q) * l
        BY <4>5, <4>7, <4>8, <4>9
      <4>11. h + q <= c + q
        BY <3>1, <3>2, <3>6
      <4> QED BY <4>1, <4>3, <4>4, <4>6, <4>10, <4>11 DEF l
    <3>8. CASE o.side = "sell"
      <4>1. pos'[u].qty = h - q /\ pos'[u].avg = (IF h = q THEN 0 ELSE a) /\ q <= h
        BY <2>1, <2>3, <3>4, <3>8 DEF PositionAfter, CanApply, a, h, q
      <4>2. CashOf(f) + f.fee = Notional(p, q, l) /\ f.pnl = Notional(p - a, q, l)
        BY <2>1, <2>3, <3>5, <3>8 DEF CashOf, CashDelta, RealizedPnL, p, q, l, a
      <4>3. Bought(u)' = c /\ BuysOf(u)' = BuysOf(u)
        BY <1>1, <2>1, <2>3, <3>8, SumsGrow DEF c
      <4>4. /\ Notional(p - a, q, l) = Notional(p, q, l) - a * (q * l)
            /\ Notional(IF h = q THEN 0 ELSE a, h - q, l) = Notional(a, h, l) - a * (q * l)
            /\ a * (q * l) \in Int
        <5>1. q * l \in Int /\ h * l \in Int
          BY <3>1
        <5>2. (h - q) * l = h * l - q * l
          BY <3>1
        <5>3. (p - a) * (q * l) = p * (q * l) - a * (q * l) /\ a * (h * l - q * l) = a * (h * l) - a * (q * l)
          BY <3>1, <5>1
        <5>4. CASE h = q
          <6>1. Notional(a, h, l) = a * (q * l) /\ Notional(0, h - q, l) = 0 /\ a * (q * l) \in Int
            BY <3>1, <5>1, <5>4 DEF Notional
          <6> QED BY <5>3, <5>4, <6>1 DEF Notional
        <5>5. CASE h # q
          BY <3>1, <5>1, <5>2, <5>3, <5>5 DEF Notional
        <5> QED BY <5>4, <5>5
      <4>5. Gap(u)' = Profit(u)' - Moved(u)' - Notional(IF h = q THEN 0 ELSE a, h - q, l)
        BY <4>1 DEF Gap, l
      <4>6. Gap(u)' = Gap(u)
        BY <3>2, <3>3, <3>5, <3>6, <4>2, <4>4, <4>5
      <4>7. pos'[u].qty <= c
        BY <3>1, <3>2, <3>6, <4>1
      <4> QED BY <1>3, <4>3, <4>6, <4>7 DEF c
    <3> QED BY <3>1, <3>7, <3>8
  <2> QED BY <2>2, <2>3
<1> QED BY <1>5, <1>6, LedgerStep

\* The sums as the invariant of the specification writes them.
LEMMA MovedIsSum ==
  ASSUME IsFiniteSet(fills), FillsOrdered, NEW S \in SUBSET fills, IsFiniteSet(S)
  PROVE  MapThenSumSet(LAMBDA f : CashOf(f) + f.fee, S) = Total(MovedBy, S)
<1> DEFINE Op(f) == CashOf(f) + f.fee
           J(it) == it = [s \in SUBSET S |-> IF s = {} THEN 0
                                             ELSE Op(CHOOSE x \in s : TRUE) + it[s \ {CHOOSE x \in s : TRUE}]]
<1>1. MapThenSumSet(LAMBDA f : CashOf(f) + f.fee, S) = (CHOOSE it : J(it))[S]
  BY Zenon DEF MapThenSumSet, MapThenFoldSet
<1>2. \A s \in SUBSET S : s # {} => MovedBy[OneOf(s)] = Op(CHOOSE x \in s : TRUE)
  BY DEF OneOf, MovedBy
<1>3. \A it : J(it) <=> IsSum(it, MovedBy, S)
  BY <1>2 DEF IsSum, OneOf
<1> HIDE DEF J
<1>4. IntsOn(MovedBy, S)
  BY SummandsAreInts
<1>5. J(CHOOSE it : J(it))
  BY <1>3, <1>4, SumExists
<1> QED BY <1>1, <1>3, <1>4, <1>5, SumIsTotal

LEMMA ProfitIsSum ==
  ASSUME IsFiniteSet(fills), FillsOrdered, NEW S \in SUBSET fills, IsFiniteSet(S)
  PROVE  MapThenSumSet(LAMBDA f : f.pnl, S) = Total(PnLOf, S)
<1> DEFINE Op(f) == f.pnl
           J(it) == it = [s \in SUBSET S |-> IF s = {} THEN 0
                                             ELSE Op(CHOOSE x \in s : TRUE) + it[s \ {CHOOSE x \in s : TRUE}]]
<1>1. MapThenSumSet(LAMBDA f : f.pnl, S) = (CHOOSE it : J(it))[S]
  BY Zenon DEF MapThenSumSet, MapThenFoldSet
<1>2. \A s \in SUBSET S : s # {} => PnLOf[OneOf(s)] = Op(CHOOSE x \in s : TRUE)
  BY DEF OneOf, PnLOf
<1>3. \A it : J(it) <=> IsSum(it, PnLOf, S)
  BY <1>2 DEF IsSum, OneOf
<1> HIDE DEF J
<1>4. IntsOn(PnLOf, S)
  BY SummandsAreInts
<1>5. J(CHOOSE it : J(it))
  BY <1>3, <1>4, SumExists
<1> QED BY <1>1, <1>3, <1>4, <1>5, SumIsTotal

LEMMA BoughtIsSum ==
  ASSUME IsFiniteSet(fills), FillsOrdered, NEW S \in SUBSET fills, IsFiniteSet(S)
  PROVE  MapThenSumSet(LAMBDA f : f.qty, S) = Total(BoughtBy, S)
<1> DEFINE Op(f) == f.qty
           J(it) == it = [s \in SUBSET S |-> IF s = {} THEN 0
                                             ELSE Op(CHOOSE x \in s : TRUE) + it[s \ {CHOOSE x \in s : TRUE}]]
<1>1. MapThenSumSet(LAMBDA f : f.qty, S) = (CHOOSE it : J(it))[S]
  BY Zenon DEF MapThenSumSet, MapThenFoldSet
<1>2. \A s \in SUBSET S : s # {} => BoughtBy[OneOf(s)] = Op(CHOOSE x \in s : TRUE)
  BY DEF OneOf, BoughtBy
<1>3. \A it : J(it) <=> IsSum(it, BoughtBy, S)
  BY <1>2 DEF IsSum, OneOf
<1> HIDE DEF J
<1>4. IntsOn(BoughtBy, S)
  BY SummandsAreInts
<1>5. J(CHOOSE it : J(it))
  BY <1>3, <1>4, SumExists
<1> QED BY <1>1, <1>3, <1>4, <1>5, SumIsTotal

LEMMA PnLInit == Init => PnLInv
<1> SUFFICES ASSUME Init, NEW u \in Instruments
             PROVE  /\ pos[u].qty <= Bought(u)
                    /\ 2 * AbsOf(Gap(u)) <= Cardinality(BuysOf(u)) * Bought(u) * Lot[u]
  BY DEF PnLInv
<1>1. fills = {} /\ pos[u].qty = 0 /\ pos[u].avg = 0 /\ Lot[u] \in Nat
  BY TradingAssumption DEF Init
<1>2. FillsOf(u) = {} /\ BuysOf(u) = {}
  BY <1>1 DEF FillsOf, BuysOf
<1>3. Profit(u) = 0 /\ Moved(u) = 0 /\ Bought(u) = 0 /\ Cardinality(BuysOf(u)) = 0
  BY <1>2, TotalOfNone, FS_EmptySet DEF Profit, Moved, Bought
<1>4. Gap(u) = 0
  BY <1>1, <1>3 DEF Gap, Notional
<1> QED BY <1>1, <1>3, <1>4 DEF AbsOf

LEMMA PnLInvReconciles == TypeOK /\ FillsMatchIntents /\ BooksInv /\ PnLInv => RealizedPnLReconciles
<1> SUFFICES ASSUME TypeOK, FillsMatchIntents, BooksInv, PnLInv PROVE RealizedPnLReconciles
  OBVIOUS
<1>1. IsFiniteSet(fills) /\ FillsOrdered
  BY FillsHaveOrders DEF BooksInv
<1>2. ASSUME NEW u \in Instruments
      PROVE  /\ MapThenSumSet(LAMBDA f : CashOf(f) + f.fee, FillsOf(u)) = Moved(u)
             /\ MapThenSumSet(LAMBDA f : f.pnl, FillsOf(u)) = Profit(u)
             /\ MapThenSumSet(LAMBDA f : f.qty, BuysOf(u)) = Bought(u)
  BY <1>1, FinitePart, MovedIsSum, ProfitIsSum, BoughtIsSum DEF Moved, Profit, Bought
<1>3. ASSUME NEW u \in Instruments
      PROVE  2 * AbsOf(Profit(u) - Moved(u) - Notional(pos[u].avg, pos[u].qty, Lot[u]))
               <= Cardinality(BuysOf(u)) * Bought(u) * Lot[u]
  BY DEF PnLInv, Gap
<1> QED BY <1>2, <1>3 DEF RealizedPnLReconciles, BuysOf

\* However buys and sells of an instrument interleave, the profit booked on its
\* sells differs from what its fills moved and its open lots cost by the buys'
\* rounding alone.
THEOREM ProfitReconciles == Spec => []RealizedPnLReconciles
<1>1. Init => SeededFirst
  BY DEF Init, SeededFirst, NoOffer
<1>2. Init => FillsMatchIntents
  BY JournalAssumption DEF Init, FillsMatchIntents, Absent
<1> QED BY <1>1, <1>2, BooksInit, PnLInit, TypeInit, TypeStep, SeededFirstStep, FillsMatchStep, BooksStep,
           PnLStep, PnLInvReconciles, PTL DEF Spec

-----------------------------------------------------------------------------
(* The contract prices and books as the executor does *)

LEMMA SameMoney ==
  ASSUME NEW p, NEW q, NEW l
  PROVE  /\ Contract!Notional(p, q, l) = Notional(p, q, l)
         /\ Contract!Commission(p, q, l) = Commission(p, q, l)
BY DEF Contract!Notional, Contract!Commission, Contract!MulRat, Contract!TruncDiv, Contract!TruncRem,
       Contract!AbsOf, Contract!SignOf, Contract!RoundQuotient, Contract!RoundsAway,
       Notional, Commission, MulRat, TruncDiv, TruncRem, AbsOf, SignOf, RoundQuotient, RoundsAway

-----------------------------------------------------------------------------
(* What a decision's outcome is *)

OutcomeOf(s) == IF s \in Terminal THEN s ELSE "working"

\* The one intent of a decision decides its outcome, whichever CHOOSE picks.
OutcomeIsItsIntents ==
  \A did \in DecisionIds :
    /\ ~HasIntent(did) => Outcome(did) = "none"
    /\ \A id \in Journaled : order[id].decision = did => Outcome(did) = OutcomeOf(istate[id])

LEMMA OutcomeDetermined == OneIntentPerDecision => OutcomeIsItsIntents
<1> SUFFICES ASSUME OneIntentPerDecision, NEW did \in DecisionIds
             PROVE  /\ ~HasIntent(did) => Outcome(did) = "none"
                    /\ \A id \in Journaled : order[id].decision = did => Outcome(did) = OutcomeOf(istate[id])
  BY DEF OutcomeIsItsIntents
<1>1. ~HasIntent(did) => Outcome(did) = "none"
  BY DEF HasIntent, Outcome, IntentsOf
<1>2. ASSUME NEW id \in Journaled, order[id].decision = did
      PROVE  Outcome(did) = OutcomeOf(istate[id])
  <2>1. IntentsOf(did) = {id}
    BY <1>2 DEF OneIntentPerDecision, IntentsOf, Journaled
  <2>2. (CHOOSE i \in IntentsOf(did) : TRUE) = id
    BY <2>1
  <2> QED BY <2>1, <2>2 DEF Outcome, OutcomeOf
<1> QED BY <1>1, <1>2

LEMMA OutcomeDeterminedNext == OneIntentPerDecision' => OutcomeIsItsIntents'
BY OutcomeDetermined, PTL

-----------------------------------------------------------------------------
(* Where fills come from *)

\* The order of id is the one Submit journals for decision d.
Ordered(id, d) ==
  /\ Submittable(d) /\ ~Refused(d)
  /\ order[id].uid = d.uid /\ order[id].side = d.action /\ order[id].qty = d.qty
  /\ order[id].type = d.type /\ order[id].limit = d.limit

\* Nothing rests that Submit would have refused, and OnQuote works with a quote
\* it was handed: the journal of an older robot has no resting intent and none
\* of its rows ever becomes one.
SourcesInv ==
  /\ \A id \in Ids : istate[id] = "acked" => \E d \in Decisions : Ordered(id, d)
  /\ offer.todo # {} => offer.quote \in Quotes

LEMMA SourcesInit == Init => SourcesInv
BY JournalAssumption DEF Init, SourcesInv, Absent, NoOffer

LEMMA SubmitOrders ==
  ASSUME TypeOK, NEW did, NEW d \in Decisions, NEW id \in Ids, SubmitOne(did, d, id), istate'[id] = "acked"
  PROVE  Ordered(id, d)'
<1> DEFINE row == [decision |-> did, uid |-> d.uid, side |-> d.action, qty |-> d.qty,
                   type |-> d.type, limit |-> d.limit, tif |-> d.tif, createdAt |-> now]
<1>1. order'[id] = row
  BY DEF SubmitOne, TypeOK
<1>2. ~Refused(d) /\ Submittable(d)
  BY DEF SubmitOne, TypeOK
<1>3. /\ order'[id].uid = d.uid /\ order'[id].side = d.action /\ order'[id].qty = d.qty
      /\ order'[id].type = d.type /\ order'[id].limit = d.limit
  BY <1>1
<1> QED BY <1>2, <1>3 DEF Ordered, Refused, Submittable

LEMMA SourcesStep == TypeOK /\ SourcesInv /\ [Next]_vars => SourcesInv'
<1> SUFFICES ASSUME TypeOK, SourcesInv, [Next]_vars PROVE SourcesInv'
  OBVIOUS
<1>1. \A id \in Ids : istate'[id] = "acked" => \E d \in Decisions : Ordered(id, d)'
  <2>1. CASE UNCHANGED <<journal, fills>>
    BY <2>1 DEF SourcesInv, Ordered, Submittable, Refused, journal
  <2>2. ASSUME NEW did \in DecisionIds, NEW d \in Decisions, NEW id \in Ids, SubmitOne(did, d, id)
        PROVE  \A i \in Ids : istate'[i] = "acked" => \E e \in Decisions : Ordered(i, e)'
    <3>1. istate'[id] = "acked" => Ordered(id, d)'
      BY <2>2, SubmitOrders
    <3>2. ASSUME NEW i \in Ids \ {id}, istate'[i] = "acked" PROVE \E e \in Decisions : Ordered(i, e)'
      <4>1. istate[i] = "acked" /\ order'[i] = order[i]
        BY <2>2, <3>2, SubmitEffect
      <4> QED BY <4>1 DEF SourcesInv, Ordered, Submittable, Refused
    <3> QED BY <3>1, <3>2
  <2>3. ASSUME NEW id \in Ids, NEW from, NEW to, Cas(id, from, to), to # "acked"
        PROVE  \A i \in Ids : istate'[i] = "acked" => \E e \in Decisions : Ordered(i, e)'
    <3>1. \A i \in Ids : istate'[i] = "acked" => istate[i] = "acked"
      BY <2>3, CasEffect
    <3>2. order' = order
      BY <2>3 DEF Cas
    <3> QED BY <3>1, <3>2 DEF SourcesInv, Ordered, Submittable, Refused
  <2>4. ASSUME NEW id \in Ids, Ends(id)
        PROVE  \A i \in Ids : istate'[i] = "acked" => \E e \in Decisions : Ordered(i, e)'
    BY <2>3, <2>4 DEF Ends
  <2>5. ASSUME NEW id \in Ids, OfferSettles(id)
        PROVE  \A i \in Ids : istate'[i] = "acked" => \E e \in Decisions : Ordered(i, e)'
    BY <2>3, <2>5 DEF OfferSettles
  <2> QED BY <2>1, <2>2, <2>4, <2>5, JournalStep
<1>2. offer'.todo # {} => offer'.quote \in Quotes
  <2>1. CASE UNCHANGED offer
    BY <2>1 DEF SourcesInv
  <2>2. ASSUME NEW uid \in Instruments, NEW q \in Quotes, NEW ts \in 0..MaxTime, OnQuote(uid, q, ts)
        PROVE  offer'.quote \in Quotes
    BY <2>2 DEF OnQuote
  <2>3. CASE offer.todo # {} /\ offer' = [offer EXCEPT !.todo = offer'.todo]
    <3>1. offer'.quote = offer.quote
      BY <2>3 DEF TypeOK
    <3> QED BY <2>3, <3>1 DEF SourcesInv
  <2>4. CASE offer' = NoOffer
    BY <2>4 DEF NoOffer
  <2> QED BY <2>1, <2>2, <2>3, <2>4, OfferStep
<1> QED BY <1>1, <1>2 DEF SourcesInv

-----------------------------------------------------------------------------
(* The initial states and the steps *)

\* The contract's outcome, position and funded under the mapping.
Outcomes == [did \in DecisionIds |-> Outcome(did)]
Position == [u \in Instruments |-> pos[u].qty]

LEMMA InitImplements == Init => Contract!Init
<1> SUFFICES ASSUME Init PROVE Contract!Init
  OBVIOUS
<1>1. OneIntentPerDecision
  BY JournalAssumption DEF Init, OneIntentPerDecision, Journaled
<1>2. ASSUME NEW did \in DecisionIds PROVE Outcome(did) \in {"none", "working"}
  <2>1. CASE ~HasIntent(did)
    BY <1>1, <2>1, OutcomeDetermined DEF OutcomeIsItsIntents
  <2>2. ASSUME NEW id \in Journaled, order[id].decision = did PROVE Outcome(did) = "working"
    <3>1. istate[id] \in {"new", "submitted"}
      BY JournalAssumption DEF Init, Journaled
    <3>2. Outcome(did) = OutcomeOf(istate[id])
      BY <1>1, <2>2, OutcomeDetermined DEF OutcomeIsItsIntents
    <3> QED BY <3>1, <3>2 DEF OutcomeOf, Terminal
  <2> QED BY <2>1, <2>2 DEF HasIntent
<1>3. Outcomes \in [DecisionIds -> {"none", "working"}]
  BY <1>2 DEF Outcomes
<1>4. Position = [u \in Instruments |-> 0]
  BY DEF Init, Position
<1>5. cash = 0 /\ seeded = FALSE /\ halted = FALSE
  BY DEF Init
<1> QED BY <1>3, <1>4, <1>5 DEF Contract!Init, Outcomes, Position

\* A step that leaves the journal alone leaves every outcome alone.
LEMMA OutcomesStutter == UNCHANGED journal => Outcomes' = Outcomes
BY DEF journal, Outcomes, Outcome, IntentsOf, Journaled

\* A step that moves the intents of one decision only moves its outcome only.
LEMMA OutcomeMoves ==
  ASSUME TypeOK, TypeOK', OneIntentPerDecision, OneIntentPerDecision', NEW id \in Ids, NEW did,
         did = order'[id].decision,
         istate'[id] # Absent,
         \A i \in Ids \ {id} : istate'[i] = istate[i] /\ order'[i] = order[i],
         istate[id] # Absent => order'[id] = order[id],
         istate[id] = Absent => ~HasIntent(did)
  PROVE  /\ did \in DecisionIds
         /\ Outcome(did) = IF istate[id] = Absent THEN "none" ELSE OutcomeOf(istate[id])
         /\ Outcomes' = [Outcomes EXCEPT ![did] = OutcomeOf(istate'[id])]
<1>1. did \in DecisionIds
  BY DEF TypeOK, Order
<1>2. OutcomeIsItsIntents /\ OutcomeIsItsIntents'
  BY OutcomeDetermined, OutcomeDeterminedNext
<1>3. Outcome(did) = IF istate[id] = Absent THEN "none" ELSE OutcomeOf(istate[id])
  BY <1>1, <1>2 DEF OutcomeIsItsIntents, Journaled
<1>4. Outcome(did)' = OutcomeOf(istate'[id])
  <2>1. id \in Journaled'
    BY DEF Journaled
  <2> QED BY <1>1, <1>2, <2>1 DEF OutcomeIsItsIntents
<1>5. ASSUME NEW d \in DecisionIds \ {did} PROVE Outcome(d)' = Outcome(d)
  <2>1. IntentsOf(d)' = IntentsOf(d)
    BY <1>5 DEF IntentsOf, Journaled
  <2>2. \A i \in IntentsOf(d) : istate'[i] = istate[i]
    BY <1>5, <2>1 DEF IntentsOf, Journaled
  <2>3. IntentsOf(d) # {} => (CHOOSE i \in IntentsOf(d) : TRUE) \in IntentsOf(d)
    OBVIOUS
  <2> QED BY <2>1, <2>2, <2>3 DEF Outcome
<1>6. Outcomes' = [Outcomes EXCEPT ![did] = OutcomeOf(istate'[id])]
  BY <1>1, <1>4, <1>5 DEF Outcomes
<1> QED BY <1>1, <1>3, <1>6

BooksStand == Position' = Position /\ UNCHANGED <<cash, seeded, halted>>

LEMMA BooksUntouched == UNCHANGED ledger => BooksStand
BY DEF ledger, BooksStand, Position

\* A submission journals a decision that had no intent: the contract accepts or
\* rejects it.
LEMMA SubmitImplements ==
  ASSUME TypeOK, TypeOK', OneIntentPerDecision, OneIntentPerDecision',
         NEW did \in DecisionIds, NEW d \in Decisions, NEW id \in Ids, SubmitOne(did, d, id)
  PROVE  Contract!Accept(did) \/ Contract!Reject(did)
<1>1. /\ istate[id] = Absent /\ istate'[id] \in {"rejected", "acked"}
      /\ order'[id].decision = did
      /\ \A i \in Ids \ {id} : istate'[i] = istate[i] /\ order'[i] = order[i]
  BY SubmitEffect
<1>2. istate'[id] # Absent /\ ~HasIntent(did)
  BY <1>1 DEF Absent, SubmitOne
<1>3. /\ Outcome(did) = "none"
      /\ Outcomes' = [Outcomes EXCEPT ![did] = OutcomeOf(istate'[id])]
  BY <1>1, <1>2, OutcomeMoves
<1>4. Outcomes[did] = "none" /\ OutcomeOf(istate'[id]) \in {"rejected", "working"}
  BY <1>1, <1>3 DEF Outcomes, OutcomeOf, Terminal
<1>5. BooksStand
  BY BooksUntouched DEF SubmitOne
<1> QED BY <1>3, <1>4, <1>5 DEF Contract!Accept, Contract!Reject, Contract!Becomes, Outcomes, BooksStand, Position

\* What a compare-and-swap to a terminal state does to its decision's outcome.
LEMMA CasOutcome ==
  ASSUME TypeOK, TypeOK', OneIntentPerDecision, OneIntentPerDecision',
         NEW id \in Ids, NEW from, NEW to \in Terminal, Cas(id, from, to)
  PROVE  /\ order[id].decision \in DecisionIds
         /\ Outcomes[order[id].decision] = "working"
         /\ Outcomes' = [Outcomes EXCEPT ![order[id].decision] = to]
<1>1. /\ istate[id] = from /\ from \notin Terminal /\ from # Absent /\ to # Absent
      /\ istate'[id] = to /\ order' = order
      /\ \A i \in Ids \ {id} : istate'[i] = istate[i]
  BY CasEffect
<1>2. PICK did : did = order'[id].decision
  OBVIOUS
<1>3. /\ did \in DecisionIds /\ Outcome(did) = OutcomeOf(istate[id])
      /\ Outcomes' = [Outcomes EXCEPT ![did] = OutcomeOf(istate'[id])]
  BY <1>1, <1>2, OutcomeMoves
<1> QED BY <1>1, <1>2, <1>3 DEF OutcomeOf, Outcomes

LEMMA EndImplements ==
  ASSUME TypeOK, TypeOK', OneIntentPerDecision, OneIntentPerDecision',
         NEW id \in Ids, Ends(id), UNCHANGED ledger
  PROVE  \E d \in DecisionIds : Contract!Reject(d) \/ Contract!Cancel(d)
<1>1. PICK from \in IntentState, to \in {"rejected", "canceled"} : Cas(id, from, to)
  BY DEF Ends
<1> DEFINE d == order[id].decision
<1>2. /\ d \in DecisionIds /\ Outcomes[d] = "working"
      /\ Outcomes' = [Outcomes EXCEPT ![d] = to]
  BY <1>1, CasOutcome DEF Terminal
<1>3. BooksStand
  BY BooksUntouched
<1>4. Contract!Reject(d) \/ Contract!Cancel(d)
  BY <1>1, <1>2, <1>3 DEF Contract!Reject, Contract!Cancel, Contract!Becomes, Outcomes, BooksStand, Position
<1> QED BY <1>2, <1>4

\* A settlement is a fill of the contract, of lots and at a price that an order
\* of one of the decisions can have.
LEMMA SettleImplements ==
  ASSUME TypeOK, TypeOK', OneIntentPerDecision, OneIntentPerDecision', SourcesInv,
         NEW id \in Ids, OfferSettles(id)
  PROVE  \E d \in DecisionIds : Contract!Fill(d)
<1> DEFINE o == order[id]
           did == o.decision
<1>1. Cas(id, "acked", "filled") /\ id \in offer.todo
  BY DEF OfferSettles, IsOldest
<1>2. did \in DecisionIds /\ Outcomes[did] = "working" /\ Outcomes' = [Outcomes EXCEPT ![did] = "filled"]
  BY <1>1, CasOutcome DEF Terminal
<1>3. Contract!Becomes(did, {"working"}, "filled")
  BY <1>2 DEF Contract!Becomes, Outcomes
<1>4. PICK d \in Decisions : Ordered(id, d)
  BY <1>1 DEF SourcesInv, Cas
<1>5. PICK price \in FillPrices(id) : ApplyFill(id, price)
  BY DEF OfferSettles
<1>6. /\ o \in Order /\ o.uid \in Instruments /\ o.qty \in Nat \ {0} /\ o.side \in {"buy", "sell"}
      /\ Lot[o.uid] \in Nat \ {0} /\ PriceTick[o.uid] \in Nat /\ offer.quote \in Quote
      /\ pos \in [Instruments -> [qty : Nat, avg : Int]] /\ cash \in Int
  BY <1>1, TradingAssumption DEF TypeOK, Order, Quote, Cas, Edges, Absent, CanTransition
<1>7. PriceTick[o.uid] > 0 /\ price \in PriceFill(o, offer.quote, PriceTick[o.uid])
  BY <1>5 DEF FillPrices
<1>8. o.qty \in OrderedLots
  BY <1>4 DEF Ordered, Submittable, OrderedLots
<1>9. price \in PossiblePrices
  <2> DEFINE r == [side |-> d.action, type |-> d.type, limit |-> d.limit]
  <2>1. r.side = o.side /\ r.type = o.type /\ r.limit = o.limit /\ d.uid = o.uid
    BY <1>4 DEF Ordered
  <2>2. PriceFill(r, offer.quote, PriceTick[d.uid]) = PriceFill(o, offer.quote, PriceTick[o.uid])
    <3> HIDE DEF r, o
    <3> QED BY <2>1 DEF PriceFill
  <2>3. offer.quote \in Quotes
    BY <1>1 DEF SourcesInv
  <2>4. price \in PriceFill(r, offer.quote, PriceTick[d.uid])
    BY <1>7, <2>2
  <2>5. d \in {e \in Decisions : Submittable(e) /\ ~Refused(e)}
    BY <1>4 DEF Ordered
  <2> DEFINE fillable == {PriceFill([side |-> e.action, type |-> e.type, limit |-> e.limit], q, PriceTick[e.uid]) :
                            e \in {e \in Decisions : Submittable(e) /\ ~Refused(e)}, q \in Quotes}
  <2>6. PriceFill(r, offer.quote, PriceTick[d.uid]) \in fillable
    BY <2>3, <2>5
  <2>7. PossiblePrices = UNION fillable
    BY DEF PossiblePrices
  <2> HIDE DEF fillable, r
  <2> QED BY <2>4, <2>6, <2>7
<1>10. price \in Int /\ Notional(price, o.qty, Lot[o.uid]) \in Int /\ Commission(price, o.qty, Lot[o.uid]) \in Int
  <2>1. price \in Int
    BY <1>6, <1>7, PriceFillBounds
  <2> QED BY <1>6, <2>1, MoneyType
<1>11. /\ pos' = [pos EXCEPT ![o.uid] = PositionAfter(o, price)]
       /\ cash' = cash + CashDelta(o.side, Notional(price, o.qty, Lot[o.uid]), Fee(o, price))
       /\ halted' = (halted \/ BelowFloor(cash')) /\ seeded' = seeded /\ CanApply(o, price)
  BY <1>5 DEF ApplyFill
<1>12. CASE o.side = "buy"
  <2>1. PositionAfter(o, price).qty = pos[o.uid].qty + o.qty
    BY <1>12 DEF PositionAfter
  <2>2. Position' = [Position EXCEPT ![o.uid] = @ + o.qty]
    BY <1>6, <1>11, <2>1 DEF Position
  <2>3. cash' = cash - Notional(price, o.qty, Lot[o.uid]) - Commission(price, o.qty, Lot[o.uid])
    BY <1>6, <1>10, <1>11, <1>12 DEF CashDelta, Fee
  <2>4. Contract!Bought(o.uid, o.qty, price)
    BY <2>2, <2>3, SameMoney DEF Contract!Bought, Position
  <2> QED BY <1>2, <1>3, <1>6, <1>8, <1>9, <1>11, <2>4 DEF Contract!Fill, BelowFloor
<1>13. CASE o.side = "sell"
  <2>1. PositionAfter(o, price).qty = pos[o.uid].qty - o.qty /\ o.qty <= pos[o.uid].qty
    BY <1>11, <1>13 DEF PositionAfter, CanApply
  <2>2. Position' = [Position EXCEPT ![o.uid] = @ - o.qty] /\ o.qty <= Position[o.uid]
    BY <1>6, <1>11, <2>1 DEF Position
  <2>3. cash' = cash + Notional(price, o.qty, Lot[o.uid]) - Commission(price, o.qty, Lot[o.uid])
    BY <1>6, <1>10, <1>11, <1>13 DEF CashDelta, Fee
  <2>4. Contract!Sold(o.uid, o.qty, price)
    BY <2>2, <2>3, SameMoney DEF Contract!Sold, Position
  <2> QED BY <1>2, <1>3, <1>6, <1>8, <1>9, <1>11, <2>4 DEF Contract!Fill, BelowFloor
<1> QED BY <1>6, <1>12, <1>13

LEMMA StepImplements ==
  ASSUME TypeOK, TypeOK', OneIntentPerDecision, OneIntentPerDecision', SourcesInv, [Next]_vars
  PROVE  [Contract!Next]_(Contract!vars)
<1> USE DEF Contract!Next
<1>1. ASSUME NEW did \in DecisionIds, NEW d \in Decisions, NEW id \in Ids, SubmitOne(did, d, id)
      PROVE  Contract!Next
  BY <1>1, SubmitImplements
<1>2. ASSUME NEW id \in Ids, OfferSettles(id) PROVE Contract!Next
  BY <1>2, SettleImplements
<1>3. ASSUME UNCHANGED ledger, NEW id \in Ids, Ends(id) PROVE Contract!Next
  BY <1>3, EndImplements
<1>4. CASE UNCHANGED journal /\ UNCHANGED ledger
  <2>1. Outcomes' = Outcomes /\ BooksStand
    BY <1>4, OutcomesStutter, BooksUntouched
  <2> QED BY <2>1 DEF Contract!vars, Outcomes, BooksStand, Position
\* A first start funds the account; any other one is invisible.
<1>5. CASE StartUp
  <2>1. Outcomes' = Outcomes /\ Position' = Position /\ halted' = halted
    BY <1>5, OutcomesStutter DEF StartUp, Position
  <2>2. CASE seeded
    <3>1. cash' = cash /\ seeded' = seeded
      BY <1>5, <2>2 DEF StartUp, Funded, TypeOK
    <3> QED BY <2>1, <3>1 DEF Contract!vars, Outcomes, Position
  <2>3. CASE ~seeded
    <3>1. cash' = StartingCash /\ seeded' = TRUE
      BY <1>5, <2>3 DEF StartUp, Funded
    <3> QED BY <2>1, <2>3, <3>1 DEF Contract!Fund, Outcomes, Position
  <2> QED BY <2>2, <2>3
<1>6. UNCHANGED <<journal, fills>> => UNCHANGED journal
  OBVIOUS
<1>7. StartUp => UNCHANGED journal
  BY DEF StartUp
<1> QED BY <1>1, <1>2, <1>3, <1>4, <1>5, <1>6, JournalStep, LedgerStep

\* The executor and the portfolio keep their contract for any number of orders,
\* decisions, instruments and quotes: every step is one step of
\* ExecutionContract or leaves what it talks about as it is.
THEOREM Refinement == Spec => ImplementsContract
<1>1. Spec => [](TypeOK /\ OneIntentPerDecision /\ SourcesInv)
  BY TypeCorrect, OneIntent, SourcesInit, TypeInit, TypeStep, SourcesStep, PTL DEF Spec
<1>2. TypeOK /\ OneIntentPerDecision /\ SourcesInv /\ TypeOK' /\ OneIntentPerDecision' /\ [Next]_vars
        => [Contract!Next]_(Contract!vars)
  BY StepImplements
<1>3. Init => Contract!Init
  BY InitImplements
<1> QED BY <1>1, <1>2, <1>3, PTL DEF Spec, ImplementsContract, Contract!Spec

-----------------------------------------------------------------------------
(* The cycle: what its steps do to the executor *)

\* A step of the cycle is one of the executor or engages the halt, opens the
\* submission or submits an order.
LEMMA CyclePaperStep ==
  ASSUME [CycleNext]_cycleVars
  PROVE  [Next]_vars \/ KillSwitch \/ StartSubmit \/ \E id \in Ids : SubmitNext(id)
<1> DEFINE Goal == [Next]_vars \/ KillSwitch \/ StartSubmit \/ \E id \in Ids : SubmitNext(id)
<1>1. ASSUME UNCHANGED vars PROVE Goal
  BY <1>1
<1>2. ASSUME Next PROVE Goal
  BY <1>2
<1>3. ASSUME CycleSteps PROVE Goal
  <2>1. ASSUME NEW s \in Sessions, StartCycle(s) PROVE Goal
    BY <1>2, <2>1 DEF StartCycle, Next, Submission
  <2>2. ASSUME NEW step, Reads(step) PROVE Goal
    BY <1>1, <2>2 DEF Reads
  <2>3. FinishCycle => Goal
    BY <1>2 DEF FinishCycle, Next, Submission
  <2>4. MarkCash \/ MarkHeld => Goal
    <3>1. MarkCash \/ MarkHeld => UNCHANGED vars
      BY DEF MarkCash, MarkHeld
    <3> QED BY <1>1, <3>1
  <2>5. /\ \A view \in Views : ReadCash(view) => Reads("cash")
        /\ ReadHeld => Reads("held")
        /\ ReadCashAgain => Reads("cash_only")
        /\ ReadWorking => Reads("working")
        /\ \A actions \in [DOMAIN Universe -> UNION {Proposals(u) : u \in Instruments}] :
             Decide(actions) => Reads("decide")
        /\ ReadHalt => Reads("halt")
        /\ CheckRisk => Reads("check")
        /\ BuildOrder => Reads("build")
    BY DEF ReadCash, ReadHeld, ReadCashAgain, ReadWorking, Decide, ReadHalt, CheckRisk, BuildOrder
  <2> HIDE DEF Goal
  <2>6. \A step : Reads(step) => Goal
    BY <2>2
  <2>7. StartSubmit \/ (\E id \in Ids : SubmitNext(id)) => Goal
    BY DEF Goal
  <2> QED BY <1>3, <2>1, <2>3, <2>4, <2>5, <2>6, <2>7, Zenon DEF CycleSteps
<1>4. CycleCrash => Goal
  BY <1>2 DEF CycleCrash, Next, Process
<1>5. Meanwhile => Goal
  BY <1>2 DEF Meanwhile, Next, Process
<1>6. UNCHANGED cycleVars => Goal
  BY <1>1 DEF cycleVars
<1> QED BY <1>3, <1>4, <1>5, <1>6 DEF CycleNext

-----------------------------------------------------------------------------
(* The types of the cycle *)

CycleStepNames == {"none", "cash", "held", "cash_only", "working", "decide", "halt", "check", "build", "mark", "done"}

\* A decision on its way to Submit, with the id of its row.
Line == [did : DecisionIds, dec : Decision]

Cycle == [step : CycleStepNames, view : [Instruments -> Quote], cash : Int, held : [Instruments -> Nat],
          working : SUBSET Ids, dayPnL : Int, actions : Seq(Decision), halted : BOOLEAN,
          ordersToday : Nat, todo : Seq(Line), orders : Seq(Line)]

Equity == [of : SUBSET Window, base : Int, last : Int]

JournalFinite == IsFiniteSet(Journaled)

CycleTypeOK ==
  /\ TypeOK /\ JournalFinite
  /\ cycle \in Cycle /\ cycle.working \subseteq Journaled
  /\ rows \in 0..MaxRows /\ equity \in Equity

\* There are finitely many instruments, and the universe lists each once.
LEMMA UniverseLists ==
  /\ Universe \in [1..Len(Universe) -> Instruments] /\ Len(Universe) \in Nat
  /\ Instruments = {Universe[k] : k \in 1..Len(Universe)}
  /\ \A j, k \in 1..Len(Universe) : Universe[j] = Universe[k] => j = k
  /\ IsFiniteSet(Instruments) /\ Uids = Instruments
<1>1. /\ Universe \in Seq(Instruments) /\ ToSet(Universe) = Instruments /\ Uids = Instruments
      /\ \A j, k \in DOMAIN Universe : Universe[j] = Universe[k] => j = k
  BY CycleAssumption
<1>2. Len(Universe) \in Nat /\ DOMAIN Universe = 1..Len(Universe) /\ Universe \in [1..Len(Universe) -> Instruments]
  BY <1>1, LenProperties
<1>3. IsFiniteSet(1..Len(Universe))
  BY <1>2, 1 \in Int, FS_Interval
<1>4. Instruments = {Universe[k] : k \in 1..Len(Universe)}
  BY <1>1, <1>2 DEF ToSet
<1>5. Universe \in Surjection(1..Len(Universe), Instruments)
  BY <1>2, <1>4 DEF Surjection
<1>6. IsFiniteSet(Instruments)
  BY <1>3, <1>5, FS_Surjection
<1> QED BY <1>1, <1>2, <1>4, <1>6

LEMMA NoCycleType == NoCycle \in Cycle
<1>1. /\ [u \in Instruments |-> NoQuote] \in [Instruments -> Quote] /\ Nothing \in [Instruments -> Nat]
      /\ <<>> \in Seq(Decision) /\ <<>> \in Seq(Line) /\ {} \in SUBSET Ids
  BY DEF NoQuote, Quote, Nothing
<1> QED BY <1>1 DEF NoCycle, Cycle, CycleStepNames

\* The head of what is still to be submitted is a line.
LEMMA HeadIsLine ==
  ASSUME CycleTypeOK, cycle.orders # <<>>
  PROVE  Head(cycle.orders).did \in DecisionIds /\ Head(cycle.orders).dec \in Decision
<1>1. Head(cycle.orders) \in Line
  BY HeadTailProperties DEF CycleTypeOK, Cycle
<1> QED BY <1>1 DEF Line

LEMMA PaperType ==
  ASSUME CycleTypeOK, [CycleNext]_cycleVars
  PROVE  TypeOK'
<1>0. TypeOK
  BY DEF CycleTypeOK
<1>1. KillSwitch => TypeOK'
  <2> SUFFICES ASSUME KillSwitch PROVE JournalOK' /\ BooksOK' /\ CallsOK'
    BY DEF TypeOK, JournalOK, BooksOK, CallsOK
  <2>1. halted' \in BOOLEAN
    BY Zenon DEF KillSwitch
  <2>2. JournalOK' /\ CallsOK'
    BY <1>0 DEF KillSwitch, TypeOK, JournalOK, CallsOK, journal, startup, gates
  <2>3. BooksOK'
    BY <1>0, <2>1 DEF KillSwitch, TypeOK, BooksOK
  <2> QED BY <2>2, <2>3
<1>2. StartSubmit => TypeOK'
  <2> SUFFICES ASSUME StartSubmit PROVE JournalOK' /\ BooksOK' /\ CallsOK'
    BY DEF TypeOK, JournalOK, BooksOK, CallsOK
  <2> DEFINE p == [u \in {} |-> Unrestricted]
  <2>1. /\ status' = [u \in Instruments |-> IF u \in DOMAIN p THEN p[u] ELSE status[u]]
        /\ session' = sched.window /\ sched' = [IdleSched EXCEPT !.call = "submit"]
        /\ UNCHANGED <<now, startup, journal, ledger, offer, cancels>>
    BY DEF StartSubmit, BeginSubmit
  <2>2. status' \in [Instruments -> Permission] /\ session' \in Window
    BY <1>0, <2>1 DEF TypeOK
  <2>3. sched' \in [call : {"idle", "cycle", "submit", "expire"}, todo : SUBSET Ids, window : Window]
    BY <2>1 DEF IdleSched, AllDay, Window
  <2>4. CallsOK'
    BY <1>0, <2>1, <2>2, <2>3 DEF TypeOK, CallsOK, startup
  <2>5. JournalOK' /\ BooksOK'
    BY <1>0, <2>1 DEF TypeOK, JournalOK, BooksOK, journal, ledger
  <2> QED BY <2>4, <2>5
<1>3. ASSUME NEW id \in Ids, SubmitNext(id) PROVE TypeOK'
  <2> SUFFICES JournalOK' /\ BooksOK' /\ CallsOK'
    BY DEF TypeOK, JournalOK, BooksOK, CallsOK
  <2> DEFINE did == Head(cycle.orders).did
             d == Head(cycle.orders).dec
  <2>1. did \in DecisionIds /\ d \in Decision /\ SubmitOne(did, d, id)
    BY <1>3, HeadIsLine DEF SubmitNext
  <2> HIDE DEF did, d
  <2>2. JournalOK'
    BY <1>0, <2>1, SubmitOneType
  <2>3. BooksOK' /\ CallsOK'
    BY <1>0, <2>1 DEF SubmitOne, TypeOK, BooksOK, CallsOK, ledger, gates, startup
  <2> QED BY <2>2, <2>3
<1> QED BY <1>0, <1>1, <1>2, <1>3, CyclePaperStep, TypeStep

-----------------------------------------------------------------------------
(* What goes on while a cycle runs *)

\* An order that is resting is settled: its intent is filled and its lots move.
Settled(id) ==
  /\ istate[id] = "acked" /\ istate' = [istate EXCEPT ![id] = "filled"] /\ order' = order
  /\ \E price \in FillPrices(id) :
       CanApply(order[id], price) /\ pos' = [pos EXCEPT ![order[id].uid] = PositionAfter(order[id], price)]

\* An order ends without a fill.
Dropped(id) ==
  /\ istate[id] \notin Terminal \cup {Absent}
  /\ \E to \in {"rejected", "canceled"} : istate' = [istate EXCEPT ![id] = to]
  /\ order' = order /\ pos' = pos

Outside ==
  /\ UNCHANGED <<cycle, rows, equity, session>>
  /\ UNCHANGED <<istate, order, pos>> \/ \E id \in Ids : Settled(id) \/ Dropped(id)
  /\ now' \in Nat /\ now <= now'
  /\ sched.call \in {"cycle", "submit"} => sched' = sched
  /\ sched.call \in {"idle", "expire"} => sched'.call \in {"idle", "expire"}

LEMMA CasDrops ==
  ASSUME NEW id \in Ids, NEW from, NEW to \in {"rejected", "canceled"}, Cas(id, from, to), pos' = pos
  PROVE  Dropped(id)
<1>1. from \notin Terminal \cup {Absent}
  BY EdgesWithinStates DEF Cas
<1> QED BY <1>1 DEF Cas, Dropped

\* Whatever happens beside the cycle leaves the cycle alone, journals nothing and
\* only ends what is resting.
LEMMA MeanwhileEffect ==
  ASSUME TypeOK, Meanwhile
  PROVE  Outside
<1> DEFINE Journal == UNCHANGED <<istate, order, pos>> \/ \E id \in Ids : Settled(id) \/ Dropped(id)
           Calls == /\ sched.call \in {"cycle", "submit"} => sched' = sched
                    /\ sched.call \in {"idle", "expire"} => sched'.call \in {"idle", "expire"}
<1>0. ASSUME NEW id \in Ids, NEW from, NEW to \in {"rejected", "canceled"}, Cas(id, from, to), pos' = pos PROVE Journal
  BY <1>0, CasDrops
<1>1. Expiry => Journal /\ Calls /\ UNCHANGED session
  <2>1. BeginExpire \/ EndExpire => Journal /\ Calls /\ UNCHANGED session
    <3>1. BeginExpire => sched.call = "idle" /\ sched'.call = "expire"
      BY DEF BeginExpire, IdleSched
    <3>3. EndExpire => sched.call = "expire" /\ sched'.call = "idle"
      BY DEF EndExpire, IdleSched
    <3>2. BeginExpire \/ EndExpire => UNCHANGED <<istate, order, pos, session>>
      BY DEF BeginExpire, EndExpire, journal, ledger, gates
    <3> QED BY <3>1, <3>2, <3>3
  <2>2. ASSUME NEW id \in Ids, ExpireOne(id) PROVE Journal /\ Calls /\ UNCHANGED session
    <3>1. Journal
      BY <1>0, <2>2 DEF ExpireOne, journal, ledger
    <3> QED BY <2>2, <3>1 DEF ExpireOne, gates, TypeOK
  <2> QED BY <2>1, <2>2 DEF Expiry
<1>2. Observation => Journal /\ UNCHANGED <<sched, session>>
  <2>1. ASSUME NEW id \in Ids, OfferSettles(id) PROVE Settled(id) /\ UNCHANGED <<sched, session>>
    BY <2>1 DEF OfferSettles, Cas, ApplyFill, Settled, gates
  <2>2. ASSUME NEW id \in Ids, OfferCancelsIoc(id) PROVE Journal /\ UNCHANGED <<sched, session>>
    BY <1>0, <2>2 DEF OfferCancelsIoc, ledger, gates
  <2>3. ASSUME NEW id \in Ids, OfferRests(id) \/ OfferFails(id) PROVE Journal /\ UNCHANGED <<sched, session>>
    BY <2>3 DEF OfferRests, OfferFails, journal, ledger, gates
  <2>4. ASSUME NEW uid, NEW q, NEW ts, OnQuote(uid, q, ts) PROVE Journal /\ UNCHANGED <<sched, session>>
    BY <2>4 DEF OnQuote, journal, ledger, gates
  <2> QED BY <2>1, <2>2, <2>3, <2>4 DEF Observation
<1>3. Operator => Journal /\ UNCHANGED <<sched, session>>
  <2>1. ASSUME NEW id \in Ids, RequestCancel(id) PROVE Journal /\ UNCHANGED <<sched, session>>
    BY <2>1 DEF RequestCancel, journal, ledger, gates
  <2>2. ASSUME NEW c \in cancels, CompleteCancel(c) PROVE Journal /\ UNCHANGED <<sched, session>>
    <3>1. c.id \in Ids
      BY DEF TypeOK
    <3> QED BY <1>0, <2>2, <3>1 DEF CompleteCancel, journal, ledger, gates
  <2> QED BY <2>1, <2>2 DEF Operator
<1>4. KillSwitch \/ StartUp \/ Recovered \/ Tick => Journal /\ UNCHANGED <<sched, session>>
  BY DEF KillSwitch, StartUp, Recovered, Tick, journal, ledger, gates
<1>5. ASSUME NEW id \in Ids, Recover(id) PROVE Journal /\ UNCHANGED <<sched, session>>
  BY <1>0, <1>5 DEF Recover, ledger, gates
<1>6. now' \in Nat /\ now <= now'
  <2>1. Expiry \/ Observation \/ Operator \/ StartUp \/ (\E id \in Ids : Recover(id)) \/ Recovered \/ Tick => Next
    BY DEF Next, Process
  <2>2. KillSwitch => now' = now
    BY DEF KillSwitch
  <2>3. now \in Nat
    BY DEF TypeOK
  <2> QED BY <2>1, <2>2, <2>3, ClockStep DEF Meanwhile
<1>7. Journal /\ Calls /\ UNCHANGED session
  <2>1. sched' = sched => Calls
    BY DEF TypeOK
  <2> HIDE DEF Journal, Calls
  <2> QED BY <1>1, <1>2, <1>3, <1>4, <1>5, <2>1 DEF Meanwhile
<1> QED BY <1>6, <1>7 DEF Meanwhile, Outside

-----------------------------------------------------------------------------
(* The risk check of a cycle, by what RiskProofs shows of every check *)

Rules == INSTANCE RiskProofs
           WITH Answers <- {}, Request <- [u \in Uids |-> [tick |-> 0, lastClose |-> 0]], States <- {}, Limits <- {},
                proposed <- cycle.actions, state <- RiskState, limits <- Risk,
                batch <- Check(cycle.actions, RiskState, Risk), rule <- "done"

\* A set lists as a sequence of its elements, each once.
LEMMA Lists ==
  ASSUME NEW S, IsFiniteSet(S)
  PROVE  /\ Cardinality(S) \in Nat /\ SetToSeq(S) \in [1..Cardinality(S) -> S]
         /\ \A j, k \in 1..Cardinality(S) : SetToSeq(S)[j] = SetToSeq(S)[k] => j = k
         /\ \A x \in S : \E k \in 1..Cardinality(S) : SetToSeq(S)[k] = x
<1> DEFINE n == Cardinality(S)
<1>1. n \in Nat /\ ExistsBijection(1..n, S)
  BY FS_CardinalityType
<1>2. \E f \in [1..n -> S] : IsInjective(f)
  BY <1>1 DEF ExistsBijection, Bijection, Injection
<1>3. SetToSeq(S) \in [1..n -> S] /\ IsInjective(SetToSeq(S))
  BY <1>2 DEF SetToSeq
<1>4. SetToSeq(S) \in Injection(1..n, S)
  BY <1>3 DEF Injection
<1>5. Cardinality(1..n) = n /\ IsFiniteSet(1..n)
  <2>1. 1 \in Int /\ n \in Int /\ n \in Nat
    BY <1>1
  <2> HIDE DEF n
  <2> QED BY <2>1, FS_Interval
<1>6. SetToSeq(S) \in Surjection(1..n, S)
  BY <1>4, <1>5, FS_Injection
<1> QED BY <1>1, <1>3, <1>6 DEF Surjection, IsInjective

LEMMA ListOfNone == SetToSeq({}) = <<>>
<1>1. SetToSeq({}) \in [1..0 -> {}]
  BY Lists, FS_EmptySet
<1> QED BY <1>1

LEMMA ListOfOne == ASSUME NEW x PROVE SetToSeq({x}) = <<x>>
<1>1. IsFiniteSet({x}) /\ Cardinality({x}) = 1
  BY FS_Singleton
<1>2. SetToSeq({x}) \in [1..1 -> {x}]
  BY <1>1, Lists
<1> QED BY <1>2

\* A ratio of what is not negative is not.
LEMMA MulRatPositive ==
  ASSUME NEW d \in Nat, NEW num \in Nat, NEW den \in Nat \ {0}
  PROVE  MulRat(d, num, den, "halfAwayFromZero") \in Nat
<1> DEFINE n == d * num
<1>1. n \in Nat /\ ~(den < 0) /\ AbsOf(den) = den
  BY DEF AbsOf
<1> HIDE DEF n
<1>2. n \div den \in Nat /\ den * (n \div den) <= n /\ n \div den \in Int
  BY <1>1
<1>3. TruncDiv(n, den) = n \div den
  BY <1>1 DEF TruncDiv
<1>4. TruncRem(n, den) \in Nat
  BY <1>1, <1>2, <1>3 DEF TruncRem
<1>5. RoundQuotient(TruncRem(n, den), den, "halfAwayFromZero") \in 0..1
  BY <1>4 DEF RoundQuotient, SignOf
<1> QED BY <1>1, <1>2, <1>3, <1>5 DEF MulRat, n

LEMMA RulesAssumed == Rules!RiskAssumption /\ Rules!WidthAssumption
<1>1. Rules!WidthAssumption
  BY WidthAssumption DEF Rules!WidthAssumption
<1>2. IsFiniteSet(Uids)
  BY UniverseLists
<1>3. [u \in Uids |-> [tick |-> 0, lastClose |-> 0]] \in [Uids -> [tick : Int, lastClose : Int]]
  OBVIOUS
<1> QED BY <1>1, <1>2, <1>3 DEF Rules!RiskAssumption, Rules!IsFiniteSet, IsFiniteSet

\* The operators of the check are those the theorems of RiskProofs are about.
LEMMA SameRules ==
  ASSUME NEW b, NEW s, NEW l, NEW cap, NEW r, NEW act, NEW budget, NEW account, NEW cost
  PROVE  /\ Rules!ApplyKillSwitch(b, s, l) = ApplyKillSwitch(b, s, l)
         /\ Rules!ApplyOperationalHalt(b, s) = ApplyOperationalHalt(b, s)
         /\ Rules!ApplyAllowlist(b, s, l) = ApplyAllowlist(b, s, l)
         /\ Rules!ApplyCurrencyMismatch(b, s) = ApplyCurrencyMismatch(b, s)
         /\ Rules!ApplyOrderCap(b, cap, r) = ApplyOrderCap(b, cap, r)
         /\ Rules!Ration(b, r, act, budget, account, cost) = Ration(b, r, act, budget, account, cost)
         /\ Rules!ExistingExposure(r, s) = ExistingExposure(r, s)
         /\ Rules!BuyNotionals(b, s) = BuyNotionals(b, s)
<1>1. Rules!ApplyKillSwitch(b, s, l) = ApplyKillSwitch(b, s, l)
  BY Zenon DEF Rules!ApplyKillSwitch, ApplyKillSwitch, Rules!KillSwitchEngaged, KillSwitchEngaged,
               Rules!AbsOf, AbsOf, Rules!Strip, Strip, Rules!Those, Those, Rules!Adjustment, Adjustment,
               Rules!InOrder, InOrder, Rules!Orders, Orders, Rules!Cardinality, Cardinality
<1>2. Rules!ApplyOperationalHalt(b, s) = ApplyOperationalHalt(b, s)
  BY Zenon DEF Rules!ApplyOperationalHalt, ApplyOperationalHalt, Rules!Strip, Strip, Rules!Those, Those,
               Rules!Adjustment, Adjustment, Rules!InOrder, InOrder, Rules!Orders, Orders, Rules!Cardinality, Cardinality
<1>3. Rules!ApplyAllowlist(b, s, l) = ApplyAllowlist(b, s, l)
  BY Zenon DEF Rules!ApplyAllowlist, ApplyAllowlist, Rules!Listed, Listed, Rules!Strip, Strip,
               Rules!Those, Those, Rules!Adjustment, Adjustment, Rules!InOrder, InOrder, Rules!Orders, Orders,
               Rules!Cardinality, Cardinality
<1>4. Rules!ApplyCurrencyMismatch(b, s) = ApplyCurrencyMismatch(b, s)
  BY Zenon DEF Rules!ApplyCurrencyMismatch, ApplyCurrencyMismatch, Rules!Strip, Strip, Rules!Those, Those,
               Rules!Adjustment, Adjustment, Rules!InOrder, InOrder, Rules!Orders, Orders, Rules!Cardinality, Cardinality
<1>5. Rules!ApplyOrderCap(b, cap, r) = ApplyOrderCap(b, cap, r)
  BY Zenon DEF Rules!ApplyOrderCap, ApplyOrderCap, Rules!Strip, Strip, Rules!Those, Those,
               Rules!Adjustment, Adjustment, Rules!InOrder, InOrder, Rules!Orders, Orders, Rules!Cardinality, Cardinality
<1>6. Rules!Ration(b, r, act, budget, account, cost) = Ration(b, r, act, budget, account, cost)
  BY Zenon DEF Rules!Ration, Ration, Rules!Give, Give, Rules!Shrink, Shrink, Rules!MaxWithin, MaxWithin,
               Rules!Max, Max, Rules!Strip, Strip, Rules!Those, Those, Rules!Adjustment, Adjustment,
               Rules!InOrder, InOrder, Rules!Cardinality, Cardinality, Rules!SumSet, SumSet,
               Rules!MapThenFoldSet, MapThenFoldSet, Rules!FoldSet, FoldSet
<1>7. Rules!ExistingExposure(r, s) = ExistingExposure(r, s)
  <2>1. \A q : Rules!Valued(r, q, s) = Valued(r, q, s)
    BY Zenon DEF Rules!Valued, Valued, Rules!ExposurePrice, ExposurePrice, Rules!LotOf, LotOf,
                 Rules!SharesFor, SharesFor, Rules!NotionalOf, NotionalOf, Rules!Positive, Positive,
                 Rules!InRange, InRange, Rules!Wrapped, Wrapped, Rules!TruncDiv, TruncDiv
  <2>2. Rules!PendingLots(r, s) = PendingLots(r, s)
    BY Zenon DEF Rules!PendingLots, PendingLots, Rules!MapThenSumSet, MapThenSumSet,
                 Rules!MapThenFoldSet, MapThenFoldSet
  <2>3. \A n : Rules!InRange(n) <=> InRange(n)
    BY Zenon DEF Rules!InRange, InRange
  <2> QED BY <2>1, <2>2, <2>3 DEF Rules!ExistingExposure, ExistingExposure
<1>8. Rules!BuyNotionals(b, s) = BuyNotionals(b, s)
  BY Zenon DEF Rules!BuyNotionals, BuyNotionals, Rules!BuyNotional, BuyNotional,
               Rules!PriceForBuy, PriceForBuy, Rules!LotOf, LotOf, Rules!SharesFor, SharesFor,
               Rules!NotionalOf, NotionalOf, Rules!Positive, Positive, Rules!InRange, InRange,
               Rules!Wrapped, Wrapped, Rules!TruncDiv, TruncDiv
<1> QED BY <1>1, <1>2, <1>3, <1>4, <1>5, <1>6, <1>7, <1>8

LEMMA SamePosition ==
  ASSUME NEW b, NEW s, NEW l
  PROVE  Rules!ApplyPositionNotional(b, s, l) = ApplyPositionNotional(b, s, l)
<1> DEFINE room == [u \in Uids |-> IF ExistingExposure(u, s) = {} THEN 0 ELSE l.maxPosition - SumSet(ExistingExposure(u, s))]
           other == [u \in Uids |-> IF Rules!ExistingExposure(u, s) = {} THEN 0
                                    ELSE l.maxPosition - Rules!SumSet(Rules!ExistingExposure(u, s))]
<1>1. \A S : Rules!SumSet(S) = SumSet(S)
  BY Zenon DEF Rules!SumSet, SumSet, Rules!FoldSet, FoldSet, Rules!MapThenFoldSet, MapThenFoldSet
<1>2. \A u : Rules!ExistingExposure(u, s) = ExistingExposure(u, s)
  BY SameRules
<1>3. other = room
  BY <1>1, <1>2
<1>4. /\ Rules!ApplyPositionNotional(b, s, l) = Rules!Ration(b, "max_position_notional", "buy", other, Rules!PerInstrument(b), Rules!BuyNotionals(b, s))
      /\ ApplyPositionNotional(b, s, l) = Ration(b, "max_position_notional", "buy", room, PerInstrument(b), BuyNotionals(b, s))
  BY DEF Rules!ApplyPositionNotional, ApplyPositionNotional
<1>5. Rules!PerInstrument(b) = PerInstrument(b) /\ Rules!BuyNotionals(b, s) = BuyNotionals(b, s)
  BY SameRules DEF Rules!PerInstrument, PerInstrument
<1> HIDE DEF room, other
<1> QED BY <1>3, <1>4, <1>5, SameRules

LEMMA SameExposure ==
  ASSUME NEW b, NEW s, NEW l
  PROVE  Rules!ApplyTotalExposure(b, s, l) = ApplyTotalExposure(b, s, l)
<1> DEFINE baseline == MapThenSumSet(LAMBDA u : SumSet(ExistingExposure(u, s)), Uids)
           other == Rules!MapThenSumSet(LAMBDA u : Rules!SumSet(Rules!ExistingExposure(u, s)), Uids)
           left == IF (\E u \in Uids : ExistingExposure(u, s) = {}) \/ ~InRange(baseline) THEN 0 ELSE l.maxTotal - baseline
<1>1. \A S : Rules!SumSet(S) = SumSet(S)
  BY Zenon DEF Rules!SumSet, SumSet, Rules!FoldSet, FoldSet, Rules!MapThenFoldSet, MapThenFoldSet
<1>2. \A u : Rules!ExistingExposure(u, s) = ExistingExposure(u, s)
  BY SameRules
<1>3. other = baseline
  <2> DEFINE F(it) == it = [S \in SUBSET Uids |->
                IF S = {} THEN 0 ELSE SumSet(ExistingExposure(CHOOSE x \in S : TRUE, s)) + it[S \ {CHOOSE x \in S : TRUE}]]
             G(it) == it = [S \in SUBSET Uids |->
                IF S = {} THEN 0 ELSE Rules!SumSet(Rules!ExistingExposure(CHOOSE x \in S : TRUE, s)) + it[S \ {CHOOSE x \in S : TRUE}]]
  <2>1. baseline = (CHOOSE it : F(it))[Uids]
    BY Zenon DEF MapThenSumSet, MapThenFoldSet
  <2>2. other = (CHOOSE it : G(it))[Uids]
    BY Zenon DEF Rules!MapThenSumSet, Rules!MapThenFoldSet
  <2>3. \A it : F(it) <=> G(it)
    BY <1>1, <1>2
  <2> HIDE DEF F, G
  <2>4. (CHOOSE it : F(it)) = (CHOOSE it : G(it))
    BY <2>3, Zenon
  <2> HIDE DEF baseline, other
  <2> QED BY <2>1, <2>2, <2>4
<1>4. Rules!ApplyTotalExposure(b, s, l)
        = Rules!Ration(b, "max_total_exposure", "buy",
            Rules!Shared(IF (\E u \in Uids : Rules!ExistingExposure(u, s) = {}) \/ ~Rules!InRange(other) THEN 0
                         ELSE l.maxTotal - other), Rules!Common(b), Rules!BuyNotionals(b, s))
  BY Zenon DEF Rules!ApplyTotalExposure
<1>5. ApplyTotalExposure(b, s, l)
        = Ration(b, "max_total_exposure", "buy", Shared(left), Common(b), BuyNotionals(b, s))
  BY Zenon DEF ApplyTotalExposure
<1>6. /\ Rules!Common(b) = Common(b) /\ Rules!BuyNotionals(b, s) = BuyNotionals(b, s)
      /\ \A n : Rules!InRange(n) <=> InRange(n)
      /\ \A n : Rules!Shared(n) = Shared(n)
  BY SameRules DEF Rules!Common, Common, Rules!InRange, InRange, Rules!Shared, Shared
<1> HIDE DEF baseline, other
<1>7. (IF (\E u \in Uids : Rules!ExistingExposure(u, s) = {}) \/ ~Rules!InRange(other) THEN 0 ELSE l.maxTotal - other) = left
  BY <1>2, <1>3, <1>6
<1> HIDE DEF left
<1> QED BY <1>4, <1>5, <1>6, <1>7, SameRules

LEMMA SameMoneyRules ==
  ASSUME NEW s
  PROVE  /\ \A n, d : Rules!MulBps(n, d) = MulBps(n, d)
         /\ \A n : Rules!InRange(n) <=> InRange(n)
         /\ \A S : Rules!SumSet(S) = SumSet(S)
         /\ \A q, k, p : Rules!NotionalOf(q, k, p) = NotionalOf(q, k, p)
         /\ \A p : Rules!Padded(p, s) = Padded(p, s)
         /\ \A v : Rules!WithFee(v, s) = WithFee(v, s)
         /\ \A u : Rules!ExposurePrice(u, s) = ExposurePrice(u, s)
         /\ \A u : Rules!LotOf(u, s) = LotOf(u, s)
<1>1. \A n, d : Rules!MulBps(n, d) = MulBps(n, d)
  <2>1. \A n, d : Rules!TruncDiv(n, d) = TruncDiv(n, d) /\ Rules!TruncRem(n, d) = TruncRem(n, d)
    BY Zenon DEF Rules!TruncRem, TruncRem, Rules!TruncDiv, TruncDiv
  <2>2. \A n : Rules!AbsOf(n) = AbsOf(n)
    BY Zenon DEF Rules!AbsOf, AbsOf
  <2>3. \A n, d, m : Rules!RoundQuotient(n, d, m) = RoundQuotient(n, d, m)
    BY Zenon DEF Rules!RoundQuotient, RoundQuotient, Rules!RoundsAway, RoundsAway,
                 Rules!SignOf, SignOf, Rules!AbsOf, AbsOf
  <2> QED BY <2>1, <2>2, <2>3 DEF Rules!MulBps, MulBps, Rules!MulRat, MulRat
<1>2. \A n : Rules!InRange(n) <=> InRange(n)
  BY Zenon DEF Rules!InRange, InRange
<1>3. \A S : Rules!SumSet(S) = SumSet(S)
  BY Zenon DEF Rules!SumSet, SumSet, Rules!FoldSet, FoldSet, Rules!MapThenFoldSet, MapThenFoldSet
<1>4. \A q, k, p : Rules!NotionalOf(q, k, p) = NotionalOf(q, k, p)
  <2>1. \A q, k : Rules!SharesFor(q, k) = SharesFor(q, k)
    BY Zenon DEF Rules!SharesFor, SharesFor, Rules!Wrapped, Wrapped, Rules!TruncDiv, TruncDiv
  <2> QED BY <1>2, <2>1 DEF Rules!NotionalOf, NotionalOf
<1>5. \A p : Rules!Padded(p, s) = Padded(p, s)
  BY <1>1, <1>2 DEF Rules!Padded, Padded
<1>6. \A v : Rules!WithFee(v, s) = WithFee(v, s)
  BY <1>1, <1>2 DEF Rules!WithFee, WithFee
<1>7. \A u : Rules!ExposurePrice(u, s) = ExposurePrice(u, s) /\ Rules!LotOf(u, s) = LotOf(u, s)
  BY Zenon DEF Rules!ExposurePrice, ExposurePrice, Rules!LotOf, LotOf, Rules!Positive, Positive
<1> QED BY <1>1, <1>2, <1>3, <1>4, <1>5, <1>6, <1>7

LEMMA SameReserve ==
  ASSUME NEW s
  PROVE  Rules!ReservedPendingBuyCost(s) = ReservedPendingBuyCost(s)
<1> USE SameMoneyRules
<1>1. Rules!Pending(s) = Pending(s)
  BY Zenon DEF Rules!Pending, Pending
<1>2. \A u, b : Rules!PendingBuyPrice(u, b, s) = PendingBuyPrice(u, b, s)
  BY DEF Rules!PendingBuyPrice, PendingBuyPrice
<1>3. \A p : Rules!PendingCost(p, s) = PendingCost(p, s)
  <2> SUFFICES ASSUME NEW p PROVE Rules!PendingCost(p, s) = PendingCost(p, s)
    OBVIOUS
  <2> DEFINE b == s.buys[p[1]][p[2]]
             prices == PendingBuyPrice(p[1], b, s)
             worths == UNION {NotionalOf(b.lots, LotOf(p[1], s), price) : price \in prices}
             costs == UNION {WithFee(n, s) : n \in worths}
  <2>1. PendingCost(p, s) = IF p[1] \notin DOMAIN s.info THEN {} ELSE costs
    BY Zenon DEF PendingCost
  <2>2. worths = UNION {Rules!NotionalOf(b.lots, Rules!LotOf(p[1], s), price) : price \in Rules!PendingBuyPrice(p[1], b, s)}
    BY <1>2
  <2> HIDE DEF worths
  <2>3. costs = UNION {Rules!WithFee(n, s) : n \in worths}
    OBVIOUS
  <2>4. Rules!PendingCost(p, s) = IF p[1] \notin DOMAIN s.info THEN {} ELSE UNION {Rules!WithFee(n, s) : n \in worths}
    BY <2>2, Zenon DEF Rules!PendingCost
  <2> QED BY <2>1, <2>3, <2>4
<1> DEFINE total == MapThenSumSet(LAMBDA p : SumSet(PendingCost(p, s)), Pending(s))
           other == Rules!MapThenSumSet(LAMBDA p : Rules!SumSet(Rules!PendingCost(p, s)), Rules!Pending(s))
<1>4. other = total
  <2> DEFINE P == Pending(s)
             F(it) == it = [S \in SUBSET P |->
                IF S = {} THEN 0 ELSE SumSet(PendingCost(CHOOSE x \in S : TRUE, s)) + it[S \ {CHOOSE x \in S : TRUE}]]
             G(it) == it = [S \in SUBSET P |->
                IF S = {} THEN 0 ELSE Rules!SumSet(Rules!PendingCost(CHOOSE x \in S : TRUE, s)) + it[S \ {CHOOSE x \in S : TRUE}]]
  <2>1. total = (CHOOSE it : F(it))[P]
    BY Zenon DEF MapThenSumSet, MapThenFoldSet
  <2>2. other = Rules!MapThenSumSet(LAMBDA p : Rules!SumSet(Rules!PendingCost(p, s)), P)
    BY <1>1
  <2>3. other = (CHOOSE it : G(it))[P]
    BY <2>2, Zenon DEF Rules!MapThenSumSet, Rules!MapThenFoldSet
  <2> HIDE DEF P
  <2>4. \A it : F(it) <=> G(it)
    <3>1. \A p : Rules!SumSet(Rules!PendingCost(p, s)) = SumSet(PendingCost(p, s))
      BY <1>3
    <3>2. \A S : S # {} => Rules!SumSet(Rules!PendingCost(CHOOSE x \in S : TRUE, s)) = SumSet(PendingCost(CHOOSE x \in S : TRUE, s))
      BY <3>1, Zenon
    <3> QED BY <3>2
  <2> HIDE DEF F, G
  <2>5. (CHOOSE it : F(it)) = (CHOOSE it : G(it))
    BY <2>4, Zenon
  <2> HIDE DEF total, other
  <2> QED BY <2>1, <2>3, <2>5
<1>5. ReservedPendingBuyCost(s) = {n \in {total} : InRange(n) /\ \A p \in Pending(s) : PendingCost(p, s) # {}}
  BY Zenon DEF ReservedPendingBuyCost
<1>6. Rules!ReservedPendingBuyCost(s)
        = {n \in {other} : Rules!InRange(n) /\ \A p \in Rules!Pending(s) : Rules!PendingCost(p, s) # {}}
  BY Zenon DEF Rules!ReservedPendingBuyCost
<1> HIDE DEF total, other
<1> QED BY <1>1, <1>3, <1>4, <1>5, <1>6

LEMMA SameCash ==
  ASSUME NEW b, NEW s, NEW l
  PROVE  Rules!ApplyCashFloor(b, s, l) = ApplyCashFloor(b, s, l)
<1> USE SameMoneyRules
<1>1. \A d, p : Rules!EffectivePrice(d, p, s) = EffectivePrice(d, p, s)
  BY DEF Rules!EffectivePrice, EffectivePrice
<1>2. \A d, q : Rules!PriceForBuy(d, q) = PriceForBuy(d, q)
  BY Zenon DEF Rules!PriceForBuy, PriceForBuy, Rules!Positive, Positive
<1>3. \A d, n : Rules!CostWithFee(d, n, s) = CostWithFee(d, n, s)
  <2> SUFFICES ASSUME NEW d, NEW n PROVE Rules!CostWithFee(d, n, s) = CostWithFee(d, n, s)
    OBVIOUS
  <2> DEFINE prices == PriceForBuy(d, s.quotes[d.uid])
             worths == UNION {NotionalOf(n, LotOf(d.uid, s), EffectivePrice(d, p, s)) : p \in prices}
             costs == UNION {WithFee(v, s) : v \in worths}
  <2>1. CostWithFee(d, n, s) = IF d.uid \notin DOMAIN s.info THEN {} ELSE costs
    BY Zenon DEF CostWithFee
  <2>2. worths = UNION {Rules!NotionalOf(n, Rules!LotOf(d.uid, s), Rules!EffectivePrice(d, p, s))
                          : p \in Rules!PriceForBuy(d, s.quotes[d.uid])}
    BY <1>1, <1>2
  <2> HIDE DEF worths
  <2>3. costs = UNION {Rules!WithFee(v, s) : v \in worths}
    OBVIOUS
  <2>4. Rules!CostWithFee(d, n, s) = IF d.uid \notin DOMAIN s.info THEN {} ELSE UNION {Rules!WithFee(v, s) : v \in worths}
    BY <2>2, Zenon DEF Rules!CostWithFee
  <2> QED BY <2>1, <2>3, <2>4
<1> DEFINE cost == [i \in DOMAIN b.dec |-> [n \in 0..b.dec[i].qty |-> CostWithFee(b.dec[i], n, s)]]
           other == [i \in DOMAIN b.dec |-> [n \in 0..b.dec[i].qty |-> Rules!CostWithFee(b.dec[i], n, s)]]
           reserved == ReservedPendingBuyCost(s)
           left == IF reserved = {} THEN 0 ELSE s.cash - l.cashFloor - SumSet(reserved)
<1>4. other = cost
  BY <1>3
<1>5. ApplyCashFloor(b, s, l) = Ration(b, "cash_floor", "buy", Shared(left), Common(b), cost)
  BY Zenon DEF ApplyCashFloor
<1>6. Rules!ApplyCashFloor(b, s, l)
        = Rules!Ration(b, "cash_floor", "buy",
            Rules!Shared(IF Rules!ReservedPendingBuyCost(s) = {} THEN 0
                         ELSE s.cash - l.cashFloor - Rules!SumSet(Rules!ReservedPendingBuyCost(s))), Rules!Common(b), other)
  BY Zenon DEF Rules!ApplyCashFloor
<1>7. /\ Rules!Common(b) = Common(b) /\ \A n : Rules!Shared(n) = Shared(n)
  BY DEF Rules!Common, Common, Rules!Shared, Shared
<1> HIDE DEF cost, other
<1>8. (IF Rules!ReservedPendingBuyCost(s) = {} THEN 0
       ELSE s.cash - l.cashFloor - Rules!SumSet(Rules!ReservedPendingBuyCost(s))) = left
  BY SameReserve
<1> HIDE DEF left
<1> QED BY <1>4, <1>5, <1>6, <1>7, <1>8, SameRules

LEMMA SameOversell ==
  ASSUME NEW b, NEW s
  PROVE  Rules!ApplyOversell(b, s) = ApplyOversell(b, s)
<1> DEFINE sell == [i \in DOMAIN b.dec |-> [n \in 0..b.dec[i].qty |-> {n}]]
<1>1. ApplyOversell(b, s) = Ration(b, "oversell", "sell", Sellable(s), PerInstrument(b), sell)
  BY Zenon DEF ApplyOversell
<1>2. Rules!ApplyOversell(b, s) = Rules!Ration(b, "oversell", "sell", Rules!Sellable(s), Rules!PerInstrument(b), sell)
  BY Zenon DEF Rules!ApplyOversell
<1>3. Rules!Sellable(s) = Sellable(s) /\ Rules!PerInstrument(b) = PerInstrument(b)
  BY DEF Rules!Sellable, Sellable, Rules!PerInstrument, PerInstrument
<1> HIDE DEF sell
<1> QED BY <1>1, <1>2, <1>3, SameRules

\* The cycle's check is the one RiskProofs is about.
LEMMA SameCheck ==
  ASSUME NEW p, NEW s, NEW l
  PROVE  Rules!Check(p, s, l) = Check(p, s, l)
<1> DEFINE b0 == Batch(p)
           b1 == ApplyKillSwitch(b0, s, l)
           b2 == ApplyOperationalHalt(b1, s)
           b3 == ApplyAllowlist(b2, s, l)
           b4 == ApplyCurrencyMismatch(b3, s)
           b5 == ApplyOrderCap(b4, l.perCycle, "max_orders_per_cycle")
           b6 == ApplyOrderCap(b5, l.perDay - s.ordersToday, "max_orders_per_day")
           b7 == ApplyPositionNotional(b6, s, l)
           b8 == ApplyTotalExposure(b7, s, l)
           b9 == ApplyCashFloor(b8, s, l)
<1>1. Check(p, s, l) = ApplyOversell(b9, s)
  BY Zenon DEF Check, Sizes, Caps, Gates
<1>2. Rules!Check(p, s, l) = Rules!Sizes(Rules!Caps(Rules!Gates(Rules!Batch(p), s, l), s, l), s, l)
  BY Zenon DEF Rules!Check
<1>3. Rules!Batch(p) = b0
  BY Zenon DEF Rules!Batch, Batch
<1> HIDE DEF b0, b1, b2, b3, b4, b5, b6, b7, b8, b9
<1>4. Rules!Gates(b0, s, l) = b4
  BY SameRules DEF Rules!Gates, b1, b2, b3, b4
<1>5. Rules!Caps(b4, s, l) = b6
  BY SameRules DEF Rules!Caps, b5, b6
<1>6. Rules!Sizes(b6, s, l) = ApplyOversell(b9, s)
  BY SamePosition, SameExposure, SameCash, SameOversell DEF Rules!Sizes, b7, b8, b9
<1> QED BY <1>1, <1>2, <1>3, <1>4, <1>5, <1>6

\* The lots of the journaled orders.
LotsBy == [id \in Journaled |-> order[id].qty]

LEMMA JournaledOrders ==
  ASSUME TypeOK, NEW id \in Journaled
  PROVE  order[id] \in Order /\ id \in Ids /\ LotsBy[id] = order[id].qty /\ order[id].qty \in Nat \ {0}
<1>1. order[id] \in Order /\ id \in Ids
  BY DEF TypeOK, Journaled
<1> QED BY <1>1 DEF Order, LotsBy

LEMMA LotsAreSum ==
  ASSUME TypeOK, NEW S \in SUBSET Journaled, IsFiniteSet(S)
  PROVE  /\ MapThenSumSet(LAMBDA id : order[id].qty, S) = Total(LotsBy, S)
         /\ IntsOn(LotsBy, S) /\ Total(LotsBy, S) \in Nat
<1> DEFINE J(it) == it = [s \in SUBSET S |-> IF s = {} THEN 0
                                             ELSE order[CHOOSE x \in s : TRUE].qty + it[s \ {CHOOSE x \in s : TRUE}]]
<1>1. MapThenSumSet(LAMBDA id : order[id].qty, S) = (CHOOSE it : J(it))[S]
  BY Zenon DEF MapThenSumSet, MapThenFoldSet
<1>2. \A s \in SUBSET S : s # {} => LotsBy[OneOf(s)] = order[CHOOSE x \in s : TRUE].qty
  BY DEF OneOf, LotsBy
<1>3. \A it : J(it) <=> IsSum(it, LotsBy, S)
  BY <1>2 DEF IsSum, OneOf
<1> HIDE DEF J
<1>4. IntsOn(LotsBy, S) /\ \A id \in S : LotsBy[id] >= 0
  BY JournaledOrders DEF IntsOn
<1>5. J(CHOOSE it : J(it))
  BY <1>3, <1>4, SumExists
<1>6. Total(LotsBy, S) \in Int /\ Total(LotsBy, S) >= 0
  BY <1>4, TotalType, TotalPositive
<1> QED BY <1>1, <1>3, <1>4, <1>5, <1>6, SumIsTotal

\* What the risk check is told of an instrument.
RestingBuys(u) ==
  LET ids == SetToSeq(WorkingOf(u, "buy")) IN [k \in DOMAIN ids |-> [lots |-> order[ids[k]].qty, limit |-> order[ids[k]].limit]]
RestingSells(u) == MapThenSumSet(LAMBDA id : order[id].qty, WorkingOf(u, "sell"))

LEMMA WorkingFinite ==
  ASSUME CycleTypeOK, NEW u, NEW side
  PROVE  WorkingOf(u, side) \in SUBSET Journaled /\ IsFiniteSet(WorkingOf(u, side))
<1>1. WorkingOf(u, side) \in SUBSET Journaled
  BY DEF WorkingOf, CycleTypeOK
<1> QED BY <1>1, FS_Subset DEF CycleTypeOK, JournalFinite

LEMMA ReadsTyped ==
  ASSUME CycleTypeOK, NEW u \in Instruments
  PROVE  /\ RiskPosition(u).qty \in Nat /\ RiskPosition(u).last \in Int
         /\ RestingBuys(u) \in Seq([lots : Nat \ {0}, limit : Int])
         /\ RestingSells(u) \in Nat
         /\ cycle.view[u].ask \in Nat /\ cycle.view[u].last \in Nat
         /\ Lot[u] \in Nat \ {0}
<1>0. TypeOK
  BY DEF CycleTypeOK
<1>1. cycle.view[u].ask \in Nat /\ cycle.view[u].last \in Nat
  <2>1. cycle.view \in [Instruments -> Quote]
    BY DEF CycleTypeOK, Cycle
  <2> QED BY <2>1 DEF Quote
<1>2. RiskPosition(u).qty \in Nat /\ RiskPosition(u).last \in Int
  <2>1. pos[u].qty \in Nat /\ pos[u].avg \in Int
    BY <1>0 DEF TypeOK
  <2> QED BY <1>1, <2>1 DEF RiskPosition
<1>3. RestingBuys(u) \in Seq([lots : Nat \ {0}, limit : Int])
  <2> DEFINE S == WorkingOf(u, "buy")
             n == Cardinality(S)
             ids == SetToSeq(S)
             R == [lots : Nat \ {0}, limit : Int]
  <2>1. S \in SUBSET Journaled /\ IsFiniteSet(S)
    BY WorkingFinite
  <2>2. n \in Nat /\ ids \in [1..n -> S]
    BY <2>1, Lists
  <2> HIDE DEF n, ids, S
  <2>3. \A k \in 1..n : order[ids[k]].qty \in Nat \ {0} /\ order[ids[k]].limit \in Int
    BY <1>0, <2>1, <2>2, JournaledOrders DEF Order
  <2>4. RestingBuys(u) = [k \in 1..n |-> [lots |-> order[ids[k]].qty, limit |-> order[ids[k]].limit]]
    BY <2>2 DEF RestingBuys, S, ids
  <2>5. RestingBuys(u) \in [1..n -> R]
    BY <2>3, <2>4
  <2> HIDE DEF R
  <2>6. RestingBuys(u) \in Seq(R)
    BY <2>2, <2>5
  <2> QED BY <2>6 DEF R
<1>4. RestingSells(u) \in Nat
  BY <1>0, WorkingFinite, LotsAreSum DEF RestingSells
<1>5. Lot[u] \in Nat \ {0}
  BY TradingAssumption
<1> QED BY <1>1, <1>2, <1>3, <1>4, <1>5

LEMMA RiskStateIs ==
  /\ RiskState.halted = cycle.halted /\ RiskState.dayPnL = cycle.dayPnL /\ RiskState.ordersToday = cycle.ordersToday
  /\ RiskState.cash = cycle.cash /\ RiskState.slippage = SlippageBps /\ RiskState.quotes = cycle.view
  /\ RiskState.feeBps = MulRat(CommNum, 10000, CommDen, "halfAwayFromZero")
  /\ DOMAIN RiskState.info = Instruments
  /\ \A u \in Instruments :
       /\ RiskState.pos[u] = RiskPosition(u) /\ RiskState.buys[u] = RestingBuys(u)
       /\ RiskState.sells[u] = RestingSells(u) /\ RiskState.info[u].lot = Lot[u]
<1> DEFINE p == [u \in Instruments |-> RiskPosition(u)]
           b == [u \in Instruments |-> RestingBuys(u)]
           s == [u \in Instruments |-> RestingSells(u)]
           i == [u \in Instruments |-> [lot |-> Lot[u], currency |-> "rub", ticker |-> u]]
           f == MulRat(CommNum, 10000, CommDen, "halfAwayFromZero")
<1>1. DOMAIN RiskState.info = Instruments /\ \A u \in Instruments : RiskState.info[u].lot = Lot[u]
  <2>1. RiskState.info = [u \in Instruments |-> [lot |-> Lot[u], currency |-> "rub", ticker |-> u]]
    BY DEF RiskState
  <2> QED BY <2>1
<1>2. \A u \in Instruments : RiskState.pos[u] = RiskPosition(u)
  <2>1. RiskState.pos = [u \in Instruments |-> RiskPosition(u)]
    BY DEF RiskState
  <2> QED BY <2>1
<1>3. \A u \in Instruments : RiskState.buys[u] = RestingBuys(u)
  <2>1. RiskState.buys = [u \in Instruments |-> RestingBuys(u)]
    BY DEF RiskState, RestingBuys
  <2> QED BY <2>1
<1>4. \A u \in Instruments : RiskState.sells[u] = RestingSells(u)
  <2>1. RiskState.sells = [u \in Instruments |-> RestingSells(u)]
    BY DEF RiskState, RestingSells
  <2> QED BY <2>1
<1>5. /\ RiskState.halted = cycle.halted /\ RiskState.dayPnL = cycle.dayPnL /\ RiskState.ordersToday = cycle.ordersToday
      /\ RiskState.cash = cycle.cash /\ RiskState.slippage = SlippageBps /\ RiskState.quotes = cycle.view
      /\ RiskState.feeBps = MulRat(CommNum, 10000, CommDen, "halfAwayFromZero")
  BY DEF RiskState
<1> QED BY <1>1, <1>2, <1>3, <1>4, <1>5

LEMMA AccountTyped ==
  ASSUME CycleTypeOK
  PROVE  Rules!AccountOK
<1>1. Uids = Instruments
  BY UniverseLists
<1>2. \A u \in Uids : /\ RiskState.pos[u].qty \in Nat /\ RiskState.sells[u] \in Nat
                      /\ RiskState.buys[u] \in Seq([lots : Nat \ {0}, limit : Int])
                      /\ Rules!Mark(u) \in Int
  BY <1>1, RiskStateIs, ReadsTyped DEF Rules!Mark
<1>3. \A d \in Rules!Proposal : Rules!Quoted(d) \in Int
  <2> SUFFICES ASSUME NEW d \in Rules!Proposal PROVE Rules!Quoted(d) \in Int
    OBVIOUS
  <2>1. d.limit \in Int /\ d.uid \in Instruments
    BY <1>1 DEF Rules!Proposal
  <2> QED BY <2>1, RiskStateIs, ReadsTyped DEF Rules!Quoted
<1>4. DOMAIN RiskState.info \subseteq Uids /\ \A u \in DOMAIN RiskState.info : Rules!LotOf(u, RiskState) \in Int
  BY <1>1, RiskStateIs, ReadsTyped DEF Rules!LotOf
<1>5. RiskState.dayPnL \in Int /\ RiskState.cash \in Int /\ RiskState.ordersToday \in Nat
  BY RiskStateIs DEF CycleTypeOK, Cycle
<1>6. RiskState.slippage \in Nat /\ RiskState.feeBps \in Nat
  BY RiskStateIs, PricingAssumption, MulRatPositive
<1>7. /\ Risk.maxPosition \in Nat /\ Risk.maxTotal \in Nat /\ Risk.cashFloor \in Nat
      /\ Risk.perCycle \in Nat /\ Risk.perDay \in Nat
      /\ Risk.maxPosition <= MaxInt /\ Risk.maxTotal <= MaxInt
  BY CycleAssumption, WidthAssumption
<1> QED BY <1>2, <1>3, <1>4, <1>5, <1>6, <1>7 DEF Rules!AccountOK

-----------------------------------------------------------------------------
(* What the engine decides, and what the risk check leaves of it *)

\* A decision of the rules engine: a market order with lots to buy, or the
\* close of what is held, or nothing to do.
EngineMade(d) ==
  /\ d \in Decision /\ d.qty \in Nat /\ d.type = "market" /\ d.action \in {"buy", "close", "hold"}
  /\ d.action = "buy" => d.qty > 0

\* One for each instrument, in the order of the universe.
ActionsOK ==
  cycle.step \in {"halt", "check"} =>
    /\ cycle.actions \in [1..Len(Universe) -> Decision]
    /\ \A k \in 1..Len(Universe) : cycle.actions[k].uid = Universe[k] /\ EngineMade(cycle.actions[k])

LEMMA ProposalsMade ==
  ASSUME NEW u \in Instruments, NEW d \in Proposals(u)
  PROVE  d.uid = u /\ EngineMade(d)
<1>1. \A n \in EntrySizes : n \in Nat /\ n > 0
  BY CycleAssumption
<1>2. \/ d = EngineDecision(u, "hold", 0) \/ d = EngineDecision(u, "close", 0)
      \/ \E n \in EntrySizes : d = EngineDecision(u, "buy", n)
  BY DEF Proposals
<1> QED BY <1>1, <1>2 DEF EngineDecision, EngineMade, Decision

Verdict == Check(cycle.actions, RiskState, Risk)
Kept == InOrder(Verdict.live)

\* A decision of another quantity.
Resized(d, k) == [action |-> d.action, uid |-> d.uid, qty |-> k, type |-> d.type, limit |-> d.limit, tif |-> d.tif]

\* The live decisions of a verdict that are orders.
LiveOrders == {i \in Verdict.live : cycle.actions[i].action # "hold"}

VerdictOK ==
  /\ Verdict.live \in SUBSET (1..Len(Universe))
  /\ \A i \in 1..Len(Universe) :
       /\ Verdict.dec[i].qty \in Nat
       /\ Verdict.dec[i] = Resized(cycle.actions[i], Verdict.dec[i].qty)
  /\ \A i \in Verdict.live : Verdict.dec[i].action = "buy" => Verdict.dec[i].qty > 0
  /\ IsFiniteSet(LiveOrders) /\ Cardinality(LiveOrders) \in Nat
  /\ LiveOrders # {} => cycle.ordersToday + Cardinality(LiveOrders) <= Risk.perDay

LEMMA ProposedByEngine ==
  ASSUME ActionsOK, cycle.step = "check"
  PROVE  Rules!N = Len(Universe) /\ Rules!N \in Nat /\ Rules!Proposed(cycle.actions, Rules!N)
<1>1. /\ cycle.actions \in [1..Len(Universe) -> Decision]
      /\ \A k \in 1..Len(Universe) : cycle.actions[k].uid = Universe[k] /\ EngineMade(cycle.actions[k])
  BY DEF ActionsOK
<1> DEFINE n == Len(Universe)
<1>2. n \in Nat /\ \A j, k \in 1..n : Universe[j] = Universe[k] => j = k
  BY UniverseLists
<1> HIDE DEF n
<1>3. Len(cycle.actions) = n
  BY <1>1, <1>2 DEF n
<1>4. ASSUME NEW k \in 1..n PROVE cycle.actions[k] \in Rules!Proposal
  <2>1. cycle.actions[k] \in Decision /\ cycle.actions[k].qty \in Nat
    BY <1>1 DEF n, EngineMade
  <2>2. Uids = Instruments
    BY UniverseLists
  <2> QED BY <2>1, <2>2 DEF Decision, Rules!Proposal, Rules!Actions, Rules!OrderTypes, Rules!TimesInForce
<1>5. cycle.actions \in [1..n -> Rules!Proposal]
  BY <1>1, <1>4 DEF n
<1>6. \A k \in 1..n : cycle.actions[k].action \in {"buy", "sell"} => cycle.actions[k].qty > 0
  BY <1>1 DEF n, EngineMade
<1>7. \A j, k \in 1..n : cycle.actions[j].uid = cycle.actions[k].uid => j = k
  BY <1>1, <1>2 DEF n
<1>8. Rules!Proposed(cycle.actions, n)
  BY <1>5, <1>6, <1>7 DEF Rules!Proposed
<1> QED BY <1>2, <1>3, <1>8 DEF Rules!N, n

LEMMA VerdictIs ==
  ASSUME CycleTypeOK, ActionsOK, cycle.step = "check"
  PROVE  VerdictOK
<1> DEFINE n == Len(Universe)
           c == Verdict
           Live == {i \in c.live : c.dec[i].action \in Rules!Orders}
<1>1. n = Rules!N /\ n \in Nat /\ Rules!Proposed(cycle.actions, Rules!N)
  BY ProposedByEngine
<1>2. c = Rules!Check(cycle.actions, RiskState, Risk)
  BY SameCheck DEF Verdict
<1> HIDE DEF n, c
<1>3. /\ c.live \in SUBSET (1..n) /\ c.dec \in [1..n -> Rules!Proposal]
      /\ \A i \in 1..n : c.dec[i] = Rules!Sized(cycle.actions[i], c.dec[i].qty)
      /\ \A i \in c.live : c.dec[i].action \in {"buy", "sell"} => c.dec[i].qty > 0
      /\ Live = {} \/ Rules!Cardinality(Live) <= Risk.perDay - RiskState.ordersToday
  BY <1>1, <1>2, AccountTyped, RulesAssumed, Rules!CheckPromises
<1>4. /\ \A k \in 1..n : EngineMade(cycle.actions[k])
      /\ \A i \in 1..n : c.dec[i].qty \in Nat /\ c.dec[i] = Resized(cycle.actions[i], c.dec[i].qty)
  <2>1. \A k \in 1..n : EngineMade(cycle.actions[k])
    BY DEF n, ActionsOK
  <2>2. \A i \in 1..n : c.dec[i].qty \in Nat
    BY <1>3 DEF Rules!Proposal
  <2> QED BY <1>3, <2>1, <2>2 DEF Rules!Sized, Resized
<1>5. Live = {i \in c.live : cycle.actions[i].action # "hold"}
  <2>1. \A d, k : Resized(d, k).action = d.action
    BY DEF Resized
  <2>2. \A i \in 1..n : c.dec[i].action = cycle.actions[i].action
    BY <1>4, <2>1
  <2>3. \A i \in 1..n : cycle.actions[i].action \in {"buy", "close", "hold"}
    BY <1>4 DEF EngineMade
  <2>4. c.live \subseteq 1..n
    BY <1>3
  <2> QED BY <2>2, <2>3, <2>4 DEF Rules!Orders
<1>6. IsFiniteSet(Live)
  <2>1. IsFiniteSet(1..n)
    BY <1>1, 1 \in Int, FS_Interval
  <2>2. Live \subseteq 1..n
    BY <1>3
  <2> QED BY <2>1, <2>2, FS_Subset
<1>7. Rules!Cardinality(Live) = Cardinality(Live)
  BY Zenon DEF Rules!Cardinality, Cardinality
<1>8. Cardinality(Live) \in Nat
  BY <1>6, FS_CardinalityType
<1>9. cycle.ordersToday \in Nat /\ RiskState.ordersToday = cycle.ordersToday /\ Risk.perDay \in Nat
  BY RiskStateIs, CycleAssumption, WidthAssumption DEF CycleTypeOK, Cycle
<1>10. Live # {} => cycle.ordersToday + Cardinality(Live) <= Risk.perDay
  <2> HIDE DEF Live
  <2> QED BY <1>3, <1>7, <1>8, <1>9
<1>11. Live = LiveOrders
  BY <1>5 DEF LiveOrders, c
<1> QED BY <1>3, <1>4, <1>6, <1>8, <1>10, <1>11 DEF VerdictOK, c, n

\* The lines of the queue are made of the live decisions, each once.
LEMMA KeptIs ==
  ASSUME CycleTypeOK, ActionsOK, cycle.step = "check"
  PROVE  \E n \in Nat : /\ Kept \in [1..n -> Verdict.live]
                        /\ \A j, k \in 1..n : Kept[j] = Kept[k] => j = k
<1> DEFINE S == Verdict.live
           n == Rules!Cardinality(S)
<1>1. S \in SUBSET (1..Len(Universe)) /\ Len(Universe) \in Nat
  BY VerdictIs, UniverseLists DEF VerdictOK
<1> HIDE DEF S
<1>2. S \in SUBSET Int
  BY <1>1
<1>3. IsFiniteSet(S)
  <2>1. IsFiniteSet(1..Len(Universe))
    BY <1>1, 1 \in Int, FS_Interval
  <2> QED BY <1>1, <2>1, FS_Subset
<1>4. Rules!IsFiniteSet(S)
  BY <1>3, Zenon DEF Rules!IsFiniteSet, IsFiniteSet
<1>5. /\ Rules!InOrder(S) \in [1..n -> S] /\ n \in Nat
      /\ \A j, k \in 1..n : Rules!InOrder(S)[j] = Rules!InOrder(S)[k] => j = k
  BY <1>2, <1>4, RulesAssumed, Rules!InOrderSorts
<1>6. Rules!InOrder(S) = InOrder(S)
  BY Zenon DEF Rules!InOrder, InOrder, Rules!Cardinality, Cardinality
<1> HIDE DEF n
<1> QED BY <1>5, <1>6 DEF Kept, S

-----------------------------------------------------------------------------
(* The types of the cycle are kept *)

\* The first line of the queue becomes one order or none.
LEMMA Resolved ==
  ASSUME NEW d \in Decision, pos[d.uid].qty \in Nat
  PROVE  \/ Resolve(d) = {}
         \/ Resolve(d) = {d} /\ d.action \in {"buy", "sell"}
         \/ \E e \in Decision :
              /\ Resolve(d) = {e} /\ e.action = "sell" /\ d.action = "close"
              /\ e.qty = pos[d.uid].qty /\ e.qty > 0 /\ e.uid = d.uid /\ e.type = d.type
<1>1. PICK n \in Nat : n = pos[d.uid].qty
  OBVIOUS
<1>2. PICK e : e = [d EXCEPT !.action = "sell", !.qty = n]
  OBVIOUS
<1>3. e \in Decision /\ e.action = "sell" /\ e.qty = n /\ e.uid = d.uid /\ e.type = d.type
  <2>1. n \in Int /\ d \in Decision
    BY <1>1
  <2> QED BY <1>2, <2>1 DEF Decision
<1>4. d.action = "close" /\ n > 0 => Resolve(d) = {e}
  BY <1>1, <1>2 DEF Resolve
<1>5. d.action \in {"buy", "sell"} => Resolve(d) = {d}
  BY DEF Resolve
<1>6. d.action \notin {"buy", "sell"} /\ ~(d.action = "close" /\ n > 0) => Resolve(d) = {}
  BY <1>1 DEF Resolve
<1> QED BY <1>1, <1>3, <1>4, <1>5, <1>6

\* What BuildOrder does to the queue.
Builds ==
  LET head == Head(cycle.todo) IN
  /\ cycle.todo # <<>>
  /\ cycle'.todo = Tail(cycle.todo)
  /\ \/ cycle'.orders = cycle.orders
     \/ \E line \in Line :
          /\ cycle'.orders = Append(cycle.orders, line)
          /\ line.did = head.did /\ line.dec.uid = head.dec.uid /\ line.dec.type = head.dec.type
          /\ \/ line.dec = head.dec /\ head.dec.action \in {"buy", "sell"}
             \/ /\ line.dec.action = "sell" /\ head.dec.action = "close"
                /\ line.dec.qty = pos[head.dec.uid].qty /\ line.dec.qty > 0

LEMMA BuildEffect ==
  ASSUME CycleTypeOK, BuildOrder
  PROVE  Builds
<1> DEFINE head == Head(cycle.todo)
           new == SetToSeq({[did |-> head.did, dec |-> d] : d \in Resolve(head.dec)})
<1>1. cycle.todo # <<>> /\ cycle' = [cycle EXCEPT !.todo = Tail(@), !.orders = @ \o new]
  BY Zenon DEF BuildOrder
<1>2. cycle \in Cycle /\ cycle.todo \in Seq(Line) /\ cycle.orders \in Seq(Line)
  BY DEF CycleTypeOK, Cycle
<1>3. head \in Line
  BY <1>1, <1>2, HeadTailProperties
<1>4. head.did \in DecisionIds /\ head.dec \in Decision
  BY <1>3 DEF Line
<1> HIDE DEF head, new
<1>5. cycle'.todo = Tail(cycle.todo) /\ cycle'.orders = cycle.orders \o new
  BY <1>1, <1>2 DEF Cycle
<1>6. ASSUME Resolve(head.dec) = {} PROVE cycle'.orders = cycle.orders
  <2>1. new = <<>>
    BY <1>6, ListOfNone DEF new
  <2> QED BY <1>2, <1>5, <2>1, ConcatProperties
<1>7. ASSUME NEW d, Resolve(head.dec) = {d}
      PROVE  cycle'.orders = Append(cycle.orders, [did |-> head.did, dec |-> d])
  <2> DEFINE line == [did |-> head.did, dec |-> d]
  <2>1. {[did |-> head.did, dec |-> x] : x \in Resolve(head.dec)} = {line}
    BY <1>7
  <2> HIDE DEF line
  <2>2. new = <<line>>
    BY <2>1, ListOfOne DEF new
  <2>3. cycle.orders \o <<line>> = Append(cycle.orders, line)
    BY <1>2
  <2> QED BY <1>5, <2>2, <2>3 DEF line
<1>8. ASSUME Resolve(head.dec) = {head.dec}, head.dec.action \in {"buy", "sell"} PROVE Builds
  <2> DEFINE line == [did |-> head.did, dec |-> head.dec]
  <2>1. cycle'.orders = Append(cycle.orders, line)
    BY <1>7, <1>8
  <2>2. line \in Line /\ line.did = head.did /\ line.dec = head.dec
    BY <1>4 DEF Line
  <2> HIDE DEF line
  <2> QED BY <1>1, <1>5, <1>8, <2>1, <2>2 DEF Builds, head
<1>9. ASSUME NEW d \in Decision, Resolve(head.dec) = {d}, d.action = "sell", head.dec.action = "close",
             d.qty = pos[head.dec.uid].qty, d.qty > 0, d.uid = head.dec.uid, d.type = head.dec.type
      PROVE  Builds
  <2> DEFINE line == [did |-> head.did, dec |-> d]
  <2>1. cycle'.orders = Append(cycle.orders, line)
    BY <1>7, <1>9
  <2>2. line \in Line /\ line.did = head.did /\ line.dec = d
    BY <1>4 DEF Line
  <2> HIDE DEF line
  <2> QED BY <1>1, <1>5, <1>9, <2>1, <2>2 DEF Builds, head
<1>10. ASSUME Resolve(head.dec) = {} PROVE Builds
  BY <1>1, <1>5, <1>6, <1>10 DEF Builds
<1>11. pos[head.dec.uid].qty \in Nat
  BY <1>4 DEF CycleTypeOK, TypeOK, Decision
<1> QED BY <1>4, <1>8, <1>9, <1>10, <1>11, Resolved

\* What CheckRisk does to the queue.
Queues ==
  /\ rows' = rows + Len(Universe) /\ rows' \in 0..MaxRows
  /\ cycle'.step = "build"
  /\ \E n \in Nat :
       /\ Kept \in [1..n -> Verdict.live]
       /\ \A j, k \in 1..n : Kept[j] = Kept[k] => j = k
       /\ cycle'.todo = [k \in 1..n |-> [did |-> rows + Kept[k], dec |-> Verdict.dec[Kept[k]]]]

LEMMA CheckEffect ==
  ASSUME CycleTypeOK, ActionsOK, CheckRisk
  PROVE  Queues
<1>1. /\ cycle.step = "check" /\ rows + Len(cycle.actions) <= MaxRows /\ rows' = rows + Len(cycle.actions)
      /\ cycle' = [cycle EXCEPT !.step = "build",
                     !.todo = [k \in DOMAIN Kept |-> [did |-> rows + Kept[k], dec |-> Verdict.dec[Kept[k]]]]]
  BY Zenon DEF CheckRisk, Reads, Kept, Verdict
<1>2. Len(cycle.actions) = Len(Universe) /\ Len(Universe) \in Nat
  BY <1>1, ProposedByEngine DEF Rules!N
<1>3. PICK n \in Nat : Kept \in [1..n -> Verdict.live] /\ \A j, k \in 1..n : Kept[j] = Kept[k] => j = k
  BY <1>1, KeptIs
<1> DEFINE q == [k \in 1..n |-> [did |-> rows + Kept[k], dec |-> Verdict.dec[Kept[k]]]]
<1>4. cycle' = [cycle EXCEPT !.step = "build", !.todo = q]
  BY <1>1, <1>3
<1> HIDE DEF q
<1>5. cycle'.todo = q /\ cycle'.step = "build"
  BY <1>4 DEF CycleTypeOK, Cycle
<1>6. rows' \in 0..MaxRows
  BY <1>1, <1>2, CycleAssumption DEF CycleTypeOK
<1> QED BY <1>1, <1>2, <1>3, <1>5, <1>6 DEF Queues, q

\* A quote of the store prices an instrument.
LEMMA MarketValueType ==
  ASSUME CycleTypeOK
  PROVE  MarketValue \in Int
<1> DEFINE h == [u \in Instruments |-> pos[u].qty * Lot[u] * cycle.view[u].last]
           J(it) == it = [s \in SUBSET Instruments |->
                            IF s = {} THEN 0
                            ELSE pos[CHOOSE x \in s : TRUE].qty * Lot[CHOOSE x \in s : TRUE] * cycle.view[CHOOSE x \in s : TRUE].last
                                 + it[s \ {CHOOSE x \in s : TRUE}]]
<1>1. MarketValue = (CHOOSE it : J(it))[Instruments]
  BY Zenon DEF MarketValue, MapThenSumSet, MapThenFoldSet
<1>2. \A s \in SUBSET Instruments : s # {} =>
        h[OneOf(s)] = pos[CHOOSE x \in s : TRUE].qty * Lot[CHOOSE x \in s : TRUE] * cycle.view[CHOOSE x \in s : TRUE].last
  BY DEF OneOf
<1>3. \A it : J(it) <=> IsSum(it, h, Instruments)
  BY <1>2 DEF IsSum, OneOf
<1>4. IntsOn(h, Instruments)
  <2>1. ASSUME NEW u \in Instruments PROVE pos[u].qty * Lot[u] * cycle.view[u].last \in Int
    <3>1. pos[u].qty \in Int /\ Lot[u] \in Int /\ cycle.view[u].last \in Int
      <4>1. pos[u].qty \in Int
        BY DEF CycleTypeOK, TypeOK
      <4> QED BY <4>1, ReadsTyped
    <3> QED BY <3>1
  <2> QED BY <2>1 DEF IntsOn
<1> HIDE DEF J, h
<1>5. J(CHOOSE it : J(it)) /\ IsFiniteSet(Instruments)
  BY <1>3, <1>4, SumExists, UniverseLists
<1> QED BY <1>1, <1>3, <1>4, <1>5, SumIsTotal, TotalType

\* The count of a finite journal's orders.
LEMMA CountType ==
  ASSUME JournalFinite, NEW since
  PROVE  /\ CountSince(since) \in Nat
         /\ IsFiniteSet({id \in Journaled : order[id].createdAt >= since})
<1>1. {id \in Journaled : order[id].createdAt >= since} \subseteq Journaled
  OBVIOUS
<1> QED BY <1>1, FS_Subset, FS_CardinalityType DEF JournalFinite, CountSince

\* The queue that the risk check leaves is one of lines.
LEMMA QueuedLines ==
  ASSUME CycleTypeOK, ActionsOK, CheckRisk
  PROVE  cycle'.todo \in Seq(Line)
<1>1. cycle.step = "check"
  BY DEF CheckRisk, Reads
<1>2. rows' = rows + Len(Universe) /\ rows' \in 0..MaxRows /\ rows \in 0..MaxRows
  BY CheckEffect DEF Queues, CycleTypeOK
<1>3. PICK n \in Nat : /\ Kept \in [1..n -> Verdict.live]
                       /\ cycle'.todo = [k \in 1..n |-> [did |-> rows + Kept[k], dec |-> Verdict.dec[Kept[k]]]]
  BY CheckEffect DEF Queues
<1>4. ASSUME NEW k \in 1..n
      PROVE  [did |-> rows + Kept[k], dec |-> Verdict.dec[Kept[k]]] \in Line
  <2> DEFINE i == Kept[k]
  <2>1. i \in 1..Len(Universe) /\ Len(Universe) \in Nat
    BY <1>1, <1>3, VerdictIs, UniverseLists DEF VerdictOK
  <2>2. rows + i \in DecisionIds
    BY <1>2, <2>1, CycleAssumption
  <2>3. Verdict.dec[i] = Resized(cycle.actions[i], Verdict.dec[i].qty) /\ Verdict.dec[i].qty \in Nat
    BY <1>1, <2>1, VerdictIs DEF VerdictOK
  <2>4. cycle.actions[i] \in Decision
    BY <1>1, <2>1 DEF ActionsOK
  <2>5. Verdict.dec[i] \in Decision
    BY <2>3, <2>4 DEF Resized, Decision
  <2> HIDE DEF i
  <2> QED BY <2>2, <2>5 DEF Line, i
<1> HIDE DEF Line
<1>5. cycle'.todo \in [1..n -> Line]
  BY <1>3, <1>4
<1> QED BY <1>3, <1>5

LEMMA BuiltLines ==
  ASSUME CycleTypeOK, BuildOrder
  PROVE  cycle'.todo \in Seq(Line) /\ cycle'.orders \in Seq(Line)
<1>1. cycle.todo \in Seq(Line) /\ cycle.orders \in Seq(Line)
  BY DEF CycleTypeOK, Cycle
<1>2. /\ cycle.todo # <<>> /\ cycle'.todo = Tail(cycle.todo)
      /\ cycle'.orders = cycle.orders \/ \E line \in Line : cycle'.orders = Append(cycle.orders, line)
  BY BuildEffect DEF Builds
<1>3. cycle'.todo \in Seq(Line)
  BY <1>1, <1>2, HeadTailProperties
<1>4. \A line \in Line : Append(cycle.orders, line) \in Seq(Line)
  BY <1>1, AppendProperties
<1> HIDE DEF Line
<1> QED BY <1>1, <1>2, <1>3, <1>4

\* What a step may do to the journal: nothing, what goes on beside the cycle, or
\* the submission of the next order.
LEMMA JournalMoves ==
  ASSUME TypeOK, [CycleNext]_cycleVars
  PROVE  \/ UNCHANGED <<istate, order, pos>>
         \/ Outside
         \/ \E id \in Ids : SubmitNext(id)
<1>1. CycleSteps => UNCHANGED <<istate, order, pos>> \/ \E id \in Ids : SubmitNext(id)
  <2>1. ASSUME NEW s \in Sessions, StartCycle(s) PROVE UNCHANGED <<istate, order, pos>>
    BY <2>1 DEF StartCycle, BeginCycle, journal, ledger
  <2>2. \A step : Reads(step) => UNCHANGED <<istate, order, pos>>
    BY DEF Reads, vars, journal, ledger
  <2>3. ReadHeld \/ ReadCashAgain \/ ReadWorking \/ ReadHalt \/ CheckRisk \/ BuildOrder => UNCHANGED <<istate, order, pos>>
    BY <2>2, Zenon DEF ReadHeld, ReadCashAgain, ReadWorking, ReadHalt, CheckRisk, BuildOrder
  <2>4. ASSUME NEW view \in Views, ReadCash(view) PROVE UNCHANGED <<istate, order, pos>>
    BY <2>2, <2>4 DEF ReadCash
  <2>5. ASSUME NEW actions, Decide(actions) PROVE UNCHANGED <<istate, order, pos>>
    BY <2>2, <2>5, Zenon DEF Decide
  <2>6. StartSubmit \/ FinishCycle \/ MarkCash \/ MarkHeld => UNCHANGED <<istate, order, pos>>
    BY DEF StartSubmit, BeginSubmit, FinishCycle, EndCycle, MarkCash, MarkHeld, vars, journal, ledger
  <2> QED BY <2>1, <2>3, <2>4, <2>5, <2>6, Zenon DEF CycleSteps
<1>2. CycleCrash => UNCHANGED <<istate, order, pos>>
  BY DEF CycleCrash, Crash, journal, ledger
<1>3. Meanwhile => Outside
  BY MeanwhileEffect
<1>4. UNCHANGED cycleVars => UNCHANGED <<istate, order, pos>>
  BY DEF cycleVars, vars, journal, ledger
<1> QED BY <1>1, <1>2, <1>3, <1>4, Zenon DEF CycleNext

\* Nothing but the submission of an order adds one to the journal.
LEMMA OutsideJournal ==
  ASSUME TypeOK, Outside
  PROVE  Journaled' = Journaled /\ order' = order
<1>1. ASSUME NEW id \in Ids, NEW to \in {"filled", "rejected", "canceled"}, istate' = [istate EXCEPT ![id] = to],
             istate[id] # Absent
      PROVE  Journaled' = Journaled
  <2>1. to # Absent
    BY DEF Absent
  <2>2. \A i \in Ids : istate'[i] = IF i = id THEN to ELSE istate[i]
    BY <1>1 DEF TypeOK
  <2> QED BY <1>1, <2>1, <2>2 DEF Journaled
<1>2. ASSUME NEW id \in Ids, Settled(id) PROVE Journaled' = Journaled /\ order' = order
  <2>1. istate[id] # Absent /\ istate' = [istate EXCEPT ![id] = "filled"] /\ order' = order
    BY <1>2 DEF Settled, Absent
  <2> QED BY <1>1, <2>1
<1>3. ASSUME NEW id \in Ids, Dropped(id) PROVE Journaled' = Journaled /\ order' = order
  BY <1>1, <1>3 DEF Dropped
<1>4. UNCHANGED <<istate, order, pos>> => Journaled' = Journaled /\ order' = order
  BY DEF Journaled
<1> QED BY <1>2, <1>3, <1>4 DEF Outside

\* The order that is submitted, and its state.
LEMMA SubmitNextEffect ==
  ASSUME CycleTypeOK, NEW id \in Ids, SubmitNext(id)
  PROVE  LET head == Head(cycle.orders) IN
         /\ cycle.orders # <<>> /\ head \in Line /\ cycle'.orders = Tail(cycle.orders)
         /\ sched.call = "submit" /\ head.dec.action \in {"buy", "sell"} /\ head.dec.qty > 0
         /\ istate[id] = Absent /\ istate'[id] \in {"rejected", "acked"}
         /\ order'[id] = [decision |-> head.did, uid |-> head.dec.uid, side |-> head.dec.action, qty |-> head.dec.qty,
                          type |-> head.dec.type, limit |-> head.dec.limit, tif |-> head.dec.tif, createdAt |-> now]
         /\ \A i \in Ids \ {id} : istate'[i] = istate[i] /\ order'[i] = order[i]
         /\ UNCHANGED <<pos, sched, session, now>>
<1> DEFINE head == Head(cycle.orders)
<1>1. /\ cycle.orders # <<>> /\ SubmitOne(head.did, head.dec, id)
      /\ cycle' = [cycle EXCEPT !.orders = Tail(@)]
  BY DEF SubmitNext
<1>2. cycle.orders \in Seq(Line) /\ cycle'.orders = Tail(cycle.orders) /\ TypeOK
  BY <1>1 DEF CycleTypeOK, Cycle
<1>3. head \in Line
  BY <1>1, <1>2, HeadTailProperties
<1> HIDE DEF head
<1>4. /\ sched.call = "submit" /\ head.dec.action \in {"buy", "sell"} /\ head.dec.qty > 0
      /\ istate[id] = Absent /\ istate'[id] \in {"rejected", "acked"}
  BY <1>1, <1>2 DEF SubmitOne, Submittable, TypeOK
<1>5. order'[id] = [decision |-> head.did, uid |-> head.dec.uid, side |-> head.dec.action, qty |-> head.dec.qty,
                    type |-> head.dec.type, limit |-> head.dec.limit, tif |-> head.dec.tif, createdAt |-> now]
  BY <1>1, <1>2 DEF SubmitOne, TypeOK
<1>6. \A i \in Ids \ {id} : istate'[i] = istate[i] /\ order'[i] = order[i]
  BY <1>1, <1>2 DEF SubmitOne, TypeOK
<1>7. UNCHANGED <<pos, sched, session, now>>
  BY <1>1 DEF SubmitOne, ledger, gates
<1> QED BY <1>1, <1>2, <1>3, <1>4, <1>5, <1>6, <1>7 DEF head

LEMMA JournalGrows ==
  ASSUME CycleTypeOK, [CycleNext]_cycleVars
  PROVE  Journaled \subseteq Journaled' /\ JournalFinite'
<1>0. TypeOK /\ JournalFinite
  BY DEF CycleTypeOK
<1>1. UNCHANGED <<istate, order, pos>> \/ Outside => Journaled' = Journaled
  BY <1>0, OutsideJournal DEF Journaled
<1>2. ASSUME NEW id \in Ids, SubmitNext(id) PROVE Journaled' = Journaled \cup {id}
  <2>1. istate'[id] # Absent /\ \A i \in Ids \ {id} : istate'[i] = istate[i]
    BY <1>2, SubmitNextEffect DEF Absent
  <2> QED BY <2>1 DEF Journaled
<1>3. \A id : IsFiniteSet(Journaled \cup {id})
  BY <1>0, FS_AddElement DEF JournalFinite
<1>4. Journaled' = Journaled \/ \E id \in Ids : Journaled' = Journaled \cup {id}
  BY <1>0, <1>1, <1>2, JournalMoves
<1> QED BY <1>0, <1>3, <1>4 DEF JournalFinite

\* What a step of the cycle keeps of its types.
CycleKept ==
  /\ cycle' \in Cycle /\ cycle'.working \subseteq Journaled
  /\ rows' \in 0..MaxRows /\ equity' \in Equity

LEMMA CycleStepType ==
  ASSUME CycleTypeOK, ActionsOK, CycleSteps
  PROVE  CycleKept
<1>0. /\ cycle \in Cycle /\ cycle.working \subseteq Journaled /\ rows \in 0..MaxRows /\ equity \in Equity /\ TypeOK
  BY DEF CycleTypeOK
<1> DEFINE Restarts(step) == cycle' = [NoCycle EXCEPT !.step = step]
<1>1. \A step \in CycleStepNames : Restarts(step) => cycle' \in Cycle /\ cycle'.working \subseteq Journaled
  <2> SUFFICES ASSUME NEW step \in CycleStepNames, Restarts(step)
               PROVE  cycle' \in Cycle /\ cycle'.working \subseteq Journaled
    OBVIOUS
  <2>1. cycle' \in Cycle /\ cycle'.working = NoCycle.working
    BY NoCycleType DEF Cycle
  <2> QED BY <2>1 DEF NoCycle
<1>2. ASSUME NEW s \in Sessions, StartCycle(s) PROVE CycleKept
  BY <1>0, <1>1, <1>2 DEF StartCycle, CycleStepNames, CycleKept
<1>3. ASSUME NEW view \in Views, ReadCash(view) PROVE CycleKept
  <2>1. view \in [Instruments -> Quote] /\ cash \in Int
    BY <1>0, CycleAssumption DEF Quote, TypeOK
  <2>2. cycle' = [cycle EXCEPT !.step = "held", !.view = view, !.cash = cash] /\ UNCHANGED <<rows, equity>>
    BY <1>3 DEF ReadCash
  <2>3. cycle' \in Cycle /\ cycle'.working = cycle.working
    BY <1>0, <2>1, <2>2 DEF Cycle, CycleStepNames
  <2> QED BY <1>0, <2>2, <2>3 DEF CycleKept
<1>4. ReadHeld => CycleKept
  <2> SUFFICES ASSUME ReadHeld PROVE CycleKept
    OBVIOUS
  <2> DEFINE held == [u \in Instruments |-> pos[u].qty]
  <2>1. held \in [Instruments -> Nat]
    BY <1>0 DEF TypeOK
  <2>2. /\ \/ cycle' = [cycle EXCEPT !.step = "cash_only"]
           \/ cycle' = [cycle EXCEPT !.step = "working", !.held = held]
        /\ UNCHANGED <<rows, equity>>
    BY Zenon DEF ReadHeld
  <2> HIDE DEF held
  <2>3. cycle' \in Cycle /\ cycle'.working = cycle.working
    BY <1>0, <2>1, <2>2 DEF Cycle, CycleStepNames
  <2> QED BY <1>0, <2>2, <2>3 DEF CycleKept
<1>5. ReadCashAgain => CycleKept
  <2> SUFFICES ASSUME ReadCashAgain PROVE CycleKept
    OBVIOUS
  <2>1. cash \in Int
    BY <1>0 DEF TypeOK
  <2>2. cycle' = [cycle EXCEPT !.step = "working", !.cash = cash] /\ UNCHANGED <<rows, equity>>
    BY DEF ReadCashAgain
  <2>3. cycle' \in Cycle /\ cycle'.working = cycle.working
    BY <1>0, <2>1, <2>2 DEF Cycle, CycleStepNames
  <2> QED BY <1>0, <2>2, <2>3 DEF CycleKept
<1>6. ReadWorking => CycleKept
  <2> SUFFICES ASSUME ReadWorking PROVE CycleKept
    OBVIOUS
  <2>1. NonTerminal \in SUBSET Ids /\ NonTerminal \subseteq Journaled
    BY DEF NonTerminal, Journaled, IntentState, Absent
  <2>2. cycle' = [cycle EXCEPT !.step = "decide", !.working = NonTerminal] /\ UNCHANGED <<rows, equity>>
    BY DEF ReadWorking
  <2>3. cycle' \in Cycle /\ cycle'.working = NonTerminal
    BY <1>0, <2>1, <2>2 DEF Cycle, CycleStepNames
  <2> QED BY <1>0, <2>1, <2>2, <2>3 DEF CycleKept
<1>7. ASSUME NEW actions \in [DOMAIN Universe -> UNION {Proposals(u) : u \in Instruments}], Decide(actions)
      PROVE  CycleKept
  <2>1. actions \in Seq(Decision)
    <3>1. \A u \in Instruments : Proposals(u) \subseteq Decision
      BY ProposalsMade DEF EngineMade
    <3>2. UNION {Proposals(u) : u \in Instruments} \subseteq Decision
      BY <3>1
    <3>3. DOMAIN Universe = 1..Len(Universe) /\ Len(Universe) \in Nat
      BY UniverseLists
    <3>4. actions \in [1..Len(Universe) -> Decision]
      BY <3>2, <3>3
    <3> HIDE DEF Decision
    <3> QED BY <3>3, <3>4
  <2>2. equity' \in Equity
    <3>1. equity' = WithBaseline
      BY <1>7, Zenon DEF Decide
    <3>2. equity.of \in SUBSET Window /\ equity.base \in Int /\ equity.last \in Int /\ cash \in Int /\ sched.window \in Window
      BY <1>0 DEF Equity, TypeOK
    <3> DEFINE base == IF equity.of = {} THEN cash ELSE equity.last
    <3>3. WithBaseline = IF equity.of = {sched.window} THEN equity ELSE [of |-> {sched.window}, base |-> base, last |-> base]
      BY DEF WithBaseline
    <3>4. base \in Int
      BY <3>2
    <3> HIDE DEF base
    <3> QED BY <1>0, <3>1, <3>2, <3>3, <3>4 DEF Equity
  <2>3. DayPnL(equity') \in Int
    BY <2>2 DEF DayPnL, Equity
  <2>4. cycle' = [cycle EXCEPT !.step = "halt", !.dayPnL = DayPnL(equity'), !.actions = actions] /\ UNCHANGED rows
    BY <1>7, Zenon DEF Decide
  <2>5. cycle' \in Cycle /\ cycle'.working = cycle.working
    BY <1>0, <2>1, <2>3, <2>4 DEF Cycle, CycleStepNames
  <2> QED BY <1>0, <2>2, <2>4, <2>5 DEF CycleKept
<1>8. ReadHalt => CycleKept
  <2> SUFFICES ASSUME ReadHalt PROVE CycleKept
    OBVIOUS
  <2> DEFINE c == CountSince(sched.window.start)
  <2>1. halted \in BOOLEAN /\ c \in Nat
    BY <1>0, CountType DEF TypeOK, CycleTypeOK
  <2>2. cycle' = [cycle EXCEPT !.step = "check", !.halted = halted, !.ordersToday = c] /\ UNCHANGED <<rows, equity>>
    BY Zenon DEF ReadHalt
  <2> HIDE DEF c
  <2>3. cycle' \in Cycle /\ cycle'.working = cycle.working
    BY <1>0, <2>1, <2>2 DEF Cycle, CycleStepNames
  <2> QED BY <1>0, <2>2, <2>3 DEF CycleKept
<1>9. CheckRisk => CycleKept
  <2> SUFFICES ASSUME CheckRisk PROVE CycleKept
    OBVIOUS
  <2>1. PICK q : cycle' = [cycle EXCEPT !.step = "build", !.todo = q] /\ UNCHANGED equity
    BY Zenon DEF CheckRisk
  <2>2. cycle'.todo = q
    BY <1>0, <2>1 DEF Cycle
  <2>3. q \in Seq(Line) /\ rows' \in 0..MaxRows
    BY <2>2, QueuedLines, CheckEffect DEF Queues
  <2>4. cycle' \in Cycle /\ cycle'.working = cycle.working
    BY <1>0, <2>1, <2>3 DEF Cycle, CycleStepNames
  <2> QED BY <1>0, <2>1, <2>3, <2>4 DEF CycleKept
<1>10. BuildOrder => CycleKept
  <2> SUFFICES ASSUME BuildOrder PROVE CycleKept
    OBVIOUS
  <2>1. PICK p, q : cycle' = [cycle EXCEPT !.todo = p, !.orders = q] /\ UNCHANGED <<rows, equity>>
    BY Zenon DEF BuildOrder
  <2>2. cycle'.todo = p /\ cycle'.orders = q
    BY <1>0, <2>1 DEF Cycle
  <2>3. p \in Seq(Line) /\ q \in Seq(Line)
    BY <2>2, BuiltLines
  <2>4. cycle' \in Cycle /\ cycle'.working = cycle.working
    BY <1>0, <2>1, <2>3 DEF Cycle
  <2> QED BY <1>0, <2>1, <2>4 DEF CycleKept
<1>11. StartSubmit => CycleKept
  BY <1>0 DEF StartSubmit, CycleKept
<1>12. ASSUME NEW id \in Ids, SubmitNext(id) PROVE CycleKept
  <2>1. cycle.orders # <<>> /\ cycle' = [cycle EXCEPT !.orders = Tail(cycle.orders)] /\ UNCHANGED <<rows, equity>>
    BY <1>12 DEF SubmitNext
  <2>2. Tail(cycle.orders) \in Seq(Line)
    BY <1>0, <2>1, HeadTailProperties DEF Cycle
  <2>3. cycle' \in Cycle /\ cycle'.working = cycle.working
    BY <1>0, <2>1, <2>2 DEF Cycle
  <2> QED BY <1>0, <2>1, <2>3 DEF CycleKept
<1>13. MarkCash => CycleKept
  <2> SUFFICES ASSUME MarkCash PROVE CycleKept
    OBVIOUS
  <2>1. cash \in Int /\ cycle.view \in [Instruments -> Quote]
    BY <1>0 DEF TypeOK, Cycle
  <2>2. cycle' = [NoCycle EXCEPT !.step = "mark", !.view = cycle.view, !.cash = cash] /\ UNCHANGED <<rows, equity>>
    BY DEF MarkCash
  <2>3. cycle' \in Cycle /\ cycle'.working = NoCycle.working
    BY <2>1, <2>2, NoCycleType DEF Cycle, CycleStepNames
  <2> QED BY <1>0, <2>2, <2>3 DEF CycleKept, NoCycle
<1>14. MarkHeld => CycleKept
  <2> SUFFICES ASSUME MarkHeld PROVE CycleKept
    OBVIOUS
  <2> DEFINE total == cycle.cash + MarketValue
  <2>1. total \in Int
    BY <1>0, MarketValueType DEF Cycle
  <2>2. /\ equity' = equity \/ equity' = [equity EXCEPT !.last = total]
        /\ Restarts("done") /\ UNCHANGED rows
    BY Zenon DEF MarkHeld
  <2> HIDE DEF total
  <2>3. equity' \in Equity
    BY <1>0, <2>1, <2>2 DEF Equity
  <2> QED BY <1>0, <1>1, <2>2, <2>3 DEF CycleKept, CycleStepNames
<1>15. FinishCycle => CycleKept
  BY <1>0, NoCycleType DEF FinishCycle, CycleKept, NoCycle
<1> HIDE DEF Restarts
<1> QED BY <1>2, <1>3, <1>4, <1>5, <1>6, <1>7, <1>8, <1>9, <1>10, <1>11, <1>12, <1>13, <1>14, <1>15, Zenon DEF CycleSteps

LEMMA CycleTypeStep ==
  ASSUME CycleTypeOK, ActionsOK, [CycleNext]_cycleVars
  PROVE  CycleTypeOK'
<1>1. CycleTypeOK => /\ cycle \in Cycle /\ cycle.working \subseteq Journaled
                     /\ rows \in 0..MaxRows /\ equity \in Equity
  BY DEF CycleTypeOK
<1>2. CycleKept
  <2>1. CycleCrash => CycleKept
    BY <1>1, NoCycleType DEF CycleCrash, CycleKept, NoCycle
  <2>2. Meanwhile \/ UNCHANGED cycleVars => CycleKept
    BY <1>1 DEF Meanwhile, cycleVars, CycleKept
  <2> QED BY <2>1, <2>2, CycleStepType DEF CycleNext
<1> QED BY <1>2, PaperType, JournalGrows DEF CycleTypeOK, CycleKept

-----------------------------------------------------------------------------
(* The queue of the cycle *)

LEMMA TailIs ==
  ASSUME NEW S, NEW q \in Seq(S), q # <<>>
  PROVE  /\ Len(q) \in Nat /\ Len(Tail(q)) \in Nat /\ Len(Tail(q)) = Len(q) - 1
         /\ 1 \in 1..Len(q) /\ Head(q) = q[1]
         /\ \A k \in 1..Len(Tail(q)) : k + 1 \in 1..Len(q) /\ Tail(q)[k] = q[k + 1]
<1>1. Len(q) \in Nat /\ Len(q) # 0
  BY EmptySeq, LenProperties
<1>2. /\ Head(q) = q[1] /\ Len(Tail(q)) = Len(q) - 1
      /\ \A k \in 1..Len(Tail(q)) : Tail(q)[k] = q[k + 1]
  BY HeadTailProperties
<1> QED BY <1>1, <1>2

LEMMA AppendIs ==
  ASSUME NEW S, NEW q \in Seq(S), NEW x \in S
  PROVE  /\ Len(q) \in Nat /\ Len(Append(q, x)) = Len(q) + 1
         /\ \A k \in 1..Len(Append(q, x)) : \/ k \in 1..Len(q) /\ Append(q, x)[k] = q[k]
                                            \/ k = Len(q) + 1 /\ Append(q, x)[k] = x
<1>1. Len(q) \in Nat
  BY LenProperties
<1>2. /\ Len(Append(q, x)) = Len(q) + 1
      /\ \A i \in 1..Len(q) : Append(q, x)[i] = q[i]
      /\ Append(q, x)[Len(q) + 1] = x
  BY AppendProperties
<1> QED BY <1>1, <1>2

\* A decision that is ready to be submitted.
Ready(d) == d.qty \in Nat /\ d.qty > 0 /\ d.type = "market" /\ d.action \in {"buy", "sell"}

\* No instrument is in the queue twice.
Distinct(q) == \A j, k \in 1..Len(q) : q[j].dec.uid = q[k].dec.uid => j = k
Apart(p, q) == \A j \in 1..Len(p), k \in 1..Len(q) : p[j].dec.uid # q[k].dec.uid

QueueOK ==
  /\ cycle.step # "build" => cycle.todo = <<>> /\ cycle.orders = <<>>
  /\ \A k \in 1..Len(cycle.todo) : EngineMade(cycle.todo[k].dec)
  /\ \A k \in 1..Len(cycle.orders) : Ready(cycle.orders[k].dec)
  /\ Distinct(cycle.todo) /\ Distinct(cycle.orders) /\ Apart(cycle.todo, cycle.orders)

NoQueue == cycle'.todo = <<>> /\ cycle'.orders = <<>>

\* How a step moves the queue.
QueueMoves ==
  \/ NoQueue
  \/ cycle'.todo = cycle.todo /\ cycle'.orders = cycle.orders /\ (cycle.step # "build" \/ cycle'.step = "build")
  \/ CheckRisk /\ cycle.step = "check" /\ cycle'.step = "build" /\ cycle'.orders = cycle.orders
  \/ BuildOrder /\ cycle.step = "build" /\ cycle'.step = "build"
  \/ \E id \in Ids : SubmitNext(id) /\ cycle'.step = cycle.step /\ cycle'.todo = cycle.todo

LEMMA QueueStepIs ==
  ASSUME CycleTypeOK, [CycleNext]_cycleVars
  PROVE  QueueMoves
<1>0. cycle \in Cycle
  BY DEF CycleTypeOK
<1>1. ASSUME NEW step, cycle' = [NoCycle EXCEPT !.step = step] PROVE NoQueue
  BY <1>1 DEF NoQueue, NoCycle
<1>2. ASSUME CycleSteps PROVE QueueMoves
  <2>1. ASSUME NEW s \in Sessions, StartCycle(s) PROVE QueueMoves
    BY <1>1, <2>1 DEF StartCycle, QueueMoves
  <2>2. ASSUME NEW view \in Views, ReadCash(view) PROVE QueueMoves
    BY <1>0, <2>2 DEF ReadCash, Reads, Cycle, QueueMoves
  <2>3. ReadHeld => QueueMoves
    BY <1>0 DEF ReadHeld, Reads, Cycle, QueueMoves
  <2>4. ReadCashAgain => QueueMoves
    BY <1>0 DEF ReadCashAgain, Reads, Cycle, QueueMoves
  <2>5. ReadWorking => QueueMoves
    BY <1>0 DEF ReadWorking, Reads, Cycle, QueueMoves
  <2>6. ASSUME NEW actions, Decide(actions) PROVE QueueMoves
    <3>1. PICK p : cycle' = [cycle EXCEPT !.step = "halt", !.dayPnL = p, !.actions = actions] /\ cycle.step = "decide"
      BY <2>6, Zenon DEF Decide, Reads
    <3> QED BY <1>0, <3>1 DEF Cycle, QueueMoves
  <2>7. ReadHalt => QueueMoves
    <3> SUFFICES ASSUME ReadHalt PROVE QueueMoves
      OBVIOUS
    <3>1. PICK h, c : cycle' = [cycle EXCEPT !.step = "check", !.halted = h, !.ordersToday = c] /\ cycle.step = "halt"
      BY Zenon DEF ReadHalt, Reads
    <3> QED BY <1>0, <3>1 DEF Cycle, QueueMoves
  <2>8. CheckRisk => QueueMoves
    <3> SUFFICES ASSUME CheckRisk PROVE QueueMoves
      OBVIOUS
    <3>1. PICK q : cycle' = [cycle EXCEPT !.step = "build", !.todo = q] /\ cycle.step = "check"
      BY Zenon DEF CheckRisk, Reads
    <3>2. cycle'.step = "build" /\ cycle'.orders = cycle.orders
      BY <1>0, <3>1 DEF Cycle
    <3> QED BY <3>1, <3>2, Zenon DEF QueueMoves
  <2>9. BuildOrder => QueueMoves
    <3> SUFFICES ASSUME BuildOrder PROVE QueueMoves
      OBVIOUS
    <3>1. PICK p, q : cycle' = [cycle EXCEPT !.todo = p, !.orders = q] /\ cycle.step = "build"
      BY Zenon DEF BuildOrder, Reads
    <3>2. cycle'.step = "build"
      BY <1>0, <3>1 DEF Cycle
    <3> QED BY <3>1, <3>2, Zenon DEF QueueMoves
  <2>10. StartSubmit => QueueMoves
    BY DEF StartSubmit, QueueMoves
  <2>11. ASSUME NEW id \in Ids, SubmitNext(id) PROVE QueueMoves
    <3>1. PICK q : cycle' = [cycle EXCEPT !.orders = q]
      BY <2>11, Zenon DEF SubmitNext
    <3>2. cycle'.step = cycle.step /\ cycle'.todo = cycle.todo
      BY <1>0, <3>1 DEF Cycle
    <3> QED BY <2>11, <3>2, Zenon DEF QueueMoves
  <2>12. MarkCash => QueueMoves
    BY DEF MarkCash, NoCycle, NoQueue, QueueMoves
  <2>13. MarkHeld => QueueMoves
    BY <1>1 DEF MarkHeld, QueueMoves
  <2>14. FinishCycle => QueueMoves
    BY DEF FinishCycle, NoCycle, NoQueue, QueueMoves
  <2> QED BY <1>2, <2>1, <2>2, <2>3, <2>4, <2>5, <2>6, <2>7, <2>8, <2>9, <2>10, <2>11, <2>12, <2>13, <2>14, Zenon DEF CycleSteps
<1>3. CycleCrash => QueueMoves
  BY DEF CycleCrash, NoCycle, NoQueue, QueueMoves
<1>4. Meanwhile \/ UNCHANGED cycleVars => QueueMoves
  BY DEF Meanwhile, cycleVars, QueueMoves
<1> QED BY <1>2, <1>3, <1>4, Zenon DEF CycleNext

LEMMA QueueStep ==
  ASSUME CycleTypeOK, ActionsOK, QueueOK, [CycleNext]_cycleVars
  PROVE  QueueOK'
<1>0. /\ cycle.todo \in Seq(Line) /\ cycle.orders \in Seq(Line)
      /\ Len(cycle.todo) \in Nat /\ Len(cycle.orders) \in Nat
  BY LenProperties DEF CycleTypeOK, Cycle
<1>1. NoQueue => QueueOK'
  BY DEF NoQueue, QueueOK, Distinct, Apart
<1>2. ASSUME cycle'.todo = cycle.todo, cycle'.orders = cycle.orders, cycle.step # "build" \/ cycle'.step = "build"
      PROVE  QueueOK'
  BY <1>2 DEF QueueOK, Distinct, Apart
<1>3. ASSUME CheckRisk, cycle.step = "check", cycle'.step = "build", cycle'.orders = cycle.orders
      PROVE  QueueOK'
  <2>1. PICK n \in Nat :
          /\ Kept \in [1..n -> Verdict.live]
          /\ \A j, k \in 1..n : Kept[j] = Kept[k] => j = k
          /\ cycle'.todo = [k \in 1..n |-> [did |-> rows + Kept[k], dec |-> Verdict.dec[Kept[k]]]]
    BY <1>3, CheckEffect DEF Queues
  <2>2. Len(cycle'.todo) = n
    BY <2>1
  <2>3. ASSUME NEW k \in 1..n
        PROVE  /\ EngineMade(cycle'.todo[k].dec) /\ cycle'.todo[k].dec.uid = Universe[Kept[k]]
               /\ Kept[k] \in 1..Len(Universe)
    <3> DEFINE i == Kept[k]
    <3>1. i \in Verdict.live /\ cycle'.todo[k].dec = Verdict.dec[i]
      BY <2>1
    <3> HIDE DEF i
    <3>2. /\ i \in 1..Len(Universe) /\ Verdict.dec[i].qty \in Nat
          /\ Verdict.dec[i] = Resized(cycle.actions[i], Verdict.dec[i].qty)
          /\ Verdict.dec[i].action = "buy" => Verdict.dec[i].qty > 0
      BY <1>3, <3>1, VerdictIs DEF VerdictOK
    <3>3. cycle.actions[i].uid = Universe[i] /\ EngineMade(cycle.actions[i])
      BY <1>3, <3>2 DEF ActionsOK
    <3>4. EngineMade(Verdict.dec[i])
      BY <3>2, <3>3 DEF EngineMade, Decision, Resized
    <3>5. Verdict.dec[i].uid = Universe[i]
      BY <3>2, <3>3 DEF Resized
    <3> QED BY <3>1, <3>2, <3>4, <3>5 DEF i
  <2>4. Distinct(cycle'.todo)
    <3> SUFFICES ASSUME NEW j \in 1..n, NEW k \in 1..n, cycle'.todo[j].dec.uid = cycle'.todo[k].dec.uid
                 PROVE  j = k
      BY <2>2 DEF Distinct
    <3>1. Universe[Kept[j]] = Universe[Kept[k]] /\ Kept[j] \in 1..Len(Universe) /\ Kept[k] \in 1..Len(Universe)
      BY <2>3
    <3>2. Kept[j] = Kept[k]
      BY <3>1, UniverseLists
    <3> QED BY <2>1, <3>2
  <2>5. cycle'.orders = <<>>
    BY <1>3 DEF QueueOK
  <2>6. \A k \in 1..Len(cycle'.todo) : EngineMade(cycle'.todo[k].dec)
    BY <2>2, <2>3
  <2>7. Distinct(cycle'.orders) /\ Apart(cycle'.todo, cycle'.orders) /\ \A k \in 1..Len(cycle'.orders) : Ready(cycle'.orders[k].dec)
    BY <2>5 DEF Distinct, Apart
  <2> QED BY <1>3, <2>4, <2>6, <2>7 DEF QueueOK, Distinct, Apart
<1>4. ASSUME BuildOrder, cycle.step = "build", cycle'.step = "build"
      PROVE  QueueOK'
  <2>1. Builds
    BY <1>4, BuildEffect
  <2> DEFINE todo == cycle.todo
             orders == cycle.orders
             head == Head(todo)
  <2>2. /\ todo # <<>> /\ cycle'.todo = Tail(todo)
        /\ \A k \in 1..Len(todo) : EngineMade(todo[k].dec)
        /\ \A k \in 1..Len(orders) : Ready(orders[k].dec)
        /\ Distinct(todo) /\ Distinct(orders) /\ Apart(todo, orders)
    BY <2>1 DEF Builds, QueueOK
  <2>3. /\ Len(todo) \in Nat /\ Len(Tail(todo)) \in Nat /\ Len(Tail(todo)) = Len(todo) - 1
        /\ 1 \in 1..Len(todo) /\ head = todo[1]
        /\ \A k \in 1..Len(Tail(todo)) : k + 1 \in 1..Len(todo) /\ Tail(todo)[k] = todo[k + 1]
    BY <1>0, <2>2, TailIs
  <2>4. /\ \A k \in 1..Len(cycle'.todo) : EngineMade(cycle'.todo[k].dec) /\ cycle'.todo[k].dec.uid # head.dec.uid
        /\ Distinct(cycle'.todo) /\ Apart(cycle'.todo, orders)
    <3> HIDE DEF todo, orders, head
    <3>1. \A k \in 1..Len(Tail(todo)) : k + 1 # 1
      BY <2>3
    <3> QED BY <2>2, <2>3, <3>1 DEF Distinct, Apart
  <2>5. CASE cycle'.orders = orders
    BY <1>4, <2>2, <2>4, <2>5 DEF QueueOK, Distinct, Apart
  <2>6. ASSUME NEW line \in Line, cycle'.orders = Append(orders, line), line.dec.uid = head.dec.uid, Ready(line.dec)
        PROVE  QueueOK'
    <3> DEFINE q == Append(orders, line)
    <3>1. /\ Len(orders) \in Nat /\ Len(q) = Len(orders) + 1
          /\ \A k \in 1..Len(q) : (k \in 1..Len(orders) /\ q[k] = orders[k]) \/ (k = Len(orders) + 1 /\ q[k] = line)
      BY <1>0, AppendIs
    <3>2. \A k \in 1..Len(orders) : orders[k].dec.uid # head.dec.uid
      BY <2>2, <2>3 DEF Apart
    <3> HIDE DEF q, todo, orders, head
    <3>3. \A k \in 1..Len(q) : Ready(q[k].dec)
      BY <2>2, <2>6, <3>1
    <3>4. Distinct(q)
      BY <2>2, <2>6, <3>1, <3>2 DEF Distinct
    <3>5. Apart(cycle'.todo, q)
      BY <2>4, <2>6, <3>1 DEF Apart
    <3>6. cycle'.orders = q
      BY <2>6 DEF q
    <3> QED BY <1>4, <2>4, <3>3, <3>4, <3>5, <3>6 DEF QueueOK, Distinct, Apart
  <2>7. EngineMade(head.dec)
    BY <2>2, <2>3
  <2>8. ASSUME NEW line, line.dec = head.dec, head.dec.action \in {"buy", "sell"} PROVE Ready(line.dec)
    BY <2>7, <2>8 DEF EngineMade, Ready
  <2>9. ASSUME NEW line \in Line, line.dec.action = "sell", line.dec.type = head.dec.type,
               line.dec.qty = pos[head.dec.uid].qty, line.dec.qty > 0
        PROVE  Ready(line.dec)
    <3>1. head.dec.uid \in Instruments
      BY <2>7 DEF EngineMade, Decision
    <3>2. pos[head.dec.uid].qty \in Nat
      BY <3>1 DEF CycleTypeOK, TypeOK
    <3> QED BY <2>7, <2>9, <3>2 DEF EngineMade, Ready
  <2> QED BY <2>1, <2>5, <2>6, <2>8, <2>9 DEF Builds
<1>5. ASSUME NEW id \in Ids, SubmitNext(id), cycle'.step = cycle.step, cycle'.todo = cycle.todo PROVE QueueOK'
  <2> DEFINE orders == cycle.orders
  <2>1. orders # <<>> /\ cycle'.orders = Tail(orders) /\ cycle.step = "build"
    BY <1>5, SubmitNextEffect DEF QueueOK
  <2>2. /\ Len(orders) \in Nat /\ Len(Tail(orders)) \in Nat /\ Len(Tail(orders)) = Len(orders) - 1
        /\ \A k \in 1..Len(Tail(orders)) : k + 1 \in 1..Len(orders) /\ Tail(orders)[k] = orders[k + 1]
    BY <1>0, <2>1, TailIs
  <2>3. /\ \A k \in 1..Len(orders) : Ready(orders[k].dec)
        /\ Distinct(orders) /\ Apart(cycle.todo, orders)
    BY DEF QueueOK
  <2>4. /\ \A k \in 1..Len(cycle'.orders) : Ready(cycle'.orders[k].dec)
        /\ Distinct(cycle'.orders) /\ Apart(cycle.todo, cycle'.orders)
    <3> HIDE DEF orders
    <3> QED BY <2>1, <2>2, <2>3 DEF Distinct, Apart
  <2> QED BY <1>5, <2>1, <2>4 DEF QueueOK, Distinct, Apart
<1> QED BY <1>1, <1>2, <1>3, <1>4, <1>5, QueueStepIs DEF QueueMoves

-----------------------------------------------------------------------------
(* Which instruments the cycle has decided on *)

\* The engine has decided to trade the instrument, or the queue holds such a decision.
DecidedOn(u) ==
  cycle.step \in {"halt", "check"} /\ \E k \in 1..Len(Universe) : Universe[k] = u /\ cycle.actions[k].action # "hold"
Waiting(u) == \E k \in 1..Len(cycle.todo) : cycle.todo[k].dec.uid = u /\ cycle.todo[k].dec.action # "hold"
Readied(u) == \E k \in 1..Len(cycle.orders) : cycle.orders[k].dec.uid = u
Queued(u) == Waiting(u) \/ Readied(u)

\* How a step moves what the engine decides on.
Deciding ==
  /\ cycle'.step = "halt" /\ cycle.step = "decide" /\ cycle'.working = cycle.working
  /\ cycle'.actions \in [1..Len(Universe) -> Decision]
  /\ \A k \in 1..Len(Universe) : cycle'.actions[k] \in Proposals(Universe[k])
Reading == cycle'.step = "decide" /\ cycle'.working = NonTerminal /\ UNCHANGED <<istate, order, pos>>

EarlyMoves ==
  cycle'.step \in {"decide", "halt", "check"} =>
    \/ Reading \/ Deciding
    \/ /\ cycle.step \in {"decide", "halt", "check"} /\ cycle'.working = cycle.working /\ cycle'.actions = cycle.actions
       /\ cycle'.step \in {"halt", "check"} => cycle.step \in {"halt", "check"}

LEMMA EarlyStepIs ==
  ASSUME CycleTypeOK, QueueOK, [CycleNext]_cycleVars
  PROVE  EarlyMoves
<1>0. cycle \in Cycle
  BY DEF CycleTypeOK
<1> DEFINE Late == cycle'.step \notin {"decide", "halt", "check"}
           Same == cycle'.step = cycle.step /\ cycle'.working = cycle.working /\ cycle'.actions = cycle.actions
<1>1. Late \/ Same => EarlyMoves
  BY DEF EarlyMoves
<1>2. ASSUME CycleSteps PROVE EarlyMoves
  <2>1. ASSUME NEW s \in Sessions, StartCycle(s) PROVE Late
    BY <2>1 DEF StartCycle, NoCycle
  <2>2. ASSUME NEW view \in Views, ReadCash(view) PROVE Late
    BY <1>0, <2>2 DEF ReadCash, Cycle
  <2>3. ReadHeld => Late
    BY <1>0 DEF ReadHeld, Cycle
  <2>4. ReadCashAgain => Late
    BY <1>0 DEF ReadCashAgain, Cycle
  <2>5. ReadWorking => EarlyMoves
    BY <1>0 DEF ReadWorking, Reads, vars, journal, ledger, Cycle, EarlyMoves, Reading
  <2>6. ASSUME NEW actions \in [DOMAIN Universe -> UNION {Proposals(u) : u \in Instruments}], Decide(actions)
        PROVE  EarlyMoves
    <3>1. PICK p : cycle' = [cycle EXCEPT !.step = "halt", !.dayPnL = p, !.actions = actions] /\ cycle.step = "decide"
      BY <2>6, Zenon DEF Decide, Reads
    <3>2. \A k \in DOMAIN Universe : actions[k] \in Proposals(Universe[k])
      BY <2>6, Zenon DEF Decide
    <3>3. DOMAIN Universe = 1..Len(Universe) /\ Universe \in [1..Len(Universe) -> Instruments]
      BY UniverseLists
    <3>4. cycle'.step = "halt" /\ cycle'.working = cycle.working /\ cycle'.actions = actions
      BY <1>0, <3>1 DEF Cycle
    <3>5. \A k \in 1..Len(Universe) : actions[k] \in Decision
      BY <3>2, <3>3, ProposalsMade DEF EngineMade
    <3> HIDE DEF Decision
    <3>6. actions \in [1..Len(Universe) -> Decision]
      BY <3>3, <3>5
    <3> QED BY <3>1, <3>2, <3>3, <3>4, <3>6 DEF EarlyMoves, Deciding
  <2>7. ReadHalt => EarlyMoves
    <3> SUFFICES ASSUME ReadHalt PROVE EarlyMoves
      OBVIOUS
    <3>1. PICK h, c : cycle' = [cycle EXCEPT !.step = "check", !.halted = h, !.ordersToday = c] /\ cycle.step = "halt"
      BY Zenon DEF ReadHalt, Reads
    <3> QED BY <1>0, <3>1 DEF Cycle, EarlyMoves
  <2>8. CheckRisk => Late
    <3> SUFFICES ASSUME CheckRisk PROVE Late
      OBVIOUS
    <3>1. PICK q : cycle' = [cycle EXCEPT !.step = "build", !.todo = q]
      BY Zenon DEF CheckRisk
    <3> QED BY <1>0, <3>1 DEF Cycle
  <2>9. BuildOrder => Late
    <3> SUFFICES ASSUME BuildOrder PROVE Late
      OBVIOUS
    <3>1. PICK p, q : cycle' = [cycle EXCEPT !.todo = p, !.orders = q] /\ cycle.step = "build"
      BY Zenon DEF BuildOrder, Reads
    <3> QED BY <1>0, <3>1 DEF Cycle
  <2>10. StartSubmit => Same
    BY DEF StartSubmit
  <2>11. ASSUME NEW id \in Ids, SubmitNext(id) PROVE Same
    <3>1. PICK q : cycle' = [cycle EXCEPT !.orders = q]
      BY <2>11, Zenon DEF SubmitNext
    <3> QED BY <1>0, <3>1 DEF Cycle
  <2>12. MarkCash => Late
    BY DEF MarkCash, NoCycle
  <2>13. MarkHeld => Late
    BY DEF MarkHeld, NoCycle
  <2>14. FinishCycle => Late
    BY DEF FinishCycle, NoCycle
  <2> HIDE DEF Late, Same
  <2> QED BY <1>1, <1>2, <2>1, <2>2, <2>3, <2>4, <2>5, <2>6, <2>7, <2>8, <2>9, <2>10, <2>11, <2>12, <2>13, <2>14, Zenon DEF CycleSteps
<1>3. CycleCrash => Late
  BY DEF CycleCrash, NoCycle
<1>4. Meanwhile \/ UNCHANGED cycleVars => Same
  BY DEF Meanwhile, cycleVars
<1> HIDE DEF Late, Same
<1> QED BY <1>1, <1>2, <1>3, <1>4, Zenon DEF CycleNext

LEMMA ActionsStep ==
  ASSUME CycleTypeOK, ActionsOK, QueueOK, [CycleNext]_cycleVars
  PROVE  ActionsOK'
<1> SUFFICES ASSUME cycle'.step \in {"halt", "check"}
             PROVE  /\ cycle'.actions \in [1..Len(Universe) -> Decision]
                    /\ \A k \in 1..Len(Universe) : cycle'.actions[k].uid = Universe[k] /\ EngineMade(cycle'.actions[k])
  BY DEF ActionsOK, EngineMade
<1>1. Deciding \/ (cycle.step \in {"halt", "check"} /\ cycle'.actions = cycle.actions)
  BY EarlyStepIs DEF EarlyMoves, Reading
<1>2. CASE Deciding
  <2>1. \A k \in 1..Len(Universe) : Universe[k] \in Instruments
    BY UniverseLists
  <2> QED BY <1>2, <2>1, ProposalsMade DEF Deciding
<1>3. CASE cycle.step \in {"halt", "check"} /\ cycle'.actions = cycle.actions
  BY <1>3 DEF ActionsOK
<1> QED BY <1>1, <1>2, <1>3

\* What the check queues is an order of its verdict.
LEMMA CheckedOnes ==
  ASSUME CycleTypeOK, ActionsOK, QueueOK, CheckRisk, NEW u, Queued(u)'
  PROVE  \E i \in LiveOrders : i \in 1..Len(Universe) /\ Universe[i] = u
<1>0. cycle.step = "check" /\ cycle'.orders = cycle.orders
  <2>1. PICK q : cycle' = [cycle EXCEPT !.step = "build", !.todo = q] /\ cycle.step = "check"
    BY Zenon DEF CheckRisk, Reads
  <2> QED BY <2>1 DEF CycleTypeOK, Cycle
<1>1. PICK n \in Nat :
        /\ Kept \in [1..n -> Verdict.live]
        /\ cycle'.todo = [k \in 1..n |-> [did |-> rows + Kept[k], dec |-> Verdict.dec[Kept[k]]]]
  BY CheckEffect DEF Queues
<1>2. Len(cycle'.todo) = n /\ cycle'.orders = <<>>
  BY <1>0, <1>1 DEF QueueOK
<1>3. PICK k \in 1..n : cycle'.todo[k].dec.uid = u /\ cycle'.todo[k].dec.action # "hold"
  BY <1>2 DEF Queued, Waiting, Readied
<1>4. Verdict.dec[Kept[k]].uid = u /\ Verdict.dec[Kept[k]].action # "hold" /\ Kept[k] \in Verdict.live
  BY <1>1, <1>3
<1>5. Kept[k] \in 1..Len(Universe) /\ Verdict.dec[Kept[k]] = Resized(cycle.actions[Kept[k]], Verdict.dec[Kept[k]].qty)
  BY <1>0, <1>4, VerdictIs DEF VerdictOK
<1>6. cycle.actions[Kept[k]].uid = Universe[Kept[k]]
  BY <1>0, <1>5 DEF ActionsOK
<1> QED BY <1>4, <1>5, <1>6 DEF LiveOrders, Resized

\* The cycle queues an instrument only when it has decided on it, and once.
LEMMA QueuedStep ==
  ASSUME CycleTypeOK, ActionsOK, QueueOK, [CycleNext]_cycleVars, NEW u \in Instruments, Queued(u)'
  PROVE  /\ Queued(u) \/ (DecidedOn(u) /\ CheckRisk)
         /\ \A id \in Ids : SubmitNext(id) => u # Head(cycle.orders).dec.uid /\ Readied(Head(cycle.orders).dec.uid)
<1>0. cycle.todo \in Seq(Line) /\ cycle.orders \in Seq(Line)
  BY DEF CycleTypeOK, Cycle
<1>1. ASSUME CheckRisk, cycle.step = "check" PROVE DecidedOn(u)
  BY <1>1, CheckedOnes DEF DecidedOn, LiveOrders
<1>2. BuildOrder => Queued(u)
  <2> SUFFICES ASSUME BuildOrder PROVE Queued(u)
    OBVIOUS
  <2> DEFINE todo == cycle.todo
             orders == cycle.orders
             head == Head(todo)
  <2>1. Builds
    BY BuildEffect
  <2>2. todo # <<>> /\ cycle'.todo = Tail(todo)
    BY <2>1 DEF Builds
  <2>3. /\ 1 \in 1..Len(todo) /\ head = todo[1]
        /\ \A k \in 1..Len(Tail(todo)) : k + 1 \in 1..Len(todo) /\ Tail(todo)[k] = todo[k + 1]
    BY <1>0, <2>2, TailIs
  <2>4. Waiting(u)' => Waiting(u)
    BY <2>2, <2>3 DEF Waiting
  <2>5. CASE cycle'.orders = orders
    BY <2>4, <2>5 DEF Queued, Readied
  <2>6. ASSUME NEW line \in Line, cycle'.orders = Append(orders, line), line.dec.uid = head.dec.uid,
               head.dec.action # "hold"
        PROVE  Queued(u)
    <3>1. /\ Len(Append(orders, line)) = Len(orders) + 1
          /\ \A k \in 1..Len(Append(orders, line)) :
               (k \in 1..Len(orders) /\ Append(orders, line)[k] = orders[k]) \/ (k = Len(orders) + 1 /\ Append(orders, line)[k] = line)
      BY <1>0, AppendIs
    <3>2. Readied(u)' => Readied(u) \/ u = head.dec.uid
      BY <2>6, <3>1 DEF Readied
    <3>3. u = head.dec.uid => Waiting(u)
      BY <2>3, <2>6 DEF Waiting
    <3> QED BY <2>4, <3>2, <3>3 DEF Queued
  <2> QED BY <2>1, <2>5, <2>6 DEF Builds
<1>3. ASSUME NEW id \in Ids, SubmitNext(id), cycle'.todo = cycle.todo
      PROVE  Queued(u) /\ u # Head(cycle.orders).dec.uid /\ Readied(Head(cycle.orders).dec.uid)
  <2> DEFINE orders == cycle.orders
             v == Head(orders).dec.uid
  <2>1. orders # <<>> /\ cycle'.orders = Tail(orders)
    BY <1>3, SubmitNextEffect
  <2>2. /\ 1 \in 1..Len(orders) /\ Head(orders) = orders[1] /\ Len(Tail(orders)) \in Nat
        /\ \A k \in 1..Len(Tail(orders)) : k + 1 \in 1..Len(orders) /\ Tail(orders)[k] = orders[k + 1]
    BY <1>0, <2>1, TailIs
  <2>3. Readied(v)
    BY <2>2 DEF Readied
  <2>4. Readied(u)' => Readied(u) /\ u # v
    <3> SUFFICES ASSUME NEW k \in 1..Len(Tail(orders)), Tail(orders)[k].dec.uid = u PROVE Readied(u) /\ u # v
      BY <2>1 DEF Readied
    <3>1. k + 1 \in 1..Len(orders) /\ orders[k + 1].dec.uid = u /\ k + 1 # 1
      BY <2>2
    <3>2. u # orders[1].dec.uid
      BY <2>2, <3>1 DEF QueueOK, Distinct
    <3> QED BY <2>2, <3>1, <3>2 DEF Readied
  <2>5. Waiting(u)' => Waiting(u) /\ u # v
    <3>1. Waiting(u)' => Waiting(u)
      BY <1>3 DEF Waiting
    <3>2. Waiting(u) => u # v
      BY <2>2 DEF Waiting, QueueOK, Apart
    <3> QED BY <3>1, <3>2
  <2> QED BY <2>3, <2>4, <2>5 DEF Queued
<1>4. NoQueue => FALSE
  BY DEF NoQueue, Queued, Waiting, Readied
<1>5. cycle'.todo = cycle.todo /\ cycle'.orders = cycle.orders => Queued(u)
  BY DEF Queued, Waiting, Readied
<1>6. Queued(u) \/ (DecidedOn(u) /\ CheckRisk)
  BY <1>1, <1>2, <1>3, <1>4, <1>5, QueueStepIs DEF QueueMoves
<1>7. ASSUME NEW id \in Ids, SubmitNext(id) PROVE cycle'.todo = cycle.todo
  <2>1. PICK q : cycle' = [cycle EXCEPT !.orders = q]
    BY <1>7, Zenon DEF SubmitNext
  <2> QED BY <2>1 DEF CycleTypeOK, Cycle
<1> QED BY <1>3, <1>6, <1>7

-----------------------------------------------------------------------------
(* One working order per instrument, and no sale of what is not held *)

Acked == {id \in Ids : istate[id] = "acked"}

\* While the engine decides it knows every order that works.
WorkingInv == cycle.step \in {"decide", "halt", "check"} => Acked \subseteq cycle.working
\* It decides on no instrument that has one, nor does the queue hold one.
FreshInv == \A u \in Instruments : Queued(u) \/ DecidedOn(u) => \A id \in Acked : order[id].uid # u
OneInv == \A i, j \in Acked : order[i].uid = order[j].uid => i = j
\* What is to be sold, or about to be, is held.
HeldInv ==
  /\ \A id \in Acked : order[id].side = "sell" => order[id].qty <= pos[order[id].uid].qty
  /\ \A k \in 1..Len(cycle.orders) : LET d == cycle.orders[k].dec IN d.action = "sell" => d.qty <= pos[d.uid].qty

SoloInv == WorkingInv /\ FreshInv /\ OneInv /\ HeldInv

Solo == CycleTypeOK /\ ActionsOK /\ QueueOK /\ SoloInv

\* Beside the submission of an order, orders only stop working, and a position
\* only changes with an order of its own.
NoneAdded ==
  /\ Acked' \subseteq Acked /\ order' = order
  /\ \A u \in Instruments : pos'[u] = pos[u] \/ \E id \in Acked \ Acked' : order[id].uid = u

LEMMA AckedMoves ==
  ASSUME TypeOK, UNCHANGED <<istate, order, pos>> \/ Outside
  PROVE  NoneAdded
<1>1. UNCHANGED <<istate, order, pos>> => NoneAdded
  BY DEF NoneAdded, Acked
<1>2. ASSUME NEW id \in Ids, Settled(id) PROVE NoneAdded
  <2>1. PICK price : pos' = [pos EXCEPT ![order[id].uid] = PositionAfter(order[id], price)]
    BY <1>2 DEF Settled
  <2>2. istate[id] = "acked" /\ istate' = [istate EXCEPT ![id] = "filled"] /\ order' = order
    BY <1>2 DEF Settled
  <2>3. \A i \in Ids : istate'[i] = IF i = id THEN "filled" ELSE istate[i]
    BY <2>2 DEF TypeOK
  <2>4. \A u \in Instruments : pos'[u] = pos[u] \/ u = order[id].uid
    BY <2>1 DEF TypeOK
  <2>5. id \in Acked \ Acked' /\ Acked' \subseteq Acked
    BY <2>2, <2>3 DEF Acked
  <2> QED BY <2>2, <2>4, <2>5 DEF NoneAdded
<1>3. ASSUME NEW id \in Ids, Dropped(id) PROVE NoneAdded
  <2>1. PICK to \in {"rejected", "canceled"} : istate' = [istate EXCEPT ![id] = to] /\ order' = order /\ pos' = pos
    BY <1>3 DEF Dropped
  <2>2. \A i \in Ids : istate'[i] = IF i = id THEN to ELSE istate[i]
    BY <2>1 DEF TypeOK
  <2> QED BY <2>1, <2>2 DEF NoneAdded, Acked
<1> QED BY <1>1, <1>2, <1>3 DEF Outside

LEMMA OneAdded ==
  ASSUME CycleTypeOK, QueueOK, NEW id \in Ids, SubmitNext(id)
  PROVE  /\ Acked' \subseteq Acked \cup {id} /\ id \notin Acked
         /\ \A i \in Acked : order'[i] = order[i]
         /\ cycle.step = "build" /\ cycle'.step = "build"
         /\ order'[id].uid = Head(cycle.orders).dec.uid
         /\ Readied(Head(cycle.orders).dec.uid) /\ Head(cycle.orders).dec.uid \in Instruments
<1>1. /\ cycle.orders # <<>> /\ istate[id] = Absent /\ order'[id].uid = Head(cycle.orders).dec.uid
      /\ \A i \in Ids \ {id} : istate'[i] = istate[i] /\ order'[i] = order[i]
      /\ Head(cycle.orders).dec \in Decision
  BY SubmitNextEffect DEF Line
<1>2. Acked' \subseteq Acked \cup {id} /\ id \notin Acked /\ \A i \in Acked : order'[i] = order[i]
  BY <1>1 DEF Acked, Absent
<1>3. cycle.step = "build"
  BY <1>1 DEF QueueOK
<1>4. cycle'.step = cycle.step
  <2>1. PICK q : cycle' = [cycle EXCEPT !.orders = q]
    BY Zenon DEF SubmitNext
  <2> QED BY <2>1 DEF CycleTypeOK, Cycle
<1>5. cycle.orders \in Seq(Line)
  BY DEF CycleTypeOK, Cycle
<1>6. 1 \in 1..Len(cycle.orders) /\ Head(cycle.orders) = cycle.orders[1]
  BY <1>1, <1>5, TailIs
<1>7. Head(cycle.orders).dec.uid \in Instruments
  BY <1>1 DEF Decision
<1> QED BY <1>1, <1>2, <1>3, <1>4, <1>6, <1>7 DEF Readied

LEMMA WorkingStep ==
  ASSUME Solo, [CycleNext]_cycleVars
  PROVE  WorkingInv'
<1> SUFFICES ASSUME cycle'.step \in {"decide", "halt", "check"} PROVE Acked' \subseteq cycle'.working
  BY DEF WorkingInv
<1>0. CycleTypeOK /\ QueueOK /\ WorkingInv /\ TypeOK
  BY DEF Solo, SoloInv, CycleTypeOK
<1>1. CASE Reading
  BY <1>1 DEF Reading, Acked, NonTerminal, IntentState, Terminal
<1>2. ASSUME cycle.step \in {"decide", "halt", "check"}, cycle'.working = cycle.working PROVE Acked' \subseteq cycle'.working
  <2>1. ~\E id \in Ids : SubmitNext(id)
    BY <1>0, OneAdded
  <2>2. Acked' \subseteq Acked
    BY <1>0, <2>1, JournalMoves, AckedMoves DEF NoneAdded
  <2> QED BY <1>0, <1>2, <2>2 DEF WorkingInv
<1> QED BY <1>0, <1>1, <1>2, EarlyStepIs DEF EarlyMoves, Deciding

LEMMA DecidedStep ==
  ASSUME Solo, [CycleNext]_cycleVars, NEW u \in Instruments, DecidedOn(u)'
  PROVE  (\A id \in Acked : order[id].uid # u) /\ ~\E id \in Ids : SubmitNext(id)
<1>0. CycleTypeOK /\ QueueOK /\ WorkingInv /\ FreshInv
  BY DEF Solo, SoloInv
<1>1. cycle'.step \in {"halt", "check"}
  BY DEF DecidedOn
<1>2. PICK k \in 1..Len(Universe) : Universe[k] = u /\ cycle'.actions[k].action # "hold"
  BY DEF DecidedOn
<1>3. ~\E id \in Ids : SubmitNext(id)
  BY <1>0, <1>1, OneAdded
<1>4. CASE Deciding
  <2>1. cycle'.actions[k] \in Proposals(u)
    BY <1>2, <1>4 DEF Deciding
  <2>2. ~Working(u)
    BY <1>2, <2>1 DEF Proposals, EngineDecision
  <2> QED BY <1>0, <1>3, <1>4, <2>2 DEF Working, WorkingInv, Deciding
<1>5. CASE cycle.step \in {"halt", "check"} /\ cycle'.actions = cycle.actions
  BY <1>0, <1>2, <1>3, <1>5 DEF FreshInv, DecidedOn
<1> QED BY <1>0, <1>1, <1>4, <1>5, EarlyStepIs DEF EarlyMoves, Reading

LEMMA FreshStep ==
  ASSUME Solo, [CycleNext]_cycleVars
  PROVE  FreshInv'
<1> SUFFICES ASSUME NEW u \in Instruments, Queued(u)' \/ DecidedOn(u)', NEW id \in Acked'
             PROVE  order'[id].uid # u
  BY DEF FreshInv
<1>0. CycleTypeOK /\ ActionsOK /\ QueueOK /\ FreshInv /\ TypeOK
  BY DEF Solo, SoloInv, CycleTypeOK
<1>1. \A i \in Acked : order[i].uid # u
  BY <1>0, QueuedStep, DecidedStep DEF FreshInv
<1>2. CASE UNCHANGED <<istate, order, pos>> \/ Outside
  BY <1>0, <1>1, <1>2, AckedMoves DEF NoneAdded
<1>3. ASSUME NEW i \in Ids, SubmitNext(i) PROVE order'[id].uid # u
  <2>1. Queued(u)'
    BY <1>3, DecidedStep
  <2>2. u # Head(cycle.orders).dec.uid
    BY <1>0, <1>3, <2>1, QueuedStep
  <2>3. id \in Acked \cup {i} /\ order'[i].uid = Head(cycle.orders).dec.uid /\ \A j \in Acked : order'[j] = order[j]
    BY <1>0, <1>3, OneAdded
  <2> QED BY <1>1, <2>2, <2>3
<1> QED BY <1>0, <1>2, <1>3, JournalMoves

LEMMA OneStep ==
  ASSUME Solo, [CycleNext]_cycleVars
  PROVE  OneInv'
<1>0. CycleTypeOK /\ QueueOK /\ FreshInv /\ OneInv /\ TypeOK
  BY DEF Solo, SoloInv, CycleTypeOK
<1>1. CASE UNCHANGED <<istate, order, pos>> \/ Outside
  BY <1>0, <1>1, AckedMoves DEF NoneAdded, OneInv
<1>2. ASSUME NEW id \in Ids, SubmitNext(id) PROVE OneInv'
  <2> DEFINE u == Head(cycle.orders).dec.uid
  <2>1. /\ Acked' \subseteq Acked \cup {id} /\ \A i \in Acked : order'[i] = order[i]
        /\ order'[id].uid = u /\ Readied(u) /\ u \in Instruments
    BY <1>0, <1>2, OneAdded
  <2> HIDE DEF u
  <2>2. \A i \in Acked : order[i].uid # u
    BY <1>0, <2>1 DEF FreshInv, Queued
  <2> QED BY <1>0, <2>1, <2>2 DEF OneInv
<1> QED BY <1>0, <1>1, <1>2, JournalMoves

LEMMA HeldStep ==
  ASSUME Solo, [CycleNext]_cycleVars
  PROVE  HeldInv'
<1>0. CycleTypeOK /\ ActionsOK /\ QueueOK /\ FreshInv /\ OneInv /\ HeldInv /\ TypeOK
  BY DEF Solo, SoloInv, CycleTypeOK
<1>1. cycle.todo \in Seq(Line) /\ cycle.orders \in Seq(Line)
  BY <1>0 DEF CycleTypeOK, Cycle
<1> DEFINE SellsAcked == \A id \in Acked : order[id].side = "sell" => order[id].qty <= pos[order[id].uid].qty
           SellsQueued == \A k \in 1..Len(cycle.orders) :
                            LET d == cycle.orders[k].dec IN d.action = "sell" => d.qty <= pos[d.uid].qty
<1>2. SellsAcked /\ SellsQueued
  BY <1>0 DEF HeldInv
<1>3. \A id \in Acked : order[id].uid \in Instruments
  BY <1>0 DEF Acked, TypeOK, Order, Absent
<1>4. \A k \in 1..Len(cycle.orders) : cycle.orders[k].dec.uid \in Instruments
  <2>1. \A k \in 1..Len(cycle.orders) : cycle.orders[k] \in Line
    BY <1>1
  <2> QED BY <2>1 DEF Line, Decision
<1>5. ASSUME NoneAdded PROVE SellsAcked' /\ \A k \in 1..Len(cycle.orders) : pos'[cycle.orders[k].dec.uid] = pos[cycle.orders[k].dec.uid]
  <2>1. SellsAcked'
    <3> SUFFICES ASSUME NEW id \in Acked', order'[id].side = "sell" PROVE order'[id].qty <= pos'[order'[id].uid].qty
      OBVIOUS
    <3>1. id \in Acked /\ order' = order
      BY <1>5 DEF NoneAdded
    <3>2. pos'[order[id].uid] = pos[order[id].uid]
      BY <1>0, <1>3, <1>5, <3>1 DEF NoneAdded, OneInv
    <3> QED BY <1>2, <3>1, <3>2
  <2>2. ASSUME NEW k \in 1..Len(cycle.orders) PROVE pos'[cycle.orders[k].dec.uid] = pos[cycle.orders[k].dec.uid]
    <3> DEFINE u == cycle.orders[k].dec.uid
    <3>1. Queued(u) /\ u \in Instruments
      BY <1>4 DEF Queued, Readied
    <3>2. \A id \in Acked : order[id].uid # u
      BY <1>0, <3>1 DEF FreshInv
    <3> QED BY <1>5, <3>1, <3>2 DEF NoneAdded
  <2> QED BY <2>1, <2>2
<1>6. ASSUME UNCHANGED <<istate, order, pos>> \/ Outside PROVE NoneAdded
  BY <1>0, <1>6, AckedMoves
<1>7. ASSUME NEW id \in Ids, SubmitNext(id) PROVE SellsAcked' /\ SellsQueued'
  <2> DEFINE orders == cycle.orders
             head == Head(orders)
  <2>1. /\ orders # <<>> /\ cycle'.orders = Tail(orders) /\ pos' = pos
        /\ order'[id].uid = head.dec.uid /\ order'[id].side = head.dec.action /\ order'[id].qty = head.dec.qty
    BY <1>0, <1>7, SubmitNextEffect
  <2>2. /\ 1 \in 1..Len(orders) /\ Head(orders) = orders[1]
        /\ \A k \in 1..Len(Tail(orders)) : k + 1 \in 1..Len(orders) /\ Tail(orders)[k] = orders[k + 1]
    BY <1>1, <2>1, TailIs
  <2>3. SellsQueued'
    BY <1>2, <2>1, <2>2
  <2>4. Acked' \subseteq Acked \cup {id} /\ \A i \in Acked : order'[i] = order[i]
    BY <1>0, <1>7, OneAdded
  <2>5. head.dec.action = "sell" => head.dec.qty <= pos[head.dec.uid].qty
    BY <1>2, <2>2
  <2>6. SellsAcked'
    <3> HIDE DEF orders, head
    <3> QED BY <1>2, <2>1, <2>4, <2>5
  <2> QED BY <2>3, <2>6
<1>8. SellsAcked'
  BY <1>0, <1>5, <1>6, <1>7, JournalMoves
<1>9. SellsQueued'
  <2>1. ASSUME cycle'.orders = cycle.orders PROVE SellsQueued'
    <3>1. CASE NoneAdded
      BY <1>2, <1>5, <2>1, <3>1
    <3>2. CASE ~NoneAdded
      BY <1>0, <1>6, <1>7, <3>2, JournalMoves
    <3> QED BY <3>1, <3>2
  <2>2. cycle'.orders = <<>> => SellsQueued'
    OBVIOUS
  <2>3. BuildOrder => SellsQueued'
    <3> SUFFICES ASSUME BuildOrder, cycle'.orders # cycle.orders PROVE SellsQueued'
      BY <2>1
    <3> DEFINE orders == cycle.orders
               head == Head(cycle.todo)
    <3>1. pos' = pos
      BY DEF BuildOrder, Reads, vars, ledger
    <3>2. PICK line \in Line :
            /\ cycle'.orders = Append(orders, line) /\ line.dec.uid = head.dec.uid
            /\ line.dec = head.dec \/ (line.dec.action = "sell" /\ line.dec.qty = pos[head.dec.uid].qty)
      BY <1>0, BuildEffect DEF Builds
    <3>3. cycle.todo # <<>>
      BY <1>0, BuildEffect DEF Builds
    <3>4. head.dec.action # "sell"
      <4>1. 1 \in 1..Len(cycle.todo) /\ head = cycle.todo[1]
        BY <1>1, <3>3, TailIs
      <4> QED BY <1>0, <4>1 DEF QueueOK, EngineMade
    <3>5. line.dec.action = "sell" => line.dec.qty <= pos[line.dec.uid].qty
      <4>1. pos[line.dec.uid].qty \in Nat
        BY <1>0 DEF TypeOK, Line, Decision
      <4> QED BY <3>2, <3>4, <4>1
    <3>6. /\ Len(Append(orders, line)) = Len(orders) + 1
          /\ \A k \in 1..Len(Append(orders, line)) :
               (k \in 1..Len(orders) /\ Append(orders, line)[k] = orders[k]) \/ (k = Len(orders) + 1 /\ Append(orders, line)[k] = line)
      BY <1>1, AppendIs
    <3> QED BY <1>2, <3>1, <3>2, <3>5, <3>6
  <2> HIDE DEF SellsQueued
  <2> QED BY <1>0, <1>7, <2>1, <2>2, <2>3, QueueStepIs DEF QueueMoves, NoQueue
<1> QED BY <1>8, <1>9 DEF HeldInv

LEMMA SoloStep ==
  ASSUME Solo, [CycleNext]_cycleVars
  PROVE  Solo'
<1>1. CycleTypeOK /\ ActionsOK /\ QueueOK
  BY DEF Solo
<1>2. CycleTypeOK' /\ ActionsOK' /\ QueueOK'
  BY <1>1, CycleTypeStep, ActionsStep, QueueStep
<1> QED BY <1>2, WorkingStep, FreshStep, OneStep, HeldStep DEF Solo, SoloInv

LEMMA SoloInit == CycleInit => Solo
<1> SUFFICES ASSUME CycleInit PROVE Solo
  OBVIOUS
<1>0. Init /\ cycle = NoCycle /\ rows = 0 /\ equity = NoBaseline
  BY DEF CycleInit
<1>1. istate = OldState /\ TypeOK
  BY <1>0, TypeInit DEF Init
<1>2. JournalFinite
  BY <1>1, CycleAssumption DEF JournalFinite, Journaled
<1>3. CycleTypeOK
  BY <1>0, <1>1, <1>2, NoCycleType, CycleAssumption DEF CycleTypeOK, NoCycle, NoBaseline, Equity
<1>4. cycle.step = "none" /\ cycle.todo = <<>> /\ cycle.orders = <<>>
  BY <1>0 DEF NoCycle
<1>5. Acked = {}
  BY <1>1, JournalAssumption DEF Acked, Absent
<1>6. ActionsOK /\ QueueOK
  BY <1>4 DEF ActionsOK, QueueOK, Distinct, Apart
<1>7. SoloInv
  BY <1>4, <1>5 DEF SoloInv, WorkingInv, FreshInv, OneInv, HeldInv
<1> QED BY <1>3, <1>6, <1>7 DEF Solo

LEMMA RestingOf ==
  ASSUME Solo, NEW u \in Instruments
  PROVE  /\ IsFiniteSet(Resting(u)) /\ Resting(u) \in SUBSET Journaled
         /\ \/ Resting(u) = {} /\ Cardinality(Resting(u)) = 0
            \/ \E id \in Acked : Resting(u) = {id} /\ Cardinality(Resting(u)) = 1 /\ order[id].uid = u
<1>1. \A i, j \in Resting(u) : i = j
  BY DEF Resting, Acked, Solo, SoloInv, OneInv
<1>2. Resting(u) \subseteq Acked /\ \A id \in Resting(u) : order[id].uid = u
  BY DEF Resting, Acked
<1>3. Resting(u) \in SUBSET Journaled
  BY DEF Resting, Journaled, Absent
<1>4. CASE Resting(u) = {}
  BY <1>3, <1>4, FS_EmptySet
<1>5. ASSUME NEW id \in Resting(u)
      PROVE  Resting(u) = {id} /\ Cardinality(Resting(u)) = 1 /\ IsFiniteSet(Resting(u))
  <2>1. Resting(u) = {id}
    BY <1>1
  <2> QED BY <2>1, FS_Singleton
<1> QED BY <1>2, <1>3, <1>4, <1>5

\* The cycle's steps, reads, decisions and snapshots keep their types, for any
\* universe, limits, views and sizes of entries.
THEOREM CycleTyped == CycleSpec => []CycleTypeOK
<1>1. CycleInit => Solo
  BY SoloInit
<1>2. Solo /\ [CycleNext]_cycleVars => Solo'
  BY SoloStep
<1>3. Solo => CycleTypeOK
  BY DEF Solo
<1> QED BY <1>1, <1>2, <1>3, PTL DEF CycleSpec

\* No instrument ever has two orders working: assemble reads the open intents
\* before Decide, and only the cycle's goroutine submits, so that a decision to
\* trade still finds its instrument free when Submit journals the order, however
\* many fills, cancellations, halts and restarts come between.
THEOREM OneWorks == CycleSpec => []OneWorkingOrder
<1>1. CycleInit => Solo
  BY SoloInit
<1>2. Solo /\ [CycleNext]_cycleVars => Solo'
  BY SoloStep
<1>3. Solo => OneWorkingOrder
  BY RestingOf DEF OneWorkingOrder
<1> QED BY <1>1, <1>2, <1>3, PTL DEF CycleSpec

LEMMA SellsAreHeld ==
  ASSUME Solo
  PROVE  SellsHeld
<1> SUFFICES ASSUME NEW u \in Instruments PROVE RestingLots(u, "sell") <= pos[u].qty
  BY DEF SellsHeld
<1> DEFINE S == {id \in Resting(u) : order[id].side = "sell"}
<1>0. TypeOK /\ HeldInv /\ pos[u].qty \in Nat
  BY DEF Solo, CycleTypeOK, TypeOK, SoloInv
<1>1. S \subseteq Resting(u) /\ S \in SUBSET Journaled /\ IsFiniteSet(S)
  BY RestingOf, FS_Subset
<1>2. RestingLots(u, "sell") = MapThenSumSet(LAMBDA id : order[id].qty, S)
  BY Zenon DEF RestingLots
<1>3. MapThenSumSet(LAMBDA id : order[id].qty, S) = Total(LotsBy, S)
  BY <1>0, <1>1, LotsAreSum
<1>4. CASE S = {}
  BY <1>0, <1>2, <1>3, <1>4, TotalOfNone
<1>5. ASSUME NEW id \in S PROVE Total(LotsBy, S) <= pos[u].qty
  <2>1. S = {id} /\ id \in Acked /\ order[id].uid = u /\ order[id].side = "sell"
    BY <1>1, RestingOf DEF Acked
  <2>2. LotsBy[id] = order[id].qty /\ order[id].qty \in Nat
    BY <1>0, <1>1, JournaledOrders
  <2>3. order[id].qty <= pos[u].qty
    BY <1>0, <2>1 DEF HeldInv
  <2>4. Total(LotsBy, {id}) = LotsBy[id]
    BY <2>2, TotalOfOne
  <2> HIDE DEF S
  <2> QED BY <2>1, <2>2, <2>3, <2>4
<1> HIDE DEF S
<1> QED BY <1>2, <1>3, <1>4, <1>5

\* What rests to be sold is held: buildOrders reads the position once more, and
\* nothing but the order it builds can take from it until that order settles.
THEOREM SellsCovered == CycleSpec => []SellsHeld
<1>1. CycleInit => Solo
  BY SoloInit
<1>2. Solo /\ [CycleNext]_cycleVars => Solo'
  BY SoloStep
<1>3. Solo => SellsHeld
  BY SellsAreHeld
<1> QED BY <1>1, <1>2, <1>3, PTL DEF CycleSpec

-----------------------------------------------------------------------------
(* The cap of the day *)

InCycle == sched.call \in {"cycle", "submit"}
WindowOf == IF sched.call = "cycle" THEN sched.window ELSE session
Early == {"cash", "held", "cash_only", "working", "decide", "halt", "check"}
Since(t) == {id \in Journaled : order[id].createdAt >= t}
QueuedOnes == {u \in Instruments : Queued(u)}

\* The cycle runs inside the scheduler's call, up to its check before Submit.
CallInv ==
  /\ ~InCycle => cycle.step = "none"
  /\ cycle.step \in Early => sched.call = "cycle"
\* Its session is one of the day's, and has started.
StartedInv == InCycle => WindowOf \in Sessions /\ WindowOf.start <= now
\* The count it has read is still the count when it checks.
CountedInv == cycle.step = "check" => cycle.ordersToday = CountSince(sched.window.start)
\* The orders since the start of its session and those it has queued fit the cap.
RoomInv ==
  InCycle /\ QueuedOnes # {} => Cardinality(Since(WindowOf.start)) + Cardinality(QueuedOnes) <= Risk.perDay

CapInv == CallInv /\ StartedInv /\ CountedInv /\ RoomInv /\ DailyCapKept

\* How a step moves the scheduler's call.
CallMoves ==
  \/ UNCHANGED <<sched, session, now>>
  \/ Outside
  \/ /\ cycle'.step = "cash" /\ sched'.call = "cycle" /\ sched'.window \in Sessions
     /\ IsOpen(sched'.window, now) /\ now' = now
  \/ cycle'.step = "none" /\ sched'.call = "idle"
  \/ StartSubmit

LEMMA CallStepIs ==
  ASSUME TypeOK, [CycleNext]_cycleVars
  PROVE  CallMoves
<1>1. ASSUME NEW s \in Sessions, StartCycle(s) PROVE CallMoves
  BY <1>1 DEF StartCycle, BeginCycle, NoCycle, IdleSched, CallMoves
<1>2. \A step : Reads(step) => CallMoves
  BY DEF Reads, vars, gates, CallMoves
<1>3. \/ \E view \in Views : ReadCash(view)
      \/ ReadHeld \/ ReadCashAgain \/ ReadWorking \/ ReadHalt \/ CheckRisk \/ BuildOrder
      \/ \E actions \in [DOMAIN Universe -> UNION {Proposals(u) : u \in Instruments}] : Decide(actions)
      => CallMoves
  <2> HIDE DEF CallMoves
  <2> QED BY <1>2, Zenon DEF ReadCash, ReadHeld, ReadCashAgain, ReadWorking, ReadHalt, CheckRisk, BuildOrder, Decide
<1>4. ASSUME NEW id \in Ids, SubmitNext(id) PROVE CallMoves
  BY <1>4 DEF SubmitNext, SubmitOne, gates, CallMoves
<1>5. MarkCash \/ MarkHeld \/ UNCHANGED cycleVars => CallMoves
  <2>1. MarkCash \/ MarkHeld \/ UNCHANGED cycleVars => UNCHANGED vars
    BY DEF MarkCash, MarkHeld, cycleVars
  <2> QED BY <2>1 DEF vars, gates, CallMoves
<1>6. FinishCycle \/ CycleCrash => CallMoves
  BY DEF FinishCycle, EndCycle, CycleCrash, Crash, NoCycle, IdleSched, CallMoves
<1>7. Meanwhile => CallMoves
  BY MeanwhileEffect DEF CallMoves
<1>8. StartSubmit => CallMoves
  BY DEF CallMoves
<1> HIDE DEF CallMoves
<1> QED BY <1>1, <1>3, <1>4, <1>5, <1>6, <1>7, <1>8, Zenon DEF CycleNext, CycleSteps

\* How a step moves the cycle's step.
StepMoves ==
  \/ cycle' = cycle
  \/ sched.call = "cycle" /\ sched' = sched
  \/ cycle'.step \notin Early /\ cycle.step # "none" /\ sched' = sched
  \/ cycle'.step = "cash" /\ sched'.call = "cycle"
  \/ cycle'.step = "none"

LEMMA StepIs ==
  ASSUME CycleTypeOK, QueueOK, [CycleNext]_cycleVars
  PROVE  StepMoves
<1>1. ASSUME NEW s \in Sessions, StartCycle(s) PROVE StepMoves
  BY <1>1 DEF StartCycle, BeginCycle, NoCycle, IdleSched, StepMoves
<1>2. \A step : Reads(step) => StepMoves
  BY DEF Reads, vars, StepMoves
<1>3. \/ \E view \in Views : ReadCash(view)
      \/ ReadHeld \/ ReadCashAgain \/ ReadWorking \/ ReadHalt \/ CheckRisk \/ BuildOrder
      \/ \E actions \in [DOMAIN Universe -> UNION {Proposals(u) : u \in Instruments}] : Decide(actions)
      => StepMoves
  <2> HIDE DEF StepMoves
  <2> QED BY <1>2, Zenon DEF ReadCash, ReadHeld, ReadCashAgain, ReadWorking, ReadHalt, CheckRisk, BuildOrder, Decide
<1>4. ASSUME NEW id \in Ids, SubmitNext(id) PROVE StepMoves
  <2>1. cycle.step = "build" /\ cycle'.step = "build" /\ sched' = sched
    BY <1>4, OneAdded DEF SubmitNext, SubmitOne
  <2> QED BY <2>1 DEF StepMoves, Early
<1>5. MarkCash \/ MarkHeld => StepMoves
  <2>1. MarkCash \/ MarkHeld => UNCHANGED vars
    BY DEF MarkCash, MarkHeld
  <2>2. MarkCash => cycle.step = "build" /\ cycle'.step = "mark"
    BY DEF MarkCash, NoCycle
  <2>3. MarkHeld => cycle.step = "mark" /\ cycle'.step = "done"
    BY DEF MarkHeld, NoCycle
  <2> QED BY <2>1, <2>2, <2>3 DEF vars, StepMoves, Early
<1>6. FinishCycle \/ CycleCrash => StepMoves
  BY DEF FinishCycle, CycleCrash, NoCycle, StepMoves
<1>7. Meanwhile \/ UNCHANGED cycleVars \/ StartSubmit => StepMoves
  BY DEF Meanwhile, cycleVars, StartSubmit, StepMoves
<1> HIDE DEF StepMoves
<1> QED BY <1>1, <1>3, <1>4, <1>5, <1>6, <1>7, Zenon DEF CycleNext, CycleSteps

LEMMA CallStep ==
  ASSUME CycleTypeOK, QueueOK, CallInv, [CycleNext]_cycleVars
  PROVE  CallInv'
<1>0. TypeOK
  BY DEF CycleTypeOK
<1>1. "none" \notin Early /\ "build" \notin Early /\ "cash" # "none"
  BY DEF Early
<1>2. CASE cycle' = cycle
  <2>1. UNCHANGED sched => CallInv'
    BY <1>2 DEF CallInv, InCycle
  <2>2. Outside => CallInv'
    BY <1>0, <1>1, <1>2 DEF Outside, CallInv, InCycle, TypeOK
  <2>3. cycle'.step = "cash" /\ sched'.call = "cycle" => CallInv'
    BY DEF CallInv, InCycle
  <2>4. cycle'.step = "none" => CallInv'
    BY <1>1 DEF CallInv
  <2>5. StartSubmit => CallInv'
    <3>1. StartSubmit => cycle.step = "build" /\ sched'.call = "submit"
      BY DEF StartSubmit, BeginSubmit, IdleSched
    <3> QED BY <1>1, <1>2, <3>1 DEF CallInv, InCycle
  <2> QED BY <1>0, <2>1, <2>2, <2>3, <2>4, <2>5, CallStepIs DEF CallMoves
<1>3. CASE sched.call = "cycle" /\ sched' = sched
  BY <1>3 DEF CallInv, InCycle
<1>4. CASE cycle'.step \notin Early /\ cycle.step # "none" /\ sched' = sched
  BY <1>4 DEF CallInv, InCycle
<1>5. CASE cycle'.step = "cash" /\ sched'.call = "cycle"
  BY <1>5 DEF CallInv, InCycle
<1>6. CASE cycle'.step = "none"
  BY <1>1, <1>6 DEF CallInv
<1> QED BY <1>2, <1>3, <1>4, <1>5, <1>6, StepIs DEF StepMoves

LEMMA StartedStep ==
  ASSUME CycleTypeOK, QueueOK, CallInv, StartedInv, [CycleNext]_cycleVars
  PROVE  StartedInv'
<1>0. TypeOK /\ now \in Nat /\ \A s \in Sessions : s \in Window
  BY TradingAssumption DEF CycleTypeOK, TypeOK
<1>1. CASE UNCHANGED <<sched, session, now>>
  BY <1>1 DEF StartedInv, InCycle, WindowOf
<1>2. CASE Outside
  <2>1. InCycle' => InCycle /\ sched' = sched /\ session' = session
    BY <1>0, <1>2 DEF Outside, InCycle, TypeOK
  <2>2. InCycle' => WindowOf' = WindowOf
    BY <2>1 DEF WindowOf
  <2>3. now' \in Nat /\ now <= now'
    BY <1>2 DEF Outside
  <2>4. InCycle => WindowOf.start \in Nat /\ WindowOf \in Sessions /\ WindowOf.start <= now
    BY <1>0 DEF StartedInv, Window
  <2> QED BY <1>0, <2>1, <2>2, <2>3, <2>4 DEF StartedInv
<1>3. ASSUME cycle'.step = "cash", sched'.call = "cycle", sched'.window \in Sessions, IsOpen(sched'.window, now), now' = now
      PROVE  StartedInv'
  <2>1. WindowOf' = sched'.window
    BY <1>3 DEF WindowOf
  <2>2. sched'.window.start <= now
    BY <1>0, <1>3 DEF IsOpen, AllDay
  <2> QED BY <1>3, <2>1, <2>2 DEF StartedInv
<1>4. CASE cycle'.step = "none" /\ sched'.call = "idle"
  BY <1>4 DEF StartedInv, InCycle
<1>5. CASE StartSubmit
  <2>1. sched.call = "cycle" /\ session' = sched.window /\ sched'.call = "submit" /\ now' = now
    BY <1>5 DEF StartSubmit, BeginSubmit, IdleSched
  <2> QED BY <2>1 DEF StartedInv, InCycle, WindowOf
<1> QED BY <1>0, <1>1, <1>2, <1>3, <1>4, <1>5, CallStepIs DEF CallMoves

\* A step that does not submit adds nothing to what is counted.
LEMMA SinceKept ==
  ASSUME TypeOK, UNCHANGED <<istate, order, pos>> \/ Outside, NEW t
  PROVE  /\ Since(t)' = Since(t) /\ CountSince(t)' = CountSince(t)
         /\ \A s : OfDay(s)' = OfDay(s)
<1>1. Journaled' = Journaled /\ order' = order
  BY OutsideJournal DEF Journaled
<1> QED BY <1>1 DEF Since, CountSince, OfDay

\* The step that submits adds one order, of now.
LEMMA SinceGrows ==
  ASSUME CycleTypeOK, NEW id \in Ids, SubmitNext(id)
  PROVE  /\ Journaled' = Journaled \cup {id} /\ id \notin Journaled /\ order'[id].createdAt = now
         /\ \A i \in Journaled : order'[i] = order[i]
<1>1. /\ istate[id] = Absent /\ istate'[id] \in {"rejected", "acked"}
      /\ \A i \in Ids \ {id} : istate'[i] = istate[i] /\ order'[i] = order[i]
      /\ order'[id].createdAt = now
  BY SubmitNextEffect
<1> QED BY <1>1 DEF Journaled, Absent

LEMMA SinceType ==
  ASSUME CycleTypeOK, NEW t
  PROVE  IsFiniteSet(Since(t)) /\ Cardinality(Since(t)) \in Nat /\ CountSince(t) = Cardinality(Since(t))
<1>1. Since(t) \subseteq Journaled /\ IsFiniteSet(Journaled)
  BY DEF Since, CycleTypeOK, JournalFinite
<1> QED BY <1>1, FS_Subset, FS_CardinalityType DEF CountSince, Since

LEMMA QueuedFinite == IsFiniteSet(QueuedOnes) /\ Cardinality(QueuedOnes) \in Nat
<1>1. QueuedOnes \subseteq Instruments
  BY DEF QueuedOnes
<1> QED BY <1>1, UniverseLists, FS_Subset, FS_CardinalityType

\* How a step comes to check the orders.
CountMoves ==
  cycle'.step = "check" =>
    \/ cycle'.ordersToday = CountSince(sched.window.start) /\ UNCHANGED vars
    \/ cycle'.step = cycle.step /\ cycle'.ordersToday = cycle.ordersToday

LEMMA CountStepIs ==
  ASSUME CycleTypeOK, QueueOK, [CycleNext]_cycleVars
  PROVE  CountMoves
<1>0. cycle \in Cycle
  BY DEF CycleTypeOK
<1> DEFINE Other == cycle'.step # "check"
           Same == cycle'.step = cycle.step /\ cycle'.ordersToday = cycle.ordersToday
<1>1. Other \/ Same => CountMoves
  BY DEF CountMoves
<1>2. ASSUME NEW s \in Sessions, StartCycle(s) PROVE Other
  BY <1>2 DEF StartCycle, NoCycle
<1>3. ASSUME NEW view \in Views, ReadCash(view) PROVE Other
  BY <1>0, <1>3 DEF ReadCash, Cycle
<1>4. ReadHeld \/ ReadCashAgain \/ ReadWorking => Other
  BY <1>0 DEF ReadHeld, ReadCashAgain, ReadWorking, Cycle
<1>5. ASSUME NEW actions, Decide(actions) PROVE Other
  <2>1. PICK p : cycle' = [cycle EXCEPT !.step = "halt", !.dayPnL = p, !.actions = actions]
    BY <1>5, Zenon DEF Decide
  <2> QED BY <1>0, <2>1 DEF Cycle
<1>6. ReadHalt => CountMoves
  <2> SUFFICES ASSUME ReadHalt PROVE CountMoves
    OBVIOUS
  <2>1. PICK h, c : /\ cycle' = [cycle EXCEPT !.step = "check", !.halted = h, !.ordersToday = c]
                    /\ c = CountSince(sched.window.start) /\ UNCHANGED vars
    BY Zenon DEF ReadHalt, Reads
  <2>2. cycle'.ordersToday = c
    BY <1>0, <2>1 DEF Cycle
  <2> QED BY <2>1, <2>2, Zenon DEF CountMoves
<1>7. CheckRisk => Other
  <2> SUFFICES ASSUME CheckRisk PROVE Other
    OBVIOUS
  <2>1. PICK q : cycle' = [cycle EXCEPT !.step = "build", !.todo = q]
    BY Zenon DEF CheckRisk
  <2> QED BY <1>0, <2>1 DEF Cycle
<1>8. BuildOrder => Other
  <2> SUFFICES ASSUME BuildOrder PROVE Other
    OBVIOUS
  <2>1. PICK p, q : cycle' = [cycle EXCEPT !.todo = p, !.orders = q] /\ cycle.step = "build"
    BY Zenon DEF BuildOrder, Reads
  <2> QED BY <1>0, <2>1 DEF Cycle
<1>9. ASSUME NEW id \in Ids, SubmitNext(id) PROVE Other
  BY <1>9, OneAdded
<1>10. MarkCash \/ MarkHeld \/ FinishCycle \/ CycleCrash => Other
  <2>1. MarkCash => Other
    BY DEF MarkCash, NoCycle
  <2>2. MarkHeld => Other
    BY DEF MarkHeld, NoCycle
  <2>3. FinishCycle \/ CycleCrash => Other
    BY DEF FinishCycle, CycleCrash, NoCycle
  <2> QED BY <2>1, <2>2, <2>3
<1>11. StartSubmit \/ Meanwhile \/ UNCHANGED cycleVars => Same
  BY DEF StartSubmit, Meanwhile, cycleVars
<1> HIDE DEF Other, Same
<1> QED BY <1>1, <1>2, <1>3, <1>4, <1>5, <1>6, <1>7, <1>8, <1>9, <1>10, <1>11, Zenon DEF CycleNext, CycleSteps

LEMMA CountedStep ==
  ASSUME CycleTypeOK, QueueOK, CallInv, CountedInv, [CycleNext]_cycleVars
  PROVE  CountedInv'
<1> SUFFICES ASSUME cycle'.step = "check" PROVE cycle'.ordersToday = CountSince(sched.window.start)'
  BY DEF CountedInv
<1>0. TypeOK
  BY DEF CycleTypeOK
<1>1. ASSUME cycle'.ordersToday = CountSince(sched.window.start), UNCHANGED vars
      PROVE  cycle'.ordersToday = CountSince(sched.window.start)'
  <2>1. UNCHANGED <<istate, order, pos, sched>>
    BY <1>1 DEF vars, journal, ledger
  <2>2. CountSince(sched.window.start)' = CountSince(sched.window.start)
    BY <2>1 DEF CountSince, Journaled
  <2> QED BY <1>1, <2>2
<1>2. ASSUME cycle.step = "check", cycle'.ordersToday = cycle.ordersToday
      PROVE  cycle'.ordersToday = CountSince(sched.window.start)'
  <2>1. sched.call = "cycle"
    BY <1>2 DEF CallInv, Early
  <2>2. ~\E id \in Ids : SubmitNext(id)
    BY <1>2, OneAdded
  <2>3. \A t : CountSince(t)' = CountSince(t)
    BY <1>0, <2>2, SinceKept, JournalMoves
  <2>4. sched' = sched
    <3>1. Outside => sched' = sched
      BY <2>1 DEF Outside
    <3>2. ~StartSubmit
      BY <1>2 DEF StartSubmit
    <3> QED BY <1>0, <3>1, <3>2, CallStepIs DEF CallMoves
  <2>5. CountSince(sched.window.start)' = CountSince(sched.window.start)
    <3> DEFINE w == sched.window.start
    <3>1. Cardinality({id \in Journaled' : order'[id].createdAt >= w}) = CountSince(w)
      BY <2>3 DEF CountSince
    <3> QED BY <2>4, <3>1 DEF CountSince
  <2> QED BY <1>2, <2>5 DEF CountedInv
<1> QED BY <1>1, <1>2, CountStepIs DEF CountMoves

\* A cycle that holds orders back keeps its session.
LEMMA WindowStays ==
  ASSUME CycleTypeOK, ActionsOK, QueueOK, CallInv, [CycleNext]_cycleVars, QueueOK', InCycle', QueuedOnes' # {}
  PROVE  InCycle /\ WindowOf' = WindowOf /\ cycle'.step = "build"
<1>0. TypeOK
  BY DEF CycleTypeOK
<1>1. PICK u \in Instruments : Queued(u)'
  BY DEF QueuedOnes
<1>2. cycle'.step = "build"
  BY <1>1 DEF QueueOK, Queued, Waiting, Readied
<1>3. cycle.step # "none"
  <2>1. Queued(u) \/ DecidedOn(u)
    BY <1>1, QueuedStep
  <2>2. Queued(u) => cycle.step = "build"
    BY DEF QueueOK, Queued, Waiting, Readied
  <2> QED BY <2>1, <2>2 DEF DecidedOn
<1>4. InCycle
  BY <1>3 DEF CallInv
<1>5. CASE UNCHANGED <<sched, session, now>>
  BY <1>2, <1>4, <1>5 DEF WindowOf
<1>6. CASE Outside
  BY <1>2, <1>4, <1>6 DEF Outside, InCycle, WindowOf
<1>7. CASE StartSubmit
  BY <1>2, <1>4, <1>7 DEF StartSubmit, BeginSubmit, IdleSched, WindowOf
<1> QED BY <1>0, <1>2, <1>5, <1>6, <1>7, CallStepIs DEF CallMoves

LEMMA RoomStep ==
  ASSUME CycleTypeOK, ActionsOK, QueueOK, CallInv, CountedInv, RoomInv, [CycleNext]_cycleVars, QueueOK'
  PROVE  RoomInv'
<1> SUFFICES ASSUME InCycle', QueuedOnes' # {}
             PROVE  Cardinality(Since(WindowOf.start)') + Cardinality(QueuedOnes') <= Risk.perDay
  BY DEF RoomInv
<1>0. TypeOK
  BY DEF CycleTypeOK
<1>1. InCycle /\ WindowOf' = WindowOf /\ cycle'.step = "build"
  BY WindowStays
<1> DEFINE t == WindowOf.start
           S == Since(t)
<1>2. IsFiniteSet(S) /\ Cardinality(S) \in Nat /\ CountSince(t) = Cardinality(S)
  BY SinceType
<1>3. IsFiniteSet(QueuedOnes) /\ Cardinality(QueuedOnes) \in Nat
  BY QueuedFinite
<1>4. Risk.perDay \in Nat
  BY CycleAssumption, WidthAssumption
<1>5. IsFiniteSet(QueuedOnes') /\ Cardinality(QueuedOnes') \in Nat
  <2>1. QueuedOnes' \subseteq Instruments
    BY DEF QueuedOnes
  <2> QED BY <2>1, UniverseLists, FS_Subset, FS_CardinalityType
<1>6. \A t1, t2 : t1 = t2 => {id \in Journaled' : order'[id].createdAt >= t1} = {id \in Journaled' : order'[id].createdAt >= t2}
  OBVIOUS
<1>7. Since(WindowOf.start)' = {id \in Journaled' : order'[id].createdAt >= t}
  BY <1>1 DEF Since
<1>8. ASSUME NEW id \in Ids, SubmitNext(id)
      PROVE  Cardinality(Since(WindowOf.start)') + Cardinality(QueuedOnes') <= Risk.perDay
  <2> DEFINE v == Head(cycle.orders).dec.uid
  <2>1. v \in QueuedOnes
    BY <1>8, OneAdded DEF QueuedOnes, Queued
  <2>2. QueuedOnes' \subseteq QueuedOnes \ {v}
    <3>1. ASSUME NEW u \in Instruments, Queued(u)' PROVE Queued(u) /\ u # v
      <4>1. CheckRisk => FALSE
        BY <1>8, OneAdded DEF CheckRisk, Reads
      <4> QED BY <1>8, <3>1, <4>1, QueuedStep
    <3> HIDE DEF v
    <3> QED BY <3>1 DEF QueuedOnes
  <2> HIDE DEF v
  <2>3. IsFiniteSet(QueuedOnes \ {v}) /\ Cardinality(QueuedOnes \ {v}) = Cardinality(QueuedOnes) - 1
    BY <1>3, <2>1, FS_RemoveElement
  <2>4. Cardinality(QueuedOnes') <= Cardinality(QueuedOnes) - 1
    BY <2>2, <2>3, FS_Subset
  <2>5. Since(WindowOf.start)' \subseteq S \cup {id}
    BY <1>7, <1>8, SinceGrows DEF Since
  <2>6. IsFiniteSet(S \cup {id}) /\ Cardinality(S \cup {id}) <= Cardinality(S) + 1 /\ Cardinality(S \cup {id}) \in Nat
    <3> HIDE DEF S
    <3>1. IsFiniteSet(S \cup {id})
      BY <1>2, FS_AddElement
    <3>2. Cardinality(S \cup {id}) = Cardinality(S) \/ Cardinality(S \cup {id}) = Cardinality(S) + 1
      BY <1>2, FS_AddElement, Zenon
    <3> QED BY <1>2, <3>1, <3>2
  <2>7. Cardinality(Since(WindowOf.start)') <= Cardinality(S) + 1 /\ Cardinality(Since(WindowOf.start)') \in Nat
    <3> DEFINE T == Since(WindowOf.start)'
    <3>1. T \subseteq S \cup {id}
      BY <2>5
    <3> HIDE DEF T, S
    <3>2. IsFiniteSet(T) /\ Cardinality(T) <= Cardinality(S \cup {id}) /\ Cardinality(T) \in Nat
      BY <2>6, <3>1, FS_Subset, FS_CardinalityType
    <3>3. Cardinality(T) <= Cardinality(S) + 1
      BY <1>2, <2>6, <3>2
    <3> QED BY <3>2, <3>3 DEF T
  <2>8. Cardinality(S) + Cardinality(QueuedOnes) <= Risk.perDay
    BY <1>1, <2>1 DEF RoomInv
  <2> HIDE DEF S
  <2> QED BY <1>2, <1>3, <1>4, <1>5, <2>4, <2>7, <2>8
<1>9. ASSUME ~\E id \in Ids : SubmitNext(id) PROVE Since(WindowOf.start)' = S
  <2>1. \A x : Since(x)' = Since(x)
    BY <1>0, <1>9, JournalMoves, SinceKept
  <2>2. {id \in Journaled' : order'[id].createdAt >= t} = Since(t)
    <3>1. \A x : {id \in Journaled' : order'[id].createdAt >= x} = Since(x)
      BY <2>1 DEF Since
    <3> HIDE DEF t
    <3> QED BY <3>1
  <2> QED BY <1>7, <2>2
<1>10. ASSUME ~(\E id \in Ids : SubmitNext(id)), QueuedOnes' \subseteq QueuedOnes
       PROVE  Cardinality(Since(WindowOf.start)') + Cardinality(QueuedOnes') <= Risk.perDay
  <2>1. Cardinality(QueuedOnes') <= Cardinality(QueuedOnes)
    BY <1>3, <1>10, FS_Subset
  <2>2. Cardinality(S) + Cardinality(QueuedOnes) <= Risk.perDay
    BY <1>1, <1>10 DEF RoomInv
  <2>3. Since(WindowOf.start)' = S
    BY <1>9, <1>10
  <2> HIDE DEF S
  <2> QED BY <1>2, <1>3, <1>4, <1>5, <2>1, <2>2, <2>3
<1>11. ASSUME ~(\E id \in Ids : SubmitNext(id)), CheckRisk
       PROVE  Cardinality(Since(WindowOf.start)') + Cardinality(QueuedOnes') <= Risk.perDay
  <2>1. cycle.step = "check" /\ sched.call = "cycle"
    BY <1>11 DEF CheckRisk, Reads
  <2>2. cycle.ordersToday = Cardinality(S)
    BY <1>2, <2>1 DEF CountedInv, WindowOf
  <2>3. /\ IsFiniteSet(LiveOrders) /\ Cardinality(LiveOrders) \in Nat
        /\ LiveOrders # {} => cycle.ordersToday + Cardinality(LiveOrders) <= Risk.perDay
    BY <2>1, VerdictIs DEF VerdictOK
  <2>4. \A u \in QueuedOnes' : \E i \in LiveOrders : Universe[i] = u
    BY <1>11, CheckedOnes DEF QueuedOnes
  <2> DEFINE T == {Universe[i] : i \in LiveOrders}
             f == [i \in LiveOrders |-> Universe[i]]
  <2>5. QueuedOnes' \subseteq T
    BY <2>4
  <2>6. f \in Surjection(LiveOrders, T)
    BY DEF Surjection
  <2> HIDE DEF f, T
  <2>7. IsFiniteSet(T) /\ Cardinality(T) <= Cardinality(LiveOrders) /\ Cardinality(T) \in Nat
    BY <2>3, <2>6, FS_Surjection, FS_CardinalityType
  <2>8. Cardinality(QueuedOnes') <= Cardinality(T)
    BY <2>5, <2>7, FS_Subset
  <2>9. LiveOrders # {}
    BY <2>4
  <2>10. Since(WindowOf.start)' = S
    BY <1>9, <1>11
  <2> HIDE DEF S
  <2> QED BY <1>2, <1>4, <1>5, <2>2, <2>3, <2>7, <2>8, <2>9, <2>10
<1>12. QueuedOnes' \subseteq QueuedOnes \/ CheckRisk
  BY QueuedStep DEF QueuedOnes
<1> QED BY <1>8, <1>10, <1>11, <1>12

LEMMA DailyStep ==
  ASSUME CycleTypeOK, QueueOK, StartedInv, RoomInv, DailyCapKept, [CycleNext]_cycleVars
  PROVE  DailyCapKept'
<1> SUFFICES ASSUME NEW s \in Sessions PROVE Cardinality(OfDay(s)') <= Risk.perDay
  BY DEF DailyCapKept
<1>0. TypeOK /\ Risk.perDay \in Nat /\ now \in Nat /\ \A x \in Sessions : x.start \in Nat
  <2>1. TypeOK /\ now \in Nat
    BY DEF CycleTypeOK, TypeOK
  <2>2. Risk.perDay \in Nat
    BY CycleAssumption, WidthAssumption
  <2>3. \A x \in Sessions : x.start \in Nat
    BY TradingAssumption DEF Window
  <2> QED BY <2>1, <2>2, <2>3
<1>1. CASE UNCHANGED <<istate, order, pos>> \/ Outside
  BY <1>0, <1>1, SinceKept DEF DailyCapKept
<1>2. ASSUME NEW id \in Ids, SubmitNext(id) PROVE Cardinality(OfDay(s)') <= Risk.perDay
  <2> DEFINE S == Since(WindowOf.start)
             InDay == now >= s.start /\ \A x \in Sessions : x.start > s.start => now < x.start
  <2>1. /\ Journaled' = Journaled \cup {id} /\ id \notin Journaled /\ order'[id].createdAt = now
        /\ \A i \in Journaled : order'[i] = order[i]
    BY <1>2, SinceGrows
  <2>2. CASE ~InDay
    <3>1. OfDay(s)' = OfDay(s)
      BY <2>1, <2>2 DEF OfDay
    <3> QED BY <3>1 DEF DailyCapKept
  <2>3. CASE InDay
    <3>1. sched.call = "submit"
      BY <1>2, SubmitNextEffect
    <3>2. WindowOf \in Sessions /\ WindowOf.start <= now
      BY <3>1 DEF StartedInv, InCycle
    <3>3. WindowOf.start <= s.start
      BY <1>0, <2>3, <3>2
    <3>4. OfDay(s)' \subseteq S \cup {id}
      <4>1. \A i \in Journaled : order[i].createdAt \in Nat
        BY <1>0, JournaledOrders DEF Order
      <4>2. ASSUME NEW i \in OfDay(s)', i # id PROVE i \in S
        <5>1. i \in Journaled /\ order[i].createdAt >= s.start
          BY <2>1, <4>2 DEF OfDay
        <5> QED BY <1>0, <3>2, <3>3, <4>1, <5>1 DEF Since
      <4> QED BY <4>2
    <3>5. QueuedOnes # {}
      BY <1>2, OneAdded DEF QueuedOnes, Queued
    <3>6. Cardinality(S) + Cardinality(QueuedOnes) <= Risk.perDay
      BY <3>1, <3>5 DEF RoomInv, InCycle
    <3>7. Cardinality(QueuedOnes) > 0
      <4>1. IsFiniteSet(QueuedOnes) /\ Cardinality(QueuedOnes) \in Nat /\ Cardinality(QueuedOnes) # 0
        BY <3>5, QueuedFinite, FS_EmptySet
      <4> QED BY <4>1
    <3>8. IsFiniteSet(S) /\ Cardinality(S) \in Nat
      BY SinceType
    <3>9. Cardinality(QueuedOnes) \in Nat
      BY QueuedFinite
    <3> DEFINE T == OfDay(s)'
    <3>10. T \subseteq S \cup {id}
      BY <3>4
    <3> HIDE DEF T, S, InDay
    <3>11. IsFiniteSet(S \cup {id}) /\ Cardinality(S \cup {id}) <= Cardinality(S) + 1 /\ Cardinality(S \cup {id}) \in Nat
      <4>1. IsFiniteSet(S \cup {id}) /\ (Cardinality(S \cup {id}) = Cardinality(S) \/ Cardinality(S \cup {id}) = Cardinality(S) + 1)
        BY <3>8, FS_AddElement
      <4> QED BY <3>8, <4>1
    <3>12. Cardinality(T) <= Cardinality(S \cup {id}) /\ Cardinality(T) \in Nat
      BY <3>10, <3>11, FS_Subset, FS_CardinalityType
    <3>13. Cardinality(T) <= Risk.perDay
      BY <1>0, <3>6, <3>7, <3>8, <3>9, <3>11, <3>12
    <3> QED BY <3>13 DEF T
  <2> QED BY <2>2, <2>3
<1> QED BY <1>0, <1>1, <1>2, JournalMoves

Capped == CycleTypeOK /\ ActionsOK /\ QueueOK /\ CapInv

LEMMA CappedStep ==
  ASSUME Capped, [CycleNext]_cycleVars
  PROVE  Capped'
<1>1. CycleTypeOK /\ ActionsOK /\ QueueOK /\ CallInv /\ StartedInv /\ CountedInv /\ RoomInv /\ DailyCapKept
  BY DEF Capped, CapInv
<1>2. CycleTypeOK' /\ ActionsOK' /\ QueueOK'
  BY <1>1, CycleTypeStep, ActionsStep, QueueStep
<1>3. CallInv' /\ StartedInv' /\ CountedInv' /\ RoomInv' /\ DailyCapKept'
  BY <1>1, <1>2, CallStep, StartedStep, CountedStep, RoomStep, DailyStep
<1> QED BY <1>2, <1>3 DEF Capped, CapInv

\* The orders an older robot has journaled keep the cap of their day.
OldOrdersFit ==
  \A s \in Sessions :
    Cardinality({id \in Ids : /\ OldState[id] # Absent /\ OldOrder[id].createdAt >= s.start
                              /\ \A t \in Sessions : t.start > s.start => OldOrder[id].createdAt < t.start}) <= Risk.perDay

LEMMA CappedInit ==
  ASSUME OldOrdersFit, CycleInit
  PROVE  Capped
<1>0. Init /\ cycle = NoCycle
  BY DEF CycleInit
<1>1. CycleTypeOK /\ ActionsOK /\ QueueOK
  BY SoloInit DEF Solo
<1>2. cycle.step = "none" /\ ~InCycle
  BY <1>0 DEF NoCycle, Init, IdleSched, InCycle
<1>3. CallInv /\ StartedInv /\ CountedInv /\ RoomInv
  BY <1>2 DEF CallInv, StartedInv, CountedInv, RoomInv, Early
<1>4. istate = OldState /\ order = OldOrder
  BY <1>0 DEF Init
<1>5. \A s : OfDay(s) = {id \in Ids : /\ OldState[id] # Absent /\ OldOrder[id].createdAt >= s.start
                                      /\ \A t \in Sessions : t.start > s.start => OldOrder[id].createdAt < t.start}
  BY <1>4 DEF OfDay, Journaled
<1>6. DailyCapKept
  BY <1>5 DEF OldOrdersFit, DailyCapKept
<1> QED BY <1>1, <1>3, <1>6 DEF Capped, CapInv

\* The orders of a day never exceed the cap of applyCaps, if those an older robot
\* has left keep it: CountSince counts every order journaled since the session
\* started, and the check of a cycle leaves room for all it queues.
THEOREM DailyCap == ASSUME OldOrdersFit PROVE CycleSpec => []DailyCapKept
<1>1. CycleInit => Capped
  BY CappedInit
<1>2. Capped /\ [CycleNext]_cycleVars => Capped'
  BY CappedStep
<1>3. Capped => DailyCapKept
  BY DEF Capped, CapInv
<1> QED BY <1>1, <1>2, <1>3, PTL DEF CycleSpec

-----------------------------------------------------------------------------
(* What is held and resting to be bought while the price stands still *)

\* The last price is L, and nobody offers for less, where they are known.
StandsAt(q, L) == q.last \in {0, L} /\ (q.ask = 0 \/ q.ask >= L)

PriceStandsStill(L) ==
  /\ \A q \in Quotes : StandsAt(q, L)
  /\ \A view \in Views, u \in Instruments : StandsAt(view[u], L)

\* Whatever the risk state may mark a position with is not below the price, and
\* no limit lets an order fill below it.
PriceInv(L) ==
  /\ StandsAt(offer.quote, L)
  /\ \A u \in Instruments : StandsAt(cycle.view[u], L)
  /\ \A u \in Instruments : pos[u].qty > 0 => pos[u].avg >= L
  /\ \A id \in Acked : order[id].type = "market"

\* The decisions of the queue.
QueueDecs ==
  {cycle.todo[k].dec : k \in 1..Len(cycle.todo)} \cup {cycle.orders[k].dec : k \in 1..Len(cycle.orders)}

\* A stake in each instrument that covers what is held together with what is
\* resting or queued to be bought.
Covers(stake) ==
  /\ \A u \in Instruments : pos[u].qty <= stake[u]
  /\ \A id \in Acked : order[id].side = "buy" => pos[order[id].uid].qty + order[id].qty <= stake[order[id].uid]
  /\ \A d \in QueueDecs : d.action = "buy" => pos[d.uid].qty + d.qty <= stake[d.uid]

StakeWorth(stake, L) == [u \in Instruments |-> stake[u] * Lot[u] * L]

Affordable(stake, L) ==
  /\ \A u \in Instruments : StakeWorth(stake, L)[u] <= Risk.maxPosition
  /\ Total(StakeWorth(stake, L), Instruments) <= Risk.maxTotal

StakeInv(L) == \E stake \in [Instruments -> Nat] : Covers(stake) /\ Affordable(stake, L)

-----------------------------------------------------------------------------
(* Prices *)

\* A market buy never fills below the price.
LEMMA BuysAbove ==
  ASSUME NEW L \in Nat, NEW o, o.type = "market", o.side = "buy", NEW q \in Quote, StandsAt(q, L),
         NEW tick \in Nat \ {0}, NEW p \in PriceFill(o, q, tick)
  PROVE  p \in Nat /\ p >= L
<1>1. PICK b \in ReferenceBuy(q) : p = MarketPrice("buy", b, tick)
  BY DEF PriceFill, Reference
<1>2. b \in Nat /\ b >= L
  <2> DEFINE x == q.ask
             y == q.last
  <2>1. x \in Nat /\ y \in Nat /\ (y = 0 \/ y = L) /\ (x = 0 \/ x >= L)
    BY DEF Quote, StandsAt
  <2>2. b > 0 /\ b = IF x > 0 THEN x ELSE y
    BY <1>1 DEF ReferenceBuy
  <2> HIDE DEF x, y
  <2>3. CASE x > 0
    BY <2>1, <2>2, <2>3
  <2>4. CASE ~(x > 0)
    BY <2>1, <2>2, <2>4
  <2> QED BY <2>3, <2>4
<1>3. MulBps(b, SlippageBps) \in Nat
  <2> DEFINE den == 10000
  <2>1. SlippageBps \in Nat /\ den \in Nat \ {0}
    BY PricingAssumption
  <2>2. MulBps(b, SlippageBps) = MulRat(b, SlippageBps, den, "halfAwayFromZero")
    BY DEF MulBps
  <2> HIDE DEF den
  <2> QED BY <1>2, <2>1, <2>2, MulRatPositive
<1>4. Adverse(b, "buy") \in Nat /\ Adverse(b, "buy") >= b
  BY <1>2, <1>3 DEF Adverse
<1>5. p = RoundToIncrement(Adverse(b, "buy"), tick, "ceil")
  BY <1>1 DEF MarketPrice
<1> DEFINE a == Adverse(b, "buy")
<1>6. a \in Int /\ a \in Nat /\ a >= b
  BY <1>4
<1> HIDE DEF a
<1>7. RoundToIncrement(a, tick, "ceil") \in Int /\ RoundToIncrement(a, tick, "ceil") >= a
  BY <1>6, RoundToIncrementBounds
<1> QED BY <1>2, <1>5, <1>6, <1>7 DEF a

\* The mean of two prices that are not below the price is not below it.
LEMMA MeanAbove ==
  ASSUME NEW L \in Nat, NEW avg \in Int, NEW held \in Nat, held > 0 => avg >= L,
         NEW price \in Nat, price >= L, NEW qty \in Nat \ {0}
  PROVE  RecomputeAvgPrice(avg, held, price, qty) >= L
<1> DEFINE n == avg * held + price * qty
           d == held + qty
           r == TruncRem(n, d)
<1>1. d \in Nat \ {0}
  OBVIOUS
<1>2. n \in Int /\ L * d <= n /\ L * d \in Nat
  <2>1. avg * held \in Int /\ L * held \in Nat /\ L * held <= avg * held
    <3>1. CASE held = 0
      <4>1. avg * held = 0 /\ L * held = 0
        BY <3>1
      <4> QED BY <4>1
    <3>2. CASE held > 0
      <4>1. avg \in Nat /\ L <= avg
        BY <3>2
      <4>2. \A x, y, z \in Nat : x <= y => x * z \in Nat /\ y * z \in Nat /\ x * z <= y * z
        OBVIOUS
      <4> QED BY <4>1, <4>2
    <3> QED BY <3>1, <3>2
  <2>2. price * qty \in Int /\ L * qty \in Nat /\ L * qty <= price * qty
    <3>1. \A x, y, z \in Nat : x <= y => x * z \in Nat /\ y * z \in Nat /\ x * z <= y * z
      OBVIOUS
    <3> QED BY <3>1
  <2>3. L * d = L * held + L * qty
    OBVIOUS
  <2> HIDE DEF d
  <2> QED BY <2>1, <2>2, <2>3
<1>3. RecomputeAvgPrice(avg, held, price, qty) = MulRat(n, 1, d, "halfAwayFromZero")
  BY DEF RecomputeAvgPrice
<1> HIDE DEF n, d
<1>4. n \in Nat /\ n * 1 = n /\ ~(d < 0) /\ AbsOf(d) = d
  BY <1>1, <1>2 DEF AbsOf
<1>5. n \div d \in Nat /\ d * (n \div d) <= n /\ n < d * (n \div d) + d
  BY <1>1, <1>4
<1>6. TruncDiv(n, d) = n \div d
  BY <1>4 DEF TruncDiv
<1>7. r \in Nat
  BY <1>1, <1>4, <1>5, <1>6 DEF TruncRem
<1>8. RoundQuotient(r, d, "halfAwayFromZero") \in 0..1
  BY <1>1, <1>7 DEF RoundQuotient, SignOf
<1>9. MulRat(n, 1, d, "halfAwayFromZero") = n \div d + RoundQuotient(r, d, "halfAwayFromZero")
  BY <1>4, <1>6 DEF MulRat
<1>10. L <= n \div d
  <2> DEFINE t == n \div d
  <2>1. t \in Nat /\ n < d * t + d
    BY <1>5
  <2> HIDE DEF t
  <2>2. ASSUME t < L PROVE d * t + d <= L * d
    <3>1. t + 1 <= L /\ t + 1 \in Nat
      BY <2>1, <2>2
    <3>2. \A x, y, z \in Nat : x <= y => x * z \in Nat /\ y * z \in Nat /\ x * z <= y * z
      OBVIOUS
    <3>3. (t + 1) * d <= L * d /\ (t + 1) * d = d * t + d
      BY <1>1, <2>1, <3>1, <3>2
    <3> QED BY <3>3
  <2>3. d * t \in Nat
    BY <1>1, <2>1
  <2>4. L <= t
    BY <1>1, <1>2, <1>4, <2>1, <2>2, <2>3
  <2> QED BY <2>4 DEF t
<1> HIDE DEF r
<1> QED BY <1>3, <1>5, <1>8, <1>9, <1>10

\* How a step moves what the collector offers, and what the cycle has seen.
LEMMA OfferMoves ==
  ASSUME TypeOK, NEW L \in Nat, PriceStandsStill(L), StandsAt(offer.quote, L), [CycleNext]_cycleVars
  PROVE  StandsAt(offer'.quote, L)
<1>1. KillSwitch \/ StartSubmit => offer' = offer
  BY DEF KillSwitch, StartSubmit, BeginSubmit
<1>2. (\E id \in Ids : SubmitNext(id)) => offer' = offer
  BY DEF SubmitNext, SubmitOne
<1>3. offer' = offer => StandsAt(offer'.quote, L)
  OBVIOUS
<1>4. ASSUME [Next]_vars PROVE StandsAt(offer'.quote, L)
  <2>1. ASSUME NEW uid \in Instruments, NEW q \in Quotes, NEW ts \in 0..MaxTime, OnQuote(uid, q, ts)
        PROVE  StandsAt(offer'.quote, L)
    <3>1. offer'.quote = q
      BY <2>1 DEF OnQuote
    <3> QED BY <3>1 DEF PriceStandsStill
  <2>2. ASSUME offer' = [offer EXCEPT !.todo = offer'.todo] PROVE offer'.quote = offer.quote
    <3>1. PICK t : offer' = [offer EXCEPT !.todo = t]
      BY <2>2
    <3> QED BY <3>1 DEF TypeOK
  <2>3. offer' = NoOffer => StandsAt(offer'.quote, L)
    BY DEF NoOffer, NoQuote, StandsAt
  <2> QED BY <1>3, <1>4, <2>1, <2>2, <2>3, OfferStep
<1> QED BY <1>1, <1>2, <1>3, <1>4, CyclePaperStep

LEMMA ViewMoves ==
  ASSUME CycleTypeOK, [CycleNext]_cycleVars
  PROVE  cycle'.view = cycle.view \/ cycle'.view \in Views \/ cycle'.view = NoCycle.view
<1> DEFINE Goal == cycle'.view = cycle.view \/ cycle'.view \in Views \/ cycle'.view = NoCycle.view
<1>0. cycle \in Cycle
  BY DEF CycleTypeOK
<1>1. ASSUME CycleSteps PROVE Goal
  <2>1. ASSUME NEW s \in Sessions, StartCycle(s) PROVE Goal
    BY <2>1 DEF StartCycle, NoCycle
  <2>2. ASSUME NEW view \in Views, ReadCash(view) PROVE Goal
    BY <1>0, <2>2 DEF ReadCash, Cycle
  <2>3. ReadHeld => Goal
    BY <1>0 DEF ReadHeld, Cycle
  <2>4. ReadCashAgain => Goal
    BY <1>0 DEF ReadCashAgain, Cycle
  <2>5. ReadWorking => Goal
    BY <1>0 DEF ReadWorking, Cycle
  <2>6. ASSUME NEW actions, Decide(actions) PROVE Goal
    <3>1. PICK p : cycle' = [cycle EXCEPT !.step = "halt", !.dayPnL = p, !.actions = actions]
      BY <2>6, Zenon DEF Decide
    <3> QED BY <1>0, <3>1 DEF Cycle
  <2>7. ReadHalt => Goal
    <3> SUFFICES ASSUME ReadHalt PROVE Goal
      OBVIOUS
    <3>1. PICK h, c : cycle' = [cycle EXCEPT !.step = "check", !.halted = h, !.ordersToday = c]
      BY Zenon DEF ReadHalt
    <3> QED BY <1>0, <3>1 DEF Cycle
  <2>8. CheckRisk => Goal
    <3> SUFFICES ASSUME CheckRisk PROVE Goal
      OBVIOUS
    <3>1. PICK q : cycle' = [cycle EXCEPT !.step = "build", !.todo = q]
      BY Zenon DEF CheckRisk
    <3> QED BY <1>0, <3>1 DEF Cycle
  <2>9. BuildOrder => Goal
    <3> SUFFICES ASSUME BuildOrder PROVE Goal
      OBVIOUS
    <3>1. PICK p, q : cycle' = [cycle EXCEPT !.todo = p, !.orders = q]
      BY Zenon DEF BuildOrder
    <3> QED BY <1>0, <3>1 DEF Cycle
  <2>10. StartSubmit => Goal
    BY DEF StartSubmit
  <2>11. ASSUME NEW id \in Ids, SubmitNext(id) PROVE Goal
    <3>1. PICK q : cycle' = [cycle EXCEPT !.orders = q]
      BY <2>11, Zenon DEF SubmitNext
    <3> QED BY <1>0, <3>1 DEF Cycle
  <2>12. MarkCash => Goal
    BY DEF MarkCash, NoCycle
  <2>13. MarkHeld => Goal
    BY DEF MarkHeld, NoCycle
  <2>14. FinishCycle => Goal
    BY DEF FinishCycle
  <2> HIDE DEF Goal
  <2> QED BY <1>1, <2>1, <2>2, <2>3, <2>4, <2>5, <2>6, <2>7, <2>8, <2>9, <2>10, <2>11, <2>12, <2>13, <2>14, Zenon DEF CycleSteps
<1>2. CycleCrash => Goal
  BY DEF CycleCrash
<1>3. Meanwhile \/ UNCHANGED cycleVars => Goal
  BY DEF Meanwhile, cycleVars
<1> HIDE DEF Goal
<1>4. Goal
  BY <1>1, <1>2, <1>3, Zenon DEF CycleNext
<1> QED BY <1>4 DEF Goal

LEMMA PriceStep ==
  ASSUME Solo, NEW L \in Nat, PriceStandsStill(L), PriceInv(L), [CycleNext]_cycleVars
  PROVE  PriceInv(L)'
<1>0. CycleTypeOK /\ QueueOK /\ TypeOK
  BY DEF Solo, CycleTypeOK
<1>1. StandsAt(offer.quote, L)'
  BY <1>0, OfferMoves DEF PriceInv
<1>2. ASSUME NEW u \in Instruments PROVE StandsAt(cycle'.view[u], L)
  <2>1. NoCycle.view[u] = NoQuote /\ StandsAt(NoQuote, L)
    BY DEF NoCycle, NoQuote, StandsAt
  <2> QED BY <1>0, <2>1, ViewMoves DEF PriceInv, PriceStandsStill
<1>3. \A id \in Acked : order[id].type = "market"
  BY DEF PriceInv
<1>4. \A id \in Acked' : order'[id].type = "market"
  <2>1. UNCHANGED <<istate, order, pos>> \/ Outside => \A id \in Acked' : order'[id].type = "market"
    BY <1>0, <1>3, AckedMoves DEF NoneAdded
  <2>2. ASSUME NEW i \in Ids, SubmitNext(i) PROVE \A id \in Acked' : order'[id].type = "market"
    <3>1. cycle.orders # <<>> /\ order'[i].type = Head(cycle.orders).dec.type
      BY <1>0, <2>2, SubmitNextEffect
    <3>2. cycle.orders \in Seq(Line)
      BY <1>0 DEF CycleTypeOK, Cycle
    <3>3. Head(cycle.orders).dec.type = "market"
      BY <1>0, <3>1, <3>2, TailIs DEF QueueOK, Ready
    <3>4. Acked' \subseteq Acked \cup {i} /\ \A id \in Acked : order'[id] = order[id]
      BY <1>0, <2>2, OneAdded
    <3> QED BY <1>3, <3>1, <3>3, <3>4
  <2> QED BY <1>0, <2>1, <2>2, JournalMoves
<1>5. ASSUME NEW u \in Instruments, pos'[u].qty > 0 PROVE pos'[u].avg >= L
  <2>1. pos' = pos => pos'[u].avg >= L
    BY <1>5 DEF PriceInv
  <2>2. ASSUME NEW id \in Ids, Settled(id) PROVE pos'[u].avg >= L
    <3> DEFINE o == order[id]
               held == pos[o.uid]
    <3>1. PICK price \in FillPrices(id) :
            CanApply(o, price) /\ pos' = [pos EXCEPT ![o.uid] = PositionAfter(o, price)]
      BY <2>2 DEF Settled
    <3>2. /\ o.uid \in Instruments /\ o.qty \in Nat \ {0} /\ o.side \in {"buy", "sell"} /\ o.type = "market"
          /\ held.qty \in Nat /\ held.avg \in Int /\ offer.quote \in Quote /\ PriceTick[o.uid] \in Nat
      <4>1. o \in Order
        BY <1>0, <2>2 DEF Settled, TypeOK, Absent
      <4> QED BY <1>0, <1>3, <2>2, <4>1, TradingAssumption DEF Settled, Acked, Order, TypeOK, Quote
    <3>3. PriceTick[o.uid] > 0 /\ price \in PriceFill(o, offer.quote, PriceTick[o.uid])
      BY <3>1 DEF FillPrices
    <3>4. held.qty > 0 => held.avg >= L
      BY <3>2 DEF PriceInv
    <3>5. \A v \in Instruments : v # o.uid => pos'[v] = pos[v]
      BY <1>0, <3>1 DEF TypeOK
    <3>6. pos'[o.uid] = PositionAfter(o, price)
      BY <1>0, <3>1, <3>2 DEF TypeOK
    <3>7. CASE o.side = "buy"
      <4>1. PriceTick[o.uid] \in Nat \ {0} /\ StandsAt(offer.quote, L)
        BY <3>2, <3>3 DEF PriceInv
      <4>2. price \in Nat /\ price >= L
        BY <3>2, <3>3, <3>7, <4>1, BuysAbove
      <4> HIDE DEF o, held
      <4>3. RecomputeAvgPrice(held.avg, held.qty, price, o.qty) >= L
        BY <3>2, <3>4, <4>2, MeanAbove
      <4>4. PositionAfter(o, price).avg = RecomputeAvgPrice(held.avg, held.qty, price, o.qty)
        BY <3>7 DEF PositionAfter, held
      <4> QED BY <1>5, <3>5, <3>6, <4>3, <4>4 DEF PriceInv
    <3>8. CASE o.side = "sell"
      <4>1. o.qty <= held.qty /\ PositionAfter(o, price) = [qty |-> held.qty - o.qty, avg |-> IF held.qty = o.qty THEN 0 ELSE held.avg]
        BY <3>1, <3>8 DEF CanApply, PositionAfter
      <4>2. PositionAfter(o, price).qty > 0 => PositionAfter(o, price).avg >= L
        BY <3>2, <3>4, <4>1
      <4> QED BY <1>5, <3>5, <3>6, <4>2 DEF PriceInv
    <3> QED BY <3>2, <3>7, <3>8
  <2>3. ASSUME NEW id \in Ids, Dropped(id) PROVE pos' = pos
    BY <2>3 DEF Dropped
  <2>4. ASSUME NEW id \in Ids, SubmitNext(id) PROVE pos' = pos
    BY <1>0, <2>4, SubmitNextEffect
  <2> QED BY <1>0, <2>1, <2>2, <2>3, <2>4, JournalMoves DEF Outside
<1> QED BY <1>1, <1>2, <1>4, <1>5 DEF PriceInv

-----------------------------------------------------------------------------
(* Stakes *)

LEMMA QueueTyped ==
  ASSUME CycleTypeOK, QueueOK
  PROVE  /\ \A d \in QueueDecs : d.uid \in Instruments /\ d.qty \in Nat /\ (d.action # "hold" => Queued(d.uid))
         /\ cycle.orders # <<>> => Head(cycle.orders).dec \in QueueDecs
<1>1. /\ cycle.todo \in Seq(Line) /\ cycle.orders \in Seq(Line)
      /\ \A k \in 1..Len(cycle.todo) : EngineMade(cycle.todo[k].dec)
      /\ \A k \in 1..Len(cycle.orders) : Ready(cycle.orders[k].dec)
  BY DEF CycleTypeOK, Cycle, QueueOK
<1>2. ASSUME NEW k \in 1..Len(cycle.todo)
      PROVE  LET d == cycle.todo[k].dec IN d.uid \in Instruments /\ d.qty \in Nat /\ (d.action # "hold" => Queued(d.uid))
  BY <1>1 DEF EngineMade, Decision, Queued, Waiting
<1>3. ASSUME NEW k \in 1..Len(cycle.orders)
      PROVE  LET d == cycle.orders[k].dec IN d.uid \in Instruments /\ d.qty \in Nat /\ Queued(d.uid)
  <2>1. cycle.orders[k] \in Line
    BY <1>1
  <2>2. cycle.orders[k].dec.uid \in Instruments
    BY <2>1 DEF Line, Decision
  <2> QED BY <1>1, <2>2 DEF Ready, Queued, Readied
<1>4. ASSUME cycle.orders # <<>> PROVE Head(cycle.orders).dec \in QueueDecs
  <2>1. 1 \in 1..Len(cycle.orders) /\ Head(cycle.orders) = cycle.orders[1]
    BY <1>1, <1>4, TailIs
  <2> QED BY <2>1 DEF QueueDecs
<1> QED BY <1>2, <1>3, <1>4 DEF QueueDecs

\* Beside the check, no decision to buy enters the queue.
LEMMA QueueDecsStep ==
  ASSUME CycleTypeOK, QueueOK, [CycleNext]_cycleVars, ~CheckRisk, NEW d \in QueueDecs', d.action = "buy"
  PROVE  d \in QueueDecs
<1> DEFINE todo == cycle.todo
           orders == cycle.orders
<1>0. todo \in Seq(Line) /\ orders \in Seq(Line)
  BY DEF CycleTypeOK, Cycle
<1>1. QueueDecs' = {cycle'.todo[k].dec : k \in 1..Len(cycle'.todo)} \cup {cycle'.orders[k].dec : k \in 1..Len(cycle'.orders)}
  BY DEF QueueDecs
<1>2. NoQueue => FALSE
  BY <1>1 DEF NoQueue
<1>3. cycle'.todo = todo /\ cycle'.orders = orders => d \in QueueDecs
  BY DEF QueueDecs
<1>4. ASSUME NEW q \in Seq(Line), q # <<>>, NEW k \in 1..Len(Tail(q))
      PROVE  \E j \in 1..Len(q) : Tail(q)[k] = q[j]
  <2>1. k + 1 \in 1..Len(q) /\ Tail(q)[k] = q[k + 1]
    BY <1>4, TailIs
  <2> QED BY <2>1
<1>5. ASSUME NEW id \in Ids, SubmitNext(id), cycle'.todo = todo PROVE d \in QueueDecs
  <2>1. orders # <<>> /\ cycle'.orders = Tail(orders)
    BY <1>5, SubmitNextEffect
  <2>2. \A k \in 1..Len(Tail(orders)) : \E j \in 1..Len(orders) : Tail(orders)[k] = orders[j]
    BY <1>0, <1>4, <2>1
  <2> QED BY <1>1, <1>5, <2>1, <2>2 DEF QueueDecs
<1>6. ASSUME BuildOrder PROVE d \in QueueDecs
  <2> DEFINE head == Head(todo)
  <2>1. Builds
    BY <1>6, BuildEffect
  <2>2. todo # <<>> /\ cycle'.todo = Tail(todo)
    BY <2>1 DEF Builds
  <2>3. 1 \in 1..Len(todo) /\ head = todo[1]
    BY <1>0, <2>2, TailIs
  <2>4. \A k \in 1..Len(Tail(todo)) : \E j \in 1..Len(todo) : Tail(todo)[k] = todo[j]
    BY <1>0, <1>4, <2>2
  <2>5. d \in {cycle'.todo[k].dec : k \in 1..Len(cycle'.todo)} => d \in QueueDecs
    BY <2>2, <2>4 DEF QueueDecs
  <2>6. CASE cycle'.orders = orders
    BY <1>1, <2>5, <2>6 DEF QueueDecs
  <2>7. ASSUME NEW line \in Line, cycle'.orders = Append(orders, line), line.dec = head.dec \/ line.dec.action = "sell"
        PROVE  d \in QueueDecs
    <3>1. \A k \in 1..Len(Append(orders, line)) :
            (k \in 1..Len(orders) /\ Append(orders, line)[k] = orders[k]) \/ (k = Len(orders) + 1 /\ Append(orders, line)[k] = line)
      BY <1>0, AppendIs
    <3>2. d \in {cycle'.orders[k].dec : k \in 1..Len(cycle'.orders)} => d \in QueueDecs \/ d = line.dec
      BY <2>7, <3>1 DEF QueueDecs
    <3>3. head.dec \in QueueDecs
      BY <2>3 DEF QueueDecs
    <3>4. d = line.dec => d \in QueueDecs
      BY <2>7, <3>3
    <3> QED BY <1>1, <2>5, <3>2, <3>4
  <2> QED BY <2>1, <2>6, <2>7 DEF Builds
<1> QED BY <1>2, <1>3, <1>5, <1>6, QueueStepIs DEF QueueMoves

\* A stake goes on covering as long as the check adds nothing.
LEMMA CoversStep ==
  ASSUME Solo, NEW stake \in [Instruments -> Nat], Covers(stake), [CycleNext]_cycleVars,
         \A d \in QueueDecs' : d.action = "buy" => d \in QueueDecs
  PROVE  Covers(stake)'
<1>0. CycleTypeOK /\ QueueOK /\ FreshInv /\ OneInv /\ TypeOK
  BY DEF Solo, SoloInv, CycleTypeOK
<1>1. \A d \in QueueDecs : d.uid \in Instruments /\ d.qty \in Nat /\ (d.action # "hold" => Queued(d.uid))
  BY <1>0, QueueTyped
<1>2. \A id \in Acked : order[id].uid \in Instruments /\ order[id].qty \in Nat /\ order[id].side \in {"buy", "sell"}
  <2>1. \A id \in Acked : order[id] \in Order
    BY <1>0 DEF Acked, TypeOK, Absent
  <2> QED BY <2>1 DEF Order
<1>3. \A u \in Instruments : pos[u].qty \in Nat
  BY <1>0 DEF TypeOK
<1> DEFINE Stays == \A u \in Instruments : pos'[u].qty <= stake[u]
           Rest == \A id \in Acked' : order'[id].side = "buy" => pos'[order'[id].uid].qty + order'[id].qty <= stake[order'[id].uid]
           Wait == \A d \in QueueDecs : d.action = "buy" => pos'[d.uid].qty + d.qty <= stake[d.uid]
<1>4. ASSUME NoneAdded PROVE Rest /\ Wait
  <2>1. ASSUME NEW id \in Acked', order'[id].side = "buy" PROVE pos'[order'[id].uid].qty + order'[id].qty <= stake[order'[id].uid]
    <3>1. id \in Acked /\ order' = order
      BY <1>4, <2>1 DEF NoneAdded
    <3>2. pos'[order[id].uid] = pos[order[id].uid]
      BY <1>0, <1>2, <1>4, <2>1, <3>1 DEF NoneAdded, OneInv
    <3> QED BY <2>1, <3>1, <3>2 DEF Covers
  <2>2. ASSUME NEW d \in QueueDecs, d.action = "buy" PROVE pos'[d.uid].qty + d.qty <= stake[d.uid]
    <3>1. Queued(d.uid) /\ d.uid \in Instruments
      BY <1>1, <2>2
    <3>2. \A id \in Acked : order[id].uid # d.uid
      BY <1>0, <3>1 DEF FreshInv
    <3>3. pos'[d.uid] = pos[d.uid]
      BY <1>4, <3>1, <3>2 DEF NoneAdded
    <3> QED BY <2>2, <3>3 DEF Covers
  <2> QED BY <2>1, <2>2
<1>5. pos' = pos => Stays /\ Wait
  BY DEF Covers
<1>6. ASSUME NEW id \in Ids, Settled(id) PROVE Stays
  <2> DEFINE o == order[id]
             held == pos[o.uid]
  <2>1. PICK price \in FillPrices(id) : CanApply(o, price) /\ pos' = [pos EXCEPT ![o.uid] = PositionAfter(o, price)]
    BY <1>6 DEF Settled
  <2>2. id \in Acked /\ o.uid \in Instruments /\ o.qty \in Nat /\ o.side \in {"buy", "sell"} /\ held.qty \in Nat
    BY <1>2, <1>3, <1>6 DEF Settled, Acked
  <2>3. \A u \in Instruments : pos'[u] = IF u = o.uid THEN PositionAfter(o, price) ELSE pos[u]
    BY <1>0, <2>1 DEF TypeOK
  <2>4. PositionAfter(o, price).qty = IF o.side = "buy" THEN held.qty + o.qty ELSE held.qty - o.qty
    BY DEF PositionAfter
  <2>5. held.qty <= stake[o.uid] /\ (o.side = "buy" => held.qty + o.qty <= stake[o.uid])
    BY <2>2 DEF Covers
  <2>6. stake[o.uid] \in Nat
    BY <2>2
  <2> HIDE DEF o, held
  <2>7. PositionAfter(o, price).qty <= stake[o.uid]
    BY <2>2, <2>4, <2>5, <2>6
  <2> QED BY <2>3, <2>7 DEF Covers
<1>7. ASSUME NEW id \in Ids, SubmitNext(id) PROVE Stays /\ Rest /\ Wait
  <2> DEFINE head == Head(cycle.orders)
  <2>1. /\ pos' = pos /\ head.dec \in QueueDecs
        /\ order'[id].uid = head.dec.uid /\ order'[id].side = head.dec.action /\ order'[id].qty = head.dec.qty
    BY <1>0, <1>7, SubmitNextEffect, QueueTyped
  <2>2. Acked' \subseteq Acked \cup {id} /\ \A i \in Acked : order'[i] = order[i]
    BY <1>0, <1>7, OneAdded
  <2>3. Rest
    <3> HIDE DEF head
    <3> QED BY <2>1, <2>2 DEF Covers
  <2> QED BY <1>5, <2>1, <2>3
<1>8. UNCHANGED <<istate, order, pos>> \/ Outside => NoneAdded
  BY <1>0, AckedMoves
<1>9. ASSUME NEW id \in Ids, Dropped(id) PROVE pos' = pos
  BY <1>9 DEF Dropped
<1>10. Stays /\ Rest /\ Wait
  <2> HIDE DEF Stays, Rest, Wait
  <2> QED BY <1>0, <1>4, <1>5, <1>6, <1>7, <1>8, <1>9, JournalMoves DEF Outside
<1> QED BY <1>10 DEF Covers

-----------------------------------------------------------------------------
(* What the check lets through *)

\* The decisions to buy that the verdict keeps.
KeptBuys == {i \in Verdict.live : Verdict.dec[i].action = "buy"}
AtStake(u) == Rules!LotsAtRisk(u)

\* The lots the risk state knows of cover what is held and resting to be bought.
LEMMA AtStakeCovers ==
  ASSUME Solo, cycle.step = "check", NEW u \in Instruments
  PROVE  /\ AtStake(u) \in Nat /\ pos[u].qty <= AtStake(u)
         /\ \A id \in Acked : order[id].uid = u /\ order[id].side = "buy" => pos[u].qty + order[id].qty <= AtStake(u)
<1>0. CycleTypeOK /\ TypeOK /\ WorkingInv /\ Acked \subseteq cycle.working
  BY DEF Solo, SoloInv, CycleTypeOK, WorkingInv
<1> DEFINE pending == Rules!PendingLots(u, RiskState)
<1>1. u \in Uids /\ Rules!AccountOK
  BY <1>0, UniverseLists, AccountTyped
<1>2. pending \in Nat /\ \A k \in DOMAIN RiskState.buys[u] : RiskState.buys[u][k].lots <= pending
  BY <1>1, RulesAssumed, Rules!PendingLotsType
<1>3. RiskState.buys[u] = RestingBuys(u) /\ RiskState.pos[u] = RiskPosition(u)
  BY RiskStateIs
<1>4. RiskPosition(u).qty = pos[u].qty /\ pos[u].qty \in Nat
  BY <1>0 DEF RiskPosition, TypeOK
<1>5. AtStake(u) = pos[u].qty + pending
  BY <1>3, <1>4 DEF AtStake, Rules!LotsAtRisk
<1> HIDE DEF pending
<1>6. ASSUME NEW id \in Acked, order[id].uid = u, order[id].side = "buy" PROVE order[id].qty <= pending
  <2> DEFINE S == WorkingOf(u, "buy")
             ids == SetToSeq(S)
             n == Cardinality(S)
  <2>1. id \in S /\ IsFiniteSet(S)
    <3>1. id \in S
      BY <1>0, <1>6 DEF WorkingOf
    <3>2. IsFiniteSet(S)
      BY <1>0, WorkingFinite
    <3> QED BY <3>1, <3>2
  <2>2. n \in Nat /\ ids \in [1..n -> S] /\ \E k \in 1..n : ids[k] = id
    BY <2>1, Lists
  <2> HIDE DEF S, ids, n
  <2>3. RestingBuys(u) = [k \in 1..n |-> [lots |-> order[ids[k]].qty, limit |-> order[ids[k]].limit]]
    BY <2>2 DEF RestingBuys, S, ids
  <2>4. PICK k \in 1..n : ids[k] = id
    BY <2>2
  <2>5. k \in DOMAIN RestingBuys(u) /\ RestingBuys(u)[k].lots = order[id].qty
    BY <2>3, <2>4
  <2> QED BY <1>2, <1>3, <2>5
<1>7. \A id \in Acked : order[id].qty \in Nat
  <2>1. \A id \in Acked : id \in Journaled
    BY DEF Acked, Journaled, Absent
  <2> QED BY <1>0, <2>1, JournaledOrders
<1> QED BY <1>2, <1>4, <1>5, <1>6, <1>7

\* The decisions to buy that enter the queue.
LEMMA QueuedBuys ==
  ASSUME Solo, CheckRisk, NEW d \in QueueDecs', d.action = "buy"
  PROVE  \E i \in KeptBuys : d = Verdict.dec[i]
<1>0. CycleTypeOK /\ ActionsOK /\ QueueOK
  BY DEF Solo
<1>1. PICK n \in Nat :
        /\ Kept \in [1..n -> Verdict.live]
        /\ cycle'.todo = [k \in 1..n |-> [did |-> rows + Kept[k], dec |-> Verdict.dec[Kept[k]]]]
  BY <1>0, CheckEffect DEF Queues
<1>2. cycle.step = "check" /\ cycle'.orders = cycle.orders
  <2>1. PICK q : cycle' = [cycle EXCEPT !.step = "build", !.todo = q] /\ cycle.step = "check"
    BY Zenon DEF CheckRisk, Reads
  <2> QED BY <1>0, <2>1 DEF CycleTypeOK, Cycle
<1>3. Len(cycle'.todo) = n /\ cycle'.orders = <<>>
  BY <1>0, <1>1, <1>2 DEF QueueOK
<1>4. PICK k \in 1..n : d = cycle'.todo[k].dec
  BY <1>3 DEF QueueDecs
<1>5. d = Verdict.dec[Kept[k]] /\ Kept[k] \in Verdict.live
  BY <1>1, <1>4
<1> QED BY <1>5 DEF KeptBuys

LEMMA KeptBuysOnes ==
  ASSUME Solo, cycle.step = "check", NEW i \in KeptBuys
  PROVE  /\ i \in 1..Len(Universe) /\ Verdict.dec[i].uid = Universe[i] /\ Universe[i] \in Instruments
         /\ Verdict.dec[i].qty \in Nat /\ Verdict.dec[i].type = "market"
         /\ \A id \in Acked : order[id].uid # Universe[i]
<1>0. CycleTypeOK /\ ActionsOK /\ FreshInv /\ VerdictOK
  BY VerdictIs DEF Solo, SoloInv
<1>1. i \in 1..Len(Universe) /\ Verdict.dec[i] = Resized(cycle.actions[i], Verdict.dec[i].qty) /\ Verdict.dec[i].qty \in Nat
  BY <1>0 DEF VerdictOK, KeptBuys
<1>2. cycle.actions[i].uid = Universe[i] /\ EngineMade(cycle.actions[i])
  BY <1>0, <1>1 DEF ActionsOK
<1>3. Verdict.dec[i].uid = Universe[i] /\ Verdict.dec[i].type = "market" /\ cycle.actions[i].action = "buy"
  BY <1>1, <1>2 DEF Resized, EngineMade, KeptBuys
<1>4. Universe[i] \in Instruments
  BY <1>1, UniverseLists
<1>5. DecidedOn(Universe[i])
  BY <1>1, <1>3 DEF DecidedOn
<1> QED BY <1>0, <1>1, <1>3, <1>4, <1>5 DEF FreshInv

\* What the risk state marks an instrument with, and what it quotes for a market
\* order, is not below the price.
LEMMA MarksAbove ==
  ASSUME CycleTypeOK, NEW L \in Nat, PriceInv(L), NEW u \in Instruments
  PROVE  /\ Rules!Mark(u) > 0 => L <= Rules!Mark(u)
         /\ \A d : d.uid = u /\ d.type = "market" /\ Rules!Quoted(d) > 0 => L <= Rules!Quoted(d)
<1> DEFINE q == cycle.view[u]
           a == q.ask
           l == q.last
           p == pos[u].avg
           m == RiskPosition(u).last
<1>1. a \in Nat /\ l \in Nat /\ (l = 0 \/ l = L) /\ (a = 0 \/ a >= L)
  BY ReadsTyped DEF PriceInv, StandsAt
<1>2. pos[u].qty \in Nat /\ p \in Int /\ (pos[u].qty > 0 => p >= L)
  BY DEF CycleTypeOK, TypeOK, PriceInv
<1>3. m = IF pos[u].qty = 0 THEN 0 ELSE IF l # 0 THEN l ELSE p
  BY DEF RiskPosition
<1>4. Rules!Mark(u) = IF m > 0 THEN m ELSE l
  BY RiskStateIs DEF Rules!Mark
<1>5. \A d : d.uid = u /\ d.type = "market" => Rules!Quoted(d) = IF a > 0 THEN a ELSE l
  BY RiskStateIs DEF Rules!Quoted
<1> HIDE DEF q, a, l, p, m
<1>6. m > 0 => L <= m
  BY <1>1, <1>2, <1>3
<1>7. m \in Int
  BY <1>1, <1>2, <1>3
<1>8. Rules!Mark(u) > 0 => L <= Rules!Mark(u)
  <2>1. CASE m > 0
    BY <1>4, <1>6, <2>1
  <2>2. CASE ~(m > 0)
    BY <1>1, <1>4, <2>2
  <2> QED BY <2>1, <2>2
<1>9. ASSUME NEW d, d.uid = u, d.type = "market", Rules!Quoted(d) > 0 PROVE L <= Rules!Quoted(d)
  <2>1. Rules!Quoted(d) = IF a > 0 THEN a ELSE l
    BY <1>5, <1>9
  <2>2. CASE a > 0
    BY <1>1, <1>9, <2>1, <2>2
  <2>3. CASE ~(a > 0)
    BY <1>1, <1>9, <2>1, <2>3
  <2> QED BY <2>2, <2>3
<1> QED BY <1>8, <1>9

\* RiskProofs' sums over the instruments are those of FoldProofs.
LEMMA SameTotal ==
  ASSUME NEW w
  PROVE  Rules!Total(w, Instruments) = Total(w, Instruments)
BY Zenon DEF Rules!Total, Total, Rules!MapThenSumSet, MapThenSumSet, Rules!MapThenFoldSet, MapThenFoldSet

LEMMA SameThose ==
  Rules!Those(Verdict, {"buy"}) = KeptBuys
<1>1. \A x : x \in {"buy"} <=> x = "buy"
  OBVIOUS
<1> QED BY <1>1 DEF Rules!Those, KeptBuys

\* The stake that the check settles for: in an instrument it keeps a buy of, all
\* that is at risk and the buy; in any other, the stake there was, or less.
KeptBuyOf(u) == CHOOSE i \in KeptBuys : Verdict.dec[i].uid = u
NextStake(stake) ==
  [u \in Instruments |->
     IF \E i \in KeptBuys : Verdict.dec[i].uid = u THEN AtStake(u) + Verdict.dec[KeptBuyOf(u)].qty
     ELSE IF stake[u] <= AtStake(u) THEN stake[u] ELSE AtStake(u)]

LEMMA NextStakeIs ==
  ASSUME Solo, cycle.step = "check", NEW stake \in [Instruments -> Nat]
  PROVE  /\ NextStake(stake) \in [Instruments -> Nat]
         /\ \A i \in KeptBuys : NextStake(stake)[Verdict.dec[i].uid] = AtStake(Verdict.dec[i].uid) + Verdict.dec[i].qty
         /\ \A u \in Instruments : (\A i \in KeptBuys : Verdict.dec[i].uid # u) =>
              NextStake(stake)[u] <= stake[u] /\ NextStake(stake)[u] <= AtStake(u)
              /\ NextStake(stake)[u] \in {stake[u], AtStake(u)}
<1>1. \A u \in Instruments : AtStake(u) \in Nat /\ stake[u] \in Nat
  BY AtStakeCovers
<1>2. \A i \in KeptBuys : /\ i \in 1..Len(Universe) /\ Verdict.dec[i].uid = Universe[i]
                          /\ Universe[i] \in Instruments /\ Verdict.dec[i].qty \in Nat
  BY KeptBuysOnes
<1>3. \A j, k \in 1..Len(Universe) : Universe[j] = Universe[k] => j = k
  BY UniverseLists
<1>4. \A i \in KeptBuys : KeptBuyOf(Verdict.dec[i].uid) = i
  <2> SUFFICES ASSUME NEW i \in KeptBuys PROVE KeptBuyOf(Verdict.dec[i].uid) = i
    OBVIOUS
  <2>1. \A j \in KeptBuys : Verdict.dec[j].uid = Verdict.dec[i].uid => j = i
    BY <1>2, <1>3
  <2> QED BY <2>1 DEF KeptBuyOf
<1>5. ASSUME NEW u \in Instruments
      PROVE  \/ \E i \in KeptBuys : Verdict.dec[i].uid = u /\ NextStake(stake)[u] = AtStake(u) + Verdict.dec[i].qty
             \/ /\ \A i \in KeptBuys : Verdict.dec[i].uid # u
                /\ NextStake(stake)[u] = IF stake[u] <= AtStake(u) THEN stake[u] ELSE AtStake(u)
  <2>1. CASE \E i \in KeptBuys : Verdict.dec[i].uid = u
    <3>1. PICK i \in KeptBuys : Verdict.dec[i].uid = u
      BY <2>1
    <3>2. NextStake(stake)[u] = AtStake(u) + Verdict.dec[KeptBuyOf(u)].qty
      BY <2>1 DEF NextStake
    <3> QED BY <1>4, <3>1, <3>2
  <2>2. CASE ~\E i \in KeptBuys : Verdict.dec[i].uid = u
    BY <2>2 DEF NextStake
  <2> QED BY <2>1, <2>2
<1>6. \A u \in Instruments : NextStake(stake)[u] \in Nat
  BY <1>1, <1>2, <1>5
<1>7. NextStake(stake) \in [Instruments -> Nat]
  <2>1. DOMAIN NextStake(stake) = Instruments
    BY DEF NextStake
  <2>2. NextStake(stake) = [u \in Instruments |-> NextStake(stake)[u]]
    BY <2>1 DEF NextStake
  <2> QED BY <1>6, <2>2
<1>8. ASSUME NEW i \in KeptBuys
      PROVE  NextStake(stake)[Verdict.dec[i].uid] = AtStake(Verdict.dec[i].uid) + Verdict.dec[i].qty
  <2>1. Verdict.dec[i].uid \in Instruments
    BY <1>2
  <2>2. NextStake(stake)[Verdict.dec[i].uid] = AtStake(Verdict.dec[i].uid) + Verdict.dec[KeptBuyOf(Verdict.dec[i].uid)].qty
    BY <2>1 DEF NextStake
  <2> QED BY <1>4, <2>2
<1>9. ASSUME NEW u \in Instruments, \A i \in KeptBuys : Verdict.dec[i].uid # u
      PROVE  /\ NextStake(stake)[u] <= stake[u] /\ NextStake(stake)[u] <= AtStake(u)
             /\ NextStake(stake)[u] \in {stake[u], AtStake(u)}
  BY <1>1, <1>5, <1>9
<1> QED BY <1>7, <1>8, <1>9

\* A worth that does not exceed another, at the same price.
LEMMA WorthBelow ==
  ASSUME NEW a \in Nat, NEW b \in Nat, a <= b, NEW l \in Nat, NEW p \in Nat
  PROVE  a * l * p \in Nat /\ b * l * p \in Nat /\ a * l * p <= b * l * p
<1>1. a * l \in Nat /\ b * l \in Nat /\ a * l <= b * l
  OBVIOUS
<1>2. \A x, y \in Nat : x <= y => x * p \in Nat /\ y * p \in Nat /\ x * p <= y * p
  OBVIOUS
<1> QED BY <1>1, <1>2

\* What Check allows of the buys keeps the stake it settles for affordable.
LEMMA CheckAffords ==
  ASSUME Solo, cycle.step = "check", NEW L \in Nat, PriceInv(L), KeptBuys # {},
         NEW stake \in [Instruments -> Nat], Affordable(stake, L)
  PROVE  Affordable(NextStake(stake), L)
<1>0. CycleTypeOK /\ ActionsOK
  BY DEF Solo
<1> DEFINE next == NextStake(stake)
           worth == StakeWorth(next, L)
<1>1. Uids = Instruments
  BY UniverseLists
<1>2. /\ next \in [Instruments -> Nat]
      /\ \A i \in KeptBuys : next[Verdict.dec[i].uid] = AtStake(Verdict.dec[i].uid) + Verdict.dec[i].qty
      /\ \A u \in Instruments : (\A i \in KeptBuys : Verdict.dec[i].uid # u) => next[u] <= stake[u] /\ next[u] <= AtStake(u)
  BY NextStakeIs
<1>3. \A u \in Instruments : Lot[u] \in Nat /\ RiskState.info[u].lot = Lot[u] /\ stake[u] \in Nat
  BY RiskStateIs, TradingAssumption
<1>4. \A u \in Instruments : worth[u] = next[u] * Lot[u] * L
  BY DEF StakeWorth
<1> HIDE DEF next, worth
<1>5. \A u \in Uids : u \in DOMAIN RiskState.info /\ Rules!LotOf(u, RiskState) = Lot[u] /\ Rules!LotOf(u, RiskState) \in Nat
  BY <1>1, <1>3, RiskStateIs DEF Rules!LotOf
<1>6. \A u \in Uids : Rules!Mark(u) > 0 => L <= Rules!Mark(u)
  BY <1>0, <1>1, MarksAbove
<1>7. \A i \in KeptBuys : /\ Verdict.dec[i].uid \in Instruments /\ Verdict.dec[i].type = "market"
                          /\ Verdict.dec[i].qty \in Nat
  BY KeptBuysOnes
<1>8. \A i \in KeptBuys : Rules!Quoted(Verdict.dec[i]) > 0 => L <= Rules!Quoted(Verdict.dec[i])
  BY <1>0, <1>7, MarksAbove
<1>9. \A u \in Uids :
        \/ next[u] <= Rules!LotsAtRisk(u)
        \/ \E i \in KeptBuys : Verdict.dec[i].uid = u /\ next[u] <= Rules!LotsAtRisk(u) + Verdict.dec[i].qty
  <2> SUFFICES ASSUME NEW u \in Instruments
               PROVE  \/ next[u] <= Rules!LotsAtRisk(u)
                      \/ \E i \in KeptBuys : Verdict.dec[i].uid = u /\ next[u] <= Rules!LotsAtRisk(u) + Verdict.dec[i].qty
    BY <1>1
  <2>1. CASE \A i \in KeptBuys : Verdict.dec[i].uid # u
    BY <1>2, <2>1 DEF AtStake
  <2>2. ASSUME NEW i \in KeptBuys, Verdict.dec[i].uid = u
        PROVE  next[u] <= Rules!LotsAtRisk(u) + Verdict.dec[i].qty
    <3>1. next[u] = Rules!LotsAtRisk(u) + Verdict.dec[i].qty /\ next[u] \in Nat
      BY <1>2, <2>2 DEF AtStake
    <3> QED BY <3>1
  <2> QED BY <2>1, <2>2
<1>10. \A u \in Uids : worth[u] = next[u] * Rules!LotOf(u, RiskState) * L
  BY <1>1, <1>4, <1>5
<1>11. Rules!N = Len(Universe) /\ Rules!N \in Nat /\ Rules!Proposed(cycle.actions, Rules!N)
  BY <1>0, ProposedByEngine
<1>12. Verdict = Rules!Check(cycle.actions, RiskState, Risk)
  BY SameCheck DEF Verdict
<1>13. next \in [Uids -> Nat]
  BY <1>1, <1>2
<1>14. /\ \A i \in KeptBuys : worth[Verdict.dec[i].uid] <= Risk.maxPosition
       /\ Rules!Total(worth, Uids) <= Risk.maxTotal
  <2>1. Rules!AccountOK
    BY <1>0, AccountTyped
  <2>2. Rules!Those(Verdict, {"buy"}) = KeptBuys
    BY SameThose
  <2> DEFINE c == Verdict
  <2>3. c = Rules!Check(cycle.actions, RiskState, Risk)
    BY <1>12
  <2> HIDE DEF c
  <2>4. \A u \in Uids : u \in DOMAIN RiskState.info /\ Rules!LotOf(u, RiskState) \in Nat
    BY <1>5
  <2>5. Rules!Those(c, {"buy"}) = KeptBuys
    BY <2>2 DEF c
  <2>6. Rules!Those(c, {"buy"}) # {}
    BY <2>5
  <2>7. \A i \in Rules!Those(c, {"buy"}) : Rules!Quoted(c.dec[i]) > 0 => L <= Rules!Quoted(c.dec[i])
    BY <1>8, <2>5 DEF c
  <2>8. \A u \in Uids :
          \/ next[u] <= Rules!LotsAtRisk(u)
          \/ \E i \in Rules!Those(c, {"buy"}) : c.dec[i].uid = u /\ next[u] <= Rules!LotsAtRisk(u) + c.dec[i].qty
    BY <1>9, <2>5 DEF c
  <2>9. Rules!Staked(c, L, next, worth)
    BY <1>6, <1>10, <1>13, <2>4, <2>7, <2>8, Zenon DEF Rules!Staked
  <2>10. /\ \A i \in Rules!Those(c, {"buy"}) : worth[c.dec[i].uid] <= Risk.maxPosition
         /\ Rules!Total(worth, Uids) <= Risk.maxTotal
    BY <1>11, <2>1, <2>3, <2>6, <2>9, RulesAssumed, Rules!CheckLimits
  <2> QED BY <2>5, <2>10 DEF c
<1>15. \A u \in Instruments : worth[u] <= Risk.maxPosition
  <2> SUFFICES ASSUME NEW u \in Instruments PROVE worth[u] <= Risk.maxPosition
    OBVIOUS
  <2>1. CASE \E i \in KeptBuys : Verdict.dec[i].uid = u
    BY <1>14, <2>1
  <2>2. CASE \A i \in KeptBuys : Verdict.dec[i].uid # u
    <3>1. next[u] <= stake[u] /\ next[u] \in Nat
      BY <1>2, <2>2
    <3>2. StakeWorth(stake, L)[u] = stake[u] * Lot[u] * L
      BY DEF StakeWorth
    <3>3. /\ stake[u] * Lot[u] * L <= Risk.maxPosition
          /\ Risk.maxPosition \in Nat
      BY <3>2, CycleAssumption, WidthAssumption DEF Affordable
    <3>4. next[u] * Lot[u] * L \in Nat /\ stake[u] * Lot[u] * L \in Nat /\ next[u] * Lot[u] * L <= stake[u] * Lot[u] * L
      BY <1>3, <3>1, WorthBelow
    <3>5. worth[u] = next[u] * Lot[u] * L
      BY <1>4
    <3> DEFINE a == next[u] * Lot[u] * L
               b == stake[u] * Lot[u] * L
    <3> HIDE DEF a, b
    <3>6. a \in Nat /\ b \in Nat /\ a <= b /\ b <= Risk.maxPosition /\ worth[u] = a
      BY <3>3, <3>4, <3>5 DEF a, b
    <3> QED BY <3>3, <3>6
  <2> QED BY <2>1, <2>2
<1>16. Total(worth, Instruments) <= Risk.maxTotal
  BY <1>1, <1>14, SameTotal
<1> QED BY <1>15, <1>16 DEF Affordable, worth, next

\* The check's own step: its kept buys, and nothing else, may raise the stake.
LEMMA CheckStep ==
  ASSUME Solo, NEW L \in Nat, PriceInv(L), StakeInv(L), CheckRisk
  PROVE  StakeInv(L)'
<1>0. cycle.step = "check" /\ vars' = vars
  BY DEF CheckRisk, Reads
<1>1. order' = order /\ istate' = istate /\ pos' = pos /\ Acked' = Acked
  BY <1>0 DEF vars, journal, ledger, Acked
<1>2. PICK stake \in [Instruments -> Nat] : Covers(stake) /\ Affordable(stake, L)
  BY DEF StakeInv
<1>3. \A d \in QueueDecs' : d.action = "buy" => \E i \in KeptBuys : d = Verdict.dec[i]
  BY QueuedBuys
<1>4. ASSUME NEW s \in [Instruments -> Nat], Affordable(s, L), Covers(s)' PROVE StakeInv(L)'
  <2>1. Affordable(s, L)'
    BY <1>4 DEF Affordable, StakeWorth
  <2> QED BY <1>4, <2>1 DEF StakeInv
<1>5. CASE KeptBuys = {}
  <2>1. \A d \in QueueDecs' : d.action # "buy"
    BY <1>3, <1>5
  <2>2. Covers(stake)'
    BY <1>1, <1>2, <2>1 DEF Covers
  <2> QED BY <1>2, <1>4, <2>2
<1>6. CASE KeptBuys # {}
  <2>0. PICK next : next = NextStake(stake)
    OBVIOUS
  <2>1. Affordable(next, L)
    BY <1>0, <1>2, <1>6, <2>0, CheckAffords
  <2>2. /\ next \in [Instruments -> Nat]
        /\ \A i \in KeptBuys : next[Verdict.dec[i].uid] = AtStake(Verdict.dec[i].uid) + Verdict.dec[i].qty
        /\ \A u \in Instruments : (\A i \in KeptBuys : Verdict.dec[i].uid # u) => next[u] \in {stake[u], AtStake(u)}
    BY <1>0, <2>0, NextStakeIs
  <2>3. \A u \in Instruments :
          /\ AtStake(u) \in Nat /\ pos[u].qty <= AtStake(u)
          /\ \A id \in Acked : order[id].uid = u /\ order[id].side = "buy" => pos[u].qty + order[id].qty <= AtStake(u)
    BY <1>0, AtStakeCovers
  <2>4. \A i \in KeptBuys : Verdict.dec[i].uid \in Instruments /\ Verdict.dec[i].qty \in Nat
    BY <1>0, KeptBuysOnes
  <2>5. /\ \A u \in Instruments : pos[u].qty \in Nat
        /\ \A id \in Acked : order[id].uid \in Instruments /\ order[id].qty \in Nat
    <3>1. TypeOK
      BY DEF Solo, CycleTypeOK
    <3>2. \A id \in Acked : order[id] \in Order
      BY <3>1 DEF Acked, TypeOK, Absent
    <3> QED BY <3>1, <3>2 DEF TypeOK, Order
  <2>6. \A u \in Instruments : next[u] \in Nat /\ (next[u] = stake[u] \/ AtStake(u) <= next[u])
    BY <2>2, <2>3, <2>4
  <2>7. \A u \in Instruments : pos[u].qty <= next[u]
    <3> SUFFICES ASSUME NEW u \in Instruments PROVE pos[u].qty <= next[u]
      OBVIOUS
    <3>1. pos[u].qty <= stake[u] /\ pos[u].qty <= AtStake(u)
      BY <1>2, <2>3 DEF Covers
    <3> QED BY <2>3, <2>5, <2>6, <3>1
  <2>8. \A id \in Acked : order[id].side = "buy" => pos[order[id].uid].qty + order[id].qty <= next[order[id].uid]
    <3> SUFFICES ASSUME NEW id \in Acked, order[id].side = "buy"
                 PROVE  pos[order[id].uid].qty + order[id].qty <= next[order[id].uid]
      OBVIOUS
    <3> DEFINE u == order[id].uid
               k == order[id].qty
    <3>1. u \in Instruments /\ k \in Nat /\ pos[u].qty + k <= stake[u] /\ pos[u].qty + k <= AtStake(u)
      BY <1>2, <2>3, <2>5 DEF Covers
    <3> HIDE DEF u, k
    <3>2. pos[u].qty + k <= next[u]
      BY <2>3, <2>5, <2>6, <3>1
    <3> QED BY <3>2 DEF u, k
  <2>9. \A d \in QueueDecs' : d.action = "buy" => pos[d.uid].qty + d.qty <= next[d.uid]
    <3>1. \A i \in KeptBuys : pos[Verdict.dec[i].uid].qty + Verdict.dec[i].qty <= next[Verdict.dec[i].uid]
      <4> SUFFICES ASSUME NEW i \in KeptBuys
                   PROVE  pos[Verdict.dec[i].uid].qty + Verdict.dec[i].qty <= next[Verdict.dec[i].uid]
        OBVIOUS
      <4> DEFINE u == Verdict.dec[i].uid
                 k == Verdict.dec[i].qty
      <4>1. u \in Instruments /\ k \in Nat /\ next[u] = AtStake(u) + k
        BY <2>2, <2>4
      <4> HIDE DEF u, k
      <4>2. pos[u].qty + k <= next[u]
        BY <2>3, <2>5, <4>1
      <4> QED BY <4>2 DEF u, k
    <3> QED BY <1>3, <3>1
  <2>10. Covers(next)'
    BY <1>1, <2>7, <2>8, <2>9 DEF Covers
  <2> QED BY <1>4, <2>1, <2>2, <2>10
<1> QED BY <1>5, <1>6

LEMMA StakeStep ==
  ASSUME Solo, NEW L \in Nat, PriceInv(L), StakeInv(L), [CycleNext]_cycleVars
  PROVE  StakeInv(L)'
<1>1. CASE CheckRisk
  BY <1>1, CheckStep
<1>2. CASE ~CheckRisk
  <2>1. PICK stake \in [Instruments -> Nat] : Covers(stake) /\ Affordable(stake, L)
    BY DEF StakeInv
  <2>2. \A d \in QueueDecs' : d.action = "buy" => d \in QueueDecs
    BY <1>2, QueueDecsStep DEF Solo
  <2>3. Covers(stake)'
    BY <2>1, <2>2, CoversStep
  <2>4. Affordable(stake, L)'
    BY <2>1 DEF Affordable, StakeWorth
  <2> QED BY <2>3, <2>4 DEF StakeInv
<1> QED BY <1>1, <1>2

LEMMA ExposureInit ==
  ASSUME CycleInit, NEW L \in Nat
  PROVE  PriceInv(L) /\ StakeInv(L)
<1>1. Init /\ cycle = NoCycle /\ istate = OldState
  BY DEF CycleInit, Init
<1>2. Acked = {}
  BY <1>1, JournalAssumption DEF Acked, Absent
<1>3. \A u \in Instruments : pos[u].qty = 0
  BY <1>1 DEF Init
<1>4. offer.quote = NoQuote /\ (\A u \in Instruments : cycle.view[u] = NoQuote) /\ StandsAt(NoQuote, L)
  BY <1>1 DEF Init, NoOffer, NoCycle, NoQuote, StandsAt
<1>5. PriceInv(L)
  BY <1>2, <1>3, <1>4 DEF PriceInv
<1>6. QueueDecs = {}
  BY <1>1 DEF NoCycle, QueueDecs
<1> DEFINE none == [u \in Instruments |-> 0]
           worth == StakeWorth(none, L)
<1>7. none \in [Instruments -> Nat] /\ \A u \in Instruments : none[u] = 0
  OBVIOUS
<1>8. \A u \in Instruments : worth[u] = 0
  <2>1. \A x, y \in Nat : 0 * x * y = 0
    OBVIOUS
  <2>2. \A u \in Instruments : Lot[u] \in Nat
    BY TradingAssumption
  <2> QED BY <2>1, <2>2 DEF StakeWorth
<1> HIDE DEF none, worth
<1>9. Risk.maxPosition \in Nat /\ Risk.maxTotal \in Nat
  BY CycleAssumption, WidthAssumption
<1>10. Total(worth, Instruments) = 0
  BY <1>8, UniverseLists, TotalOfZeros
<1>11. Covers(none)
  BY <1>2, <1>3, <1>6, <1>7 DEF Covers
<1>12. Affordable(none, L)
  BY <1>8, <1>9, <1>10 DEF Affordable, worth
<1> QED BY <1>5, <1>7, <1>11, <1>12 DEF StakeInv

\* What is held and resting to be bought is at most the stake.
LEMMA CommittedCovered ==
  ASSUME Solo, NEW stake \in [Instruments -> Nat], Covers(stake), NEW u \in Instruments
  PROVE  /\ pos[u].qty + RestingLots(u, "buy") \in Nat
         /\ pos[u].qty + RestingLots(u, "buy") <= stake[u]
<1> DEFINE S == {id \in Resting(u) : order[id].side = "buy"}
           held == pos[u].qty
<1>0. TypeOK /\ held \in Nat /\ stake[u] \in Nat /\ held <= stake[u]
  BY DEF Solo, CycleTypeOK, TypeOK, Covers
<1>1. S \subseteq Resting(u) /\ S \in SUBSET Journaled /\ IsFiniteSet(S)
  BY RestingOf, FS_Subset
<1>2. RestingLots(u, "buy") = MapThenSumSet(LAMBDA id : order[id].qty, S)
  BY Zenon DEF RestingLots
<1>3. MapThenSumSet(LAMBDA id : order[id].qty, S) = Total(LotsBy, S)
  BY <1>0, <1>1, LotsAreSum
<1>4. S = {} => Total(LotsBy, S) = 0
  BY TotalOfNone
<1>5. ASSUME NEW id \in S PROVE Total(LotsBy, S) \in Nat /\ held + Total(LotsBy, S) <= stake[u]
  <2>1. S = {id} /\ id \in Acked /\ order[id].uid = u /\ order[id].side = "buy"
    BY <1>1, RestingOf DEF Acked
  <2>2. LotsBy[id] = order[id].qty /\ order[id].qty \in Nat
    BY <1>0, <1>1, JournaledOrders
  <2>3. held + order[id].qty <= stake[u]
    BY <2>1 DEF Covers
  <2>4. Total(LotsBy, {id}) = LotsBy[id]
    BY <2>2, TotalOfOne
  <2> HIDE DEF S
  <2> QED BY <2>1, <2>2, <2>3, <2>4
<1>6. S # {} => \E id \in S : TRUE
  OBVIOUS
<1> HIDE DEF S, held
<1>7. Total(LotsBy, S) \in Nat /\ held + Total(LotsBy, S) \in Nat /\ held + Total(LotsBy, S) <= stake[u]
  <2>1. CASE S = {}
    BY <1>0, <1>4, <2>1
  <2>2. CASE S # {}
    BY <1>0, <1>5, <1>6, <2>2
  <2> QED BY <2>1, <2>2
<1> QED BY <1>2, <1>3, <1>7 DEF held

\* The worth of what is committed, as a sum over a function.
CommittedBy(price) == [u \in Instruments |-> CommittedWorth(u, price)]

LEMMA CommittedIsSum ==
  ASSUME NEW price, IntsOn(CommittedBy(price), Instruments)
  PROVE  MapThenSumSet(LAMBDA u : CommittedWorth(u, price), Instruments) = Total(CommittedBy(price), Instruments)
<1> DEFINE S == Instruments
           J(it) == it = [s \in SUBSET S |-> IF s = {} THEN 0
                            ELSE CommittedWorth(CHOOSE x \in s : TRUE, price) + it[s \ {CHOOSE x \in s : TRUE}]]
<1>1. MapThenSumSet(LAMBDA u : CommittedWorth(u, price), S) = (CHOOSE it : J(it))[S]
  BY Zenon DEF MapThenSumSet, MapThenFoldSet
<1>2. \A s \in SUBSET S : s # {} => CommittedBy(price)[OneOf(s)] = CommittedWorth(CHOOSE x \in s : TRUE, price)
  BY DEF OneOf, CommittedBy
<1>3. \A it : J(it) <=> IsSum(it, CommittedBy(price), S)
  BY <1>2 DEF IsSum, OneOf
<1> HIDE DEF J
<1>4. IsFiniteSet(S)
  BY UniverseLists
<1>5. J(CHOOSE it : J(it))
  BY <1>3, <1>4, SumExists
<1> QED BY <1>1, <1>3, <1>4, <1>5, SumIsTotal

LEMMA StakeMeans ==
  ASSUME Solo, NEW L \in Nat, PriceStandsStill(L), StakeInv(L)
  PROVE  ExposureKept
<1>1. PICK stake \in [Instruments -> Nat] : Covers(stake) /\ Affordable(stake, L)
  BY DEF StakeInv
<1> SUFFICES ASSUME NEW q \in Quotes
             PROVE  /\ \A u \in Instruments : CommittedWorth(u, q.last) <= Risk.maxPosition
                    /\ MapThenSumSet(LAMBDA u : CommittedWorth(u, q.last), Instruments) <= Risk.maxTotal
  BY Zenon DEF ExposureKept
<1>2. q.last \in {0, L} /\ q.last \in Nat /\ q.last <= L
  BY DEF PriceStandsStill, StandsAt
<1> DEFINE price == q.last
           w == CommittedBy(price)
           worth == StakeWorth(stake, L)
<1>3. \A u \in Instruments : w[u] = CommittedWorth(u, price)
  BY DEF CommittedBy
<1>4. price \in Nat /\ (price = 0 \/ price = L)
  BY <1>2
<1>5. ASSUME NEW u \in Instruments PROVE w[u] \in Nat /\ worth[u] \in Nat /\ w[u] <= worth[u]
  <2> DEFINE n == pos[u].qty + RestingLots(u, "buy")
             m == stake[u]
             l == Lot[u]
  <2>1. n \in Nat /\ n <= m /\ m \in Nat /\ l \in Nat
    BY <1>1, CommittedCovered, TradingAssumption
  <2>2. w[u] = n * l * price /\ worth[u] = m * l * L
    BY <1>3 DEF CommittedWorth, StakeWorth
  <2> HIDE DEF n, m, l, w, worth, price
  <2>3. n * l * L \in Nat /\ m * l * L \in Nat /\ n * l * L <= m * l * L
    BY <2>1, WorthBelow
  <2>4. n * l * 0 = 0
    BY <2>1
  <2>5. CASE price = L
    BY <2>2, <2>3, <2>5
  <2>6. CASE price = 0
    BY <2>2, <2>3, <2>4, <2>6
  <2> QED BY <1>4, <2>5, <2>6
<1>6. /\ \A u \in Instruments : worth[u] <= Risk.maxPosition
      /\ Total(worth, Instruments) <= Risk.maxTotal
  BY <1>1 DEF Affordable
<1>7. Risk.maxPosition \in Nat /\ Risk.maxTotal \in Nat /\ IsFiniteSet(Instruments)
  BY CycleAssumption, WidthAssumption, UniverseLists
<1> HIDE DEF worth
<1>8. \A u \in Instruments : CommittedWorth(u, price) <= Risk.maxPosition
  <2> HIDE DEF w
  <2> QED BY <1>3, <1>5, <1>6, <1>7
<1>9. MapThenSumSet(LAMBDA u : CommittedWorth(u, price), Instruments) = Total(w, Instruments)
  <2>1. IntsOn(w, Instruments)
    <3> HIDE DEF w
    <3> QED BY <1>5 DEF IntsOn
  <2> HIDE DEF price
  <2> QED BY <2>1, CommittedIsSum
<1>10. Total(w, Instruments) <= Risk.maxTotal
  <2> HIDE DEF w
  <2>1. IntsOn(w, Instruments) /\ IntsOn(worth, Instruments)
    BY <1>5 DEF IntsOn
  <2>2. Total(w, Instruments) <= Total(worth, Instruments)
    BY <1>5, <1>7, <2>1, TotalMonotone
  <2>3. Total(w, Instruments) \in Int /\ Total(worth, Instruments) \in Int
    BY <1>7, <2>1, TotalType
  <2> QED BY <1>6, <1>7, <2>2, <2>3
<1>11. MapThenSumSet(LAMBDA u : CommittedWorth(u, q.last), Instruments) <= Risk.maxTotal
  BY <1>9, <1>10
<1> QED BY <1>8, <1>11

\* While the price stands still, what is held and what rests to be bought keeps
\* within the limits of the instrument and of the portfolio: buildRiskState reads
\* the positions after assemble has read the open intents, so that an order that
\* fills in between counts twice and none is missed, and no fill, cancellation,
\* expiry or restart makes more of the buys Check lets through.
THEOREM ExposureHolds ==
  ASSUME NEW L \in Nat, PriceStandsStill(L)
  PROVE  CycleSpec => []ExposureKept
<1> DEFINE IndInv == Solo /\ PriceInv(L) /\ StakeInv(L)
<1>1. CycleInit => IndInv
  BY SoloInit, ExposureInit
<1>2. IndInv /\ [CycleNext]_cycleVars => IndInv'
  BY SoloStep, PriceStep, StakeStep
<1>3. IndInv => ExposureKept
  BY StakeMeans
<1> HIDE DEF IndInv
<1> QED BY <1>1, <1>2, <1>3, PTL DEF CycleSpec
=============================================================================
