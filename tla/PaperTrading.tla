---------------------------- MODULE PaperTrading ----------------------------
(***************************************************************************)
(* The paper executor with the portfolio it settles into: the simulator of *)
(* internal/execution/paper, the order journal it writes through, the      *)
(* portfolio's ApplyFill, and the operator's cancel.                       *)
(*                                                                         *)
(* Four actors share one SQLite database over a single connection, so a    *)
(* transaction is one atomic step and everything between two transactions  *)
(* of one call can interleave with the other actors:                       *)
(*   scheduler  Submit and ExpireDay, never both at once (one goroutine)   *)
(*   collector  OnQuote, one quote at a time (the listener is synchronous) *)
(*   operator   RequestCancel, a read followed by a compare-and-swap       *)
(*   process    start-up (Portfolio.Init, Recover) and stop or crash       *)
(*                                                                         *)
(* An actor that works through a list holds the set it still has to visit; *)
(* it visits oldest first, as NonTerminal's ORDER BY does.                 *)
(***************************************************************************)
EXTENDS FillPricing, IntentStates, FiniteSetsExt

CONSTANTS Instruments,  \* instrument uids
          Lot, PriceTick,\* shares per lot and price tick; a tick of 0 is unknown
          Ids,          \* client order ids, numbered in their string order
          DecisionIds,  \* ids of decision rows
          Decisions,    \* the decisions Submit may be handed
          Quotes,       \* prices [bid, ask, last] an observation may carry
          Sessions,     \* session windows [start, end] of the trading days
          StatusInputs, \* per-instrument permissions a Submit may carry
          MaxQuoteAge,  \* app.go's 30 minutes; 0 disables the gate
          CashFloor,    \* risk.cash_floor; 0 disables the halt check
          StartingCash, \* paper.starting_cash
          MaxTime,      \* bound of the clock
          OldState, OldOrder, \* the journal an older robot left behind
          NoOrder

Order == [decision : DecisionIds, uid : Instruments, side : {"buy", "sell"},
          qty : Nat \ {0}, type : {"market", "limit"}, limit : Int,
          tif : {"day", "ioc"}, createdAt : Nat]

Decision == [action : {"buy", "sell", "hold", "close"}, uid : Instruments, qty : Int,
             type : {"market", "limit"}, limit : Int, tif : {"day", "ioc"}]

Window == [start : Nat, end : Nat]

Permission == [buy : BOOLEAN, sell : BOOLEAN]
Unrestricted == [buy |-> TRUE, sell |-> TRUE]

\* Session.IsOpen: half-open, and the zero window is open all day.
AllDay == [start |-> 0, end |-> 0]
IsOpen(s, at) == s = AllDay \/ (s.start <= at /\ at < s.end)

ASSUME TradingAssumption ==
  /\ Ids \subseteq Nat
  /\ Lot \in [Instruments -> Nat \ {0}]
  /\ PriceTick \in [Instruments -> Nat]
  /\ Decisions \subseteq Decision
  /\ Quotes \subseteq [bid : Nat, ask : Nat, last : Nat]
  /\ Sessions \subseteq Window
  /\ \A p \in StatusInputs : \E S \in SUBSET Instruments : p \in [S -> Permission]
  /\ {MaxQuoteAge, CashFloor, StartingCash, MaxTime} \subseteq Nat
  /\ NoOrder \notin Order

\* Submit was not always one transaction: an older journal may hold intents
\* that stopped at new or submitted, at most one per decision.
ASSUME JournalAssumption ==
  /\ OldState \in [Ids -> {Absent, "new", "submitted"}]
  /\ OldOrder \in [Ids -> Order \cup {NoOrder}]
  /\ \A id \in Ids : OldState[id] = Absent <=> OldOrder[id] = NoOrder
  /\ \A i, j \in Ids : OldState[i] # Absent /\ OldState[j] # Absent /\ i # j
                         => OldOrder[i].decision # OldOrder[j].decision

VARIABLES
  now,         \* the wall clock
  proc,        \* "down", "recovering" or "up"
  toRecover,   \* intents Recover has still to resolve
  \* the database
  istate,      \* order_intents.state, Absent when there is no such row
  order,       \* the other, never updated columns of order_intents
  fills,       \* the fills table
  cash, seeded,\* the balance of cash_ledger, and whether it has any row
  pos,         \* positions: quantity in lots and average price
  halted,      \* operational_halt
  session,     \* execution_session; AllDay also stands for no row
  status,      \* instrument_trading_status; all true also stands for no row
  \* calls in progress
  sched,       \* the scheduler's call, the intents ExpireDay has still to visit and
               \* the session window RunOnce computed when it started
  offer,       \* OnQuote: its quote, what it read, the intents it has still to visit
  cancels      \* RequestCancel calls between their read and their update

ledger == <<fills, cash, seeded, pos, halted>>
journal == <<istate, order>>
gates == <<session, status>>
startup == <<proc, toRecover>>
vars == <<now, startup, journal, ledger, gates, sched, offer, cancels>>

IdleSched == [call |-> "idle", todo |-> {}, window |-> AllDay]

NoQuote == [bid |-> 0, ask |-> 0, last |-> 0]
NoOffer == [todo |-> {}, quote |-> NoQuote, ts |-> 0, now |-> 0,
            session |-> AllDay, can |-> Unrestricted]

Init ==
  /\ now = 0
  /\ proc = "down" /\ toRecover = {}
  /\ istate = OldState /\ order = OldOrder
  /\ fills = {}
  /\ cash = 0 /\ seeded = FALSE
  /\ pos = [u \in Instruments |-> [qty |-> 0, avg |-> 0]]
  /\ halted = FALSE
  /\ session = AllDay
  /\ status = [u \in Instruments |-> Unrestricted]
  /\ sched = IdleSched /\ offer = NoOffer /\ cancels = {}

-----------------------------------------------------------------------------
(* The order journal *)

Journaled == {id \in Ids : istate[id] # Absent}

\* ORDER BY created_at, client_order_id
Before(i, j) ==
  \/ order[i].createdAt < order[j].createdAt
  \/ order[i].createdAt = order[j].createdAt /\ i < j
IsOldest(id, S) == id \in S /\ \A j \in S \ {id} : Before(id, j)

\* Mutant of Cas: an update by key that does not look at the current state.
BlindUpdate(id, from, to) ==
  /\ istate[id] # Absent
  /\ CanTransition(from, to)
  /\ istate' = [istate EXCEPT ![id] = to]
  /\ UNCHANGED order

\* A compare-and-swap that matches its row; the caller says what happens when
\* it does not (StateConflictError).
Cas(id, from, to) ==
  /\ istate[id] = from
  /\ CanTransition(from, to)
  /\ istate' = [istate EXCEPT ![id] = to]
  /\ UNCHANGED order

-----------------------------------------------------------------------------
(* Process: start-up, stop, time *)

\* Mutant of Funded: every start deposits again.
FundedAgain == cash + StartingCash

\* Portfolio.Init deposits the starting cash into an empty ledger only.
Funded == IF seeded THEN cash ELSE StartingCash

\* Mutant of Incomplete: submitted intents are taken for resting ones.
IncompleteNew == {id \in Ids : istate[id] = "new"}

\* What an interrupted submission left behind.
Incomplete == {id \in Ids : istate[id] \in {"new", "submitted"}}

\* App.Run up to Recover's read.
StartUp ==
  /\ proc = "down"
  /\ proc' = "recovering"
  /\ cash' = Funded
  /\ seeded' = TRUE
  /\ toRecover' = Incomplete
  /\ UNCHANGED <<now, journal, fills, pos, halted, gates, sched, offer, cancels>>

Recover(id) ==
  /\ proc = "recovering"
  /\ IsOldest(id, toRecover)
  /\ \/ Cas(id, "new", "rejected")
     \/ Cas(id, "submitted", "canceled")
  /\ toRecover' = toRecover \ {id}
  /\ UNCHANGED <<now, proc, ledger, gates, sched, offer, cancels>>

Recovered ==
  /\ proc = "recovering" /\ toRecover = {}
  /\ proc' = "up"
  /\ UNCHANGED <<now, toRecover, journal, ledger, gates, sched, offer, cancels>>

\* The process stops at any moment: what was not committed is gone.
Crash ==
  /\ proc # "down"
  /\ proc' = "down" /\ toRecover' = {}
  /\ sched' = IdleSched /\ offer' = NoOffer /\ cancels' = {}
  /\ UNCHANGED <<now, journal, ledger, gates>>

Tick ==
  /\ now < MaxTime
  /\ now' = now + 1
  /\ UNCHANGED <<startup, journal, ledger, gates, sched, offer, cancels>>

-----------------------------------------------------------------------------
(* Scheduler: RunOnce, reduced to its call of Submit *)

\* loop starts a cycle only at a tick inside today's window (the zero window is
\* always open); the cycle keeps that window, however long it then takes.
BeginCycle(window) ==
  /\ proc = "up" /\ sched = IdleSched
  /\ IsOpen(window, now)
  /\ sched' = [IdleSched EXCEPT !.call = "cycle", !.window = window]
  /\ UNCHANGED <<now, startup, journal, ledger, gates, offer, cancels>>

\* Submit persists the cycle's window, and the permissions of the instruments
\* that come with any.
BeginSubmit(permissions) ==
  /\ sched.call = "cycle"
  /\ session' = sched.window
  /\ status' = [u \in Instruments |->
                  IF u \in DOMAIN permissions THEN permissions[u] ELSE status[u]]
  /\ sched' = [IdleSched EXCEPT !.call = "submit"]
  /\ UNCHANGED <<now, startup, journal, ledger, offer, cancels>>

\* submitOne skips a hold, an unresolved close and a non-positive quantity,
\* and a decision that already has its intent (FindByDecision).
Submittable(d) == d.action \in {"buy", "sell"} /\ d.qty > 0

\* Mutant of HasIntent: only a resting intent counts as the decision's.
HasRestingIntent(did) == \E id \in Ids : istate[id] = "acked" /\ order[id].decision = did

HasIntent(did) == \E id \in Journaled : order[id].decision = did

Refused(d) == PriceTick[d.uid] <= 0 \/ (d.type = "limit" /\ d.limit <= 0)

\* The whole transaction of submitOne: new and then rejected, or new,
\* submitted and acked, under a freshly minted client order id.
SubmitOne(did, d, id) ==
  /\ sched.call = "submit"
  /\ Submittable(d) /\ ~HasIntent(did)
  /\ istate[id] = Absent
  /\ istate' = [istate EXCEPT ![id] = IF Refused(d) THEN "rejected" ELSE "acked"]
  /\ order' = [order EXCEPT ![id] =
                 [decision |-> did, uid |-> d.uid, side |-> d.action, qty |-> d.qty,
                  type |-> d.type, limit |-> d.limit, tif |-> d.tif, createdAt |-> now]]
  /\ UNCHANGED <<now, startup, ledger, gates, sched, offer, cancels>>

\* The cycle ends after its Submit, on an error in the middle of it, or without
\* an order to submit.
EndCycle ==
  /\ sched.call \in {"cycle", "submit"}
  /\ sched' = IdleSched
  /\ UNCHANGED <<now, startup, journal, ledger, gates, offer, cancels>>

-----------------------------------------------------------------------------
(* Scheduler: ExpireDay, called at a tick outside today's session window *)

\* Mutant of DayOrders: only those of the session that has ended.
DayOrdersOfSession ==
  {id \in Ids : istate[id] = "acked" /\ order[id].tif = "day" /\ order[id].createdAt < session.end}

DayOrders == {id \in Ids : istate[id] = "acked" /\ order[id].tif = "day"}

BeginExpire ==
  /\ proc = "up" /\ sched = IdleSched
  /\ \A s \in Sessions : ~IsOpen(s, now)
  /\ sched' = [IdleSched EXCEPT !.call = "expire", !.todo = DayOrders]
  /\ UNCHANGED <<now, startup, journal, ledger, gates, offer, cancels>>

\* Mutant of ExpireOne: a state conflict ends the call, as it does in OnQuote.
ExpireOneOrStop(id) ==
  /\ sched.call = "expire" /\ IsOldest(id, sched.todo)
  /\ \/ Cas(id, "acked", "canceled") /\ sched' = [sched EXCEPT !.todo = @ \ {id}]
     \/ istate[id] # "acked" /\ UNCHANGED journal /\ sched' = IdleSched
  /\ UNCHANGED <<now, startup, ledger, gates, offer, cancels>>

\* A state conflict is skipped: the order was filled or canceled meanwhile.
ExpireOne(id) ==
  /\ sched.call = "expire" /\ IsOldest(id, sched.todo)
  /\ \/ Cas(id, "acked", "canceled")
     \/ istate[id] # "acked" /\ UNCHANGED journal
  /\ sched' = [sched EXCEPT !.todo = @ \ {id}]
  /\ UNCHANGED <<now, startup, ledger, gates, offer, cancels>>

EndExpire ==
  /\ sched.call = "expire" /\ sched.todo = {}
  /\ sched' = IdleSched
  /\ UNCHANGED <<now, startup, journal, ledger, gates, offer, cancels>>

-----------------------------------------------------------------------------
(* Operator: RequestCancel *)

RequestCancel(id) ==
  /\ proc = "up" /\ cancels = {}
  /\ istate[id] \in IntentState \ Terminal
  /\ CanTransition(istate[id], "canceled")
  /\ cancels' = {[id |-> id, from |-> istate[id]]}
  /\ UNCHANGED <<now, startup, journal, ledger, gates, sched, offer>>

\* Mutant of CompleteCancel: the update trusts the state read before it.
CompleteCancelUnchecked(c) ==
  /\ c \in cancels
  /\ istate' = [istate EXCEPT ![c.id] = "canceled"]
  /\ cancels' = cancels \ {c}
  /\ UNCHANGED <<now, startup, order, ledger, gates, sched, offer>>

\* The compare-and-swap fails when the intent has moved since it was read.
CompleteCancel(c) ==
  /\ c \in cancels
  /\ \/ Cas(c.id, c.from, "canceled")
     \/ istate[c.id] # c.from /\ UNCHANGED journal
  /\ cancels' = cancels \ {c}
  /\ UNCHANGED <<now, startup, ledger, gates, sched, offer>>

-----------------------------------------------------------------------------
(* Collector: OnQuote *)

Resting(uid) == {id \in Ids : istate[id] = "acked" /\ order[id].uid = uid}

\* What OnQuote reads before its loop: the resting intents, the clock, the
\* session window and the instrument's permissions.  Quotes arrive late, and
\* a broker's clock may be ahead, so ts is any time.
OnQuote(uid, quote, ts) ==
  /\ proc = "up" /\ offer = NoOffer
  /\ Resting(uid) # {}
  /\ offer' = [todo |-> Resting(uid), quote |-> quote, ts |-> ts, now |-> now,
               session |-> session, can |-> status[uid]]
  /\ UNCHANGED <<now, startup, journal, ledger, gates, sched, cancels>>

\* Mutant of IsObservation: the observation the decision was made on counts.
IsSameObservation(id) == order[id].createdAt <= offer.ts /\ offer.ts <= offer.now

\* The next observation of an order: taken after its activation, not in the future.
IsObservation(id) == order[id].createdAt < offer.ts /\ offer.ts <= offer.now

IsStale == MaxQuoteAge > 0 /\ offer.now - offer.ts > MaxQuoteAge
SideAvailable(side) == IF side = "sell" THEN offer.can.sell ELSE offer.can.buy

\* The price tryFill would settle intent id at, as a set: empty when a gate
\* is closed or the order is not marketable.
FillPrices(id) ==
  IF /\ ~IsStale /\ IsOpen(offer.session, offer.ts)
     /\ SideAvailable(order[id].side) /\ PriceTick[order[id].uid] > 0
  THEN PriceFill(order[id], offer.quote, PriceTick[order[id].uid])
  ELSE {}

\* Mutant of NextOffer: the order just handled stays in the list.
SameOffer(id) == IF offer.todo = {id} THEN NoOffer ELSE offer

NextOffer(id) ==
  IF offer.todo = {id} THEN NoOffer ELSE [offer EXCEPT !.todo = @ \ {id}]

\* Not this order's observation, or a day order that does not fill on it.
OfferRests(id) ==
  /\ IsOldest(id, offer.todo)
  /\ IsObservation(id) => FillPrices(id) = {} /\ order[id].tif = "day"
  /\ offer' = NextOffer(id)
  /\ UNCHANGED <<now, startup, journal, ledger, gates, sched, cancels>>

OfferCancelsIoc(id) ==
  /\ IsOldest(id, offer.todo)
  /\ IsObservation(id) /\ FillPrices(id) = {} /\ order[id].tif = "ioc"
  /\ Cas(id, "acked", "canceled")
  /\ offer' = NextOffer(id)
  /\ UNCHANGED <<now, startup, ledger, gates, sched, cancels>>

-----------------------------------------------------------------------------
(* The settlement transaction: the intent's update, the fills row, ApplyFill *)
(* and enforceCashFloor *)

Fee(o, price) == Commission(price, o.qty, Lot[o.uid])

\* Mutant of CashDelta: the fee of a sell is credited.
CashDeltaPlusFee(side, notional, fee) ==
  IF side = "buy" THEN -notional - fee ELSE notional + fee

\* What the cash ledger gains from a fill: its notional and its fee.
CashDelta(side, notional, fee) ==
  IF side = "buy" THEN -notional - fee ELSE notional - fee

\* Mutant of CanApply: no oversell check.
CanApplyAnything(o, price) == price >= 0

\* ApplyFill: OversellError leaves a sell beyond the position unapplied.
CanApply(o, price) == price >= 0 /\ (o.side = "sell" => o.qty <= pos[o.uid].qty)

PositionAfter(o, price) ==
  LET held == pos[o.uid] IN
  IF o.side = "buy"
  THEN [qty |-> held.qty + o.qty,
        avg |-> RecomputeAvgPrice(held.avg, held.qty, price, o.qty)]
  ELSE [qty |-> held.qty - o.qty, avg |-> IF held.qty = o.qty THEN 0 ELSE held.avg]

RealizedPnL(o, price) ==
  IF o.side = "buy" THEN 0 ELSE Notional(price - pos[o.uid].avg, o.qty, Lot[o.uid])

\* Mutant of BelowFloor: only a negative balance counts.
BelowZero(balance) == CashFloor > 0 /\ balance < 0

BelowFloor(balance) == CashFloor > 0 /\ balance < CashFloor

ApplyFill(id, price) ==
  LET o == order[id] IN
  /\ CanApply(o, price)
  /\ fills' = fills \cup {[intent |-> id, price |-> price, qty |-> o.qty, fee |-> Fee(o, price),
                           ts |-> offer.now, pnl |-> RealizedPnL(o, price), obs |-> offer.ts]}
  /\ pos' = [pos EXCEPT ![o.uid] = PositionAfter(o, price)]
  /\ cash' = cash + CashDelta(o.side, Notional(price, o.qty, Lot[o.uid]), Fee(o, price))
  /\ halted' = (halted \/ BelowFloor(cash'))
  /\ UNCHANGED seeded

OfferSettles(id) ==
  /\ IsOldest(id, offer.todo) /\ IsObservation(id)
  /\ Cas(id, "acked", "filled")
  /\ \E price \in FillPrices(id) : ApplyFill(id, price)
  /\ offer' = NextOffer(id)
  /\ UNCHANGED <<now, startup, gates, sched, cancels>>

\* A cancel or settlement that fails is rolled back and ends the whole call:
\* the orders behind it are not offered this quote.
OfferFails(id) ==
  /\ IsOldest(id, offer.todo) /\ IsObservation(id)
  /\ \/ istate[id] # "acked" /\ (order[id].tif = "ioc" \/ FillPrices(id) # {})
     \/ \E price \in FillPrices(id) : ~CanApply(order[id], price)
  /\ offer' = NoOffer
  /\ UNCHANGED <<now, startup, journal, ledger, gates, sched, cancels>>

-----------------------------------------------------------------------------
Submission ==
  \/ \E s \in Sessions : BeginCycle(s)
  \/ \E p \in StatusInputs : BeginSubmit(p)
  \/ \E did \in DecisionIds, d \in Decisions, id \in Ids : SubmitOne(did, d, id)
  \/ EndCycle

Expiry == BeginExpire \/ (\E id \in Ids : ExpireOne(id)) \/ EndExpire

Observation ==
  \/ \E uid \in Instruments, q \in Quotes, ts \in 0..MaxTime : OnQuote(uid, q, ts)
  \/ \E id \in Ids : OfferRests(id) \/ OfferCancelsIoc(id) \/ OfferSettles(id) \/ OfferFails(id)

Operator == (\E id \in Ids : RequestCancel(id)) \/ (\E c \in cancels : CompleteCancel(c))

Process == StartUp \/ (\E id \in Ids : Recover(id)) \/ Recovered \/ Crash \/ Tick

Next == Submission \/ Expiry \/ Observation \/ Operator \/ Process

Spec == Init /\ [][Next]_vars

\* The loops of the three goroutines run on as long as the process is up, and
\* the scheduler ticks, unpaused, while the market is closed.  Nothing makes a
\* quote, a decision, an operator or a restart come.
FairSpec ==
  /\ Spec
  /\ WF_vars(\E id \in Ids : OfferRests(id) \/ OfferCancelsIoc(id) \/ OfferSettles(id) \/ OfferFails(id))
  /\ WF_vars(EndCycle)
  /\ WF_vars(Expiry)
  /\ WF_vars(Tick)

-----------------------------------------------------------------------------
Fill == [intent : Ids, price : Nat, qty : Nat \ {0}, fee : Int, ts : Nat, pnl : Int, obs : Nat]

\* Every variable has its type, and a journal row exists exactly for the ids
\* that have a state.
TypeOK ==
  /\ now \in Nat /\ proc \in {"down", "recovering", "up"} /\ toRecover \in SUBSET Ids
  /\ istate \in [Ids -> IntentState \cup {Absent}]
  /\ order \in [Ids -> Order \cup {NoOrder}]
  /\ \A id \in Ids : istate[id] = Absent <=> order[id] = NoOrder
  /\ fills \in SUBSET Fill
  /\ cash \in Int /\ seeded \in BOOLEAN /\ halted \in BOOLEAN
  /\ pos \in [Instruments -> [qty : Nat, avg : Int]]
  /\ session \in Window /\ status \in [Instruments -> Permission]
  /\ sched \in [call : {"idle", "cycle", "submit", "expire"}, todo : SUBSET Ids, window : Window]
  /\ offer \in [todo : SUBSET Ids, quote : [bid : Nat, ask : Nat, last : Nat], ts : Nat,
                now : Nat, session : Window, can : Permission]
  /\ cancels \in SUBSET [id : Ids, from : IntentState]

\* An intent is filled exactly when the fills table holds one row for it, for
\* its whole quantity (settle: full fills only, in the transaction of the
\* acked-to-filled update).
FillsMatchIntents ==
  /\ \A f \in fills : istate[f.intent] = "filled" /\ f.qty = order[f.intent].qty
  /\ \A id \in Ids : istate[id] = "filled" => \E f \in fills : f.intent = id
  /\ \A f, g \in fills : f.intent = g.intent => f = g

SignedQty(f) == IF order[f.intent].side = "buy" THEN f.qty ELSE -f.qty
FillsOf(uid) == {f \in fills : order[f.intent].uid = uid}
CashOf(f) ==
  LET o == order[f.intent] IN CashDelta(o.side, Notional(f.price, f.qty, Lot[o.uid]), f.fee)

\* The books agree with the fills table at every moment: each position is the
\* sum of its fills, never short, and the cash balance is the one deposit plus
\* what the fills moved, however the settlements, cancels, crashes and restarts
\* interleave.
BooksBalance ==
  /\ \A u \in Instruments : pos[u].qty = MapThenSumSet(SignedQty, FillsOf(u)) /\ pos[u].qty >= 0
  /\ cash = (IF seeded THEN StartingCash ELSE 0) + MapThenSumSet(CashOf, fills)

\* The realized profit written on the sell fills accounts for everything the
\* instrument's fills paid and received except what the open lots cost at their
\* average price; each buy rounds that average by at most half a unit per share.
RealizedPnLReconciles ==
  \A u \in Instruments :
    LET own   == FillsOf(u)
        buys  == {f \in own : order[f.intent].side = "buy"}
        moved == MapThenSumSet(LAMBDA f : CashOf(f) + f.fee, own)
        gap   == MapThenSumSet(LAMBDA f : f.pnl, own) - moved - Notional(pos[u].avg, pos[u].qty, Lot[u])
        held  == MapThenSumSet(LAMBDA f : f.qty, buys)
    IN  2 * AbsOf(gap) <= Cardinality(buys) * held * Lot[u]

\* A fill that took the cash below the floor has latched the halt
\* (enforceCashFloor, in the fill's own transaction).
FloorBreachHalts == fills # {} /\ cash < CashFloor /\ CashFloor > 0 => halted

\* Next-observation discipline: every fill was priced on an observation taken
\* after the order was journaled, not in the future, fresh, within a window
\* that Submit persisted, and never worse than the order's limit.
FillsAreObservations ==
  \A f \in fills : LET o == order[f.intent] IN
    /\ o.createdAt < f.obs /\ f.obs <= f.ts /\ f.ts <= now
    /\ MaxQuoteAge > 0 => f.ts - f.obs <= MaxQuoteAge
    /\ \E s \in Sessions \cup {AllDay} : IsOpen(s, f.obs)
    /\ o.type = "limit" => IF o.side = "buy" THEN f.price <= o.limit ELSE f.price >= o.limit

\* A decision is journaled at most once, however often Submit is retried.
OneIntentPerDecision ==
  \A i, j \in Journaled : order[i].decision = order[j].decision => i = j

\* Once Recover has run, every intent is resting or terminal: none is stranded
\* in a state that no quote and no expiry looks at.
NoneStranded == proc = "up" => \A id \in Journaled : istate[id] \in {"acked"} \cup Terminal

OutcomesKept ==
  \A id \in Journaled : /\ order'[id] = order[id]
                        /\ istate[id] \in Terminal => istate'[id] = istate[id]

\* The outcome of an order is final and its row is immutable, whoever races.
OutcomesAreFinal == [][OutcomesKept]_vars

ExpiryReturnsClean ==
  sched.call = "expire" /\ sched' = IdleSched /\ proc' = "up" =>
    \A id \in Ids : ~(istate'[id] = "acked" /\ order'[id].tif = "day")

\* ExpireDay leaves no day order resting when it returns, even when fills and
\* operator cancels run between its read and its updates.
ExpiryIsComplete == [][ExpiryReturnsClean]_vars

\* simulator.go:340: "Immediate-or-cancel orders never rest across
\* observations": when OnQuote returns, no ioc order it was offered is resting.
IocNeverRests ==
  [][offer # NoOffer /\ offer' = NoOffer /\ proc' = "up" =>
       \A id \in offer.todo : order[id].tif = "ioc" /\ IsObservation(id) => istate'[id] # "acked"]_vars

\* While the process stays up and unpaused, an offered quote is worked through
\* and a day order does not outlive the session for ever.
QuotesComplete == offer # NoOffer ~> offer = NoOffer
DayOrdersEnd ==
  <>[](proc = "up") =>
    \A id \in Ids : istate[id] = "acked" /\ order[id].tif = "day" ~> istate[id] \in Terminal
=============================================================================
