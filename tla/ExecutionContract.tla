-------------------------- MODULE ExecutionContract --------------------------
(***************************************************************************)
(* What the executor and the portfolio together promise to the rest of the *)
(* robot, without journals, calls or restarts: a decision becomes at most  *)
(* one order, an order has at most one outcome, and money and positions    *)
(* change only in the step that gives an order the outcome "filled", by    *)
(* exactly what that fill costs.  PaperTrading implements it.              *)
(***************************************************************************)
EXTENDS FillPricing

CONSTANTS DecisionIds, Instruments, Lot, CashFloor, StartingCash,
          Lots,  \* the quantities an order may have
          Prices \* the prices a fill may have

VARIABLES outcome,  \* of each decision: none, working, or its order's end
          position, \* lots held of each instrument
          cash, funded, halted

vars == <<outcome, position, cash, funded, halted>>

Init ==
  /\ outcome \in [DecisionIds -> {"none", "working"}]
  /\ position = [u \in Instruments |-> 0]
  /\ cash = 0 /\ funded = FALSE /\ halted = FALSE

Fund ==
  /\ ~funded
  /\ funded' = TRUE /\ cash' = StartingCash
  /\ UNCHANGED <<outcome, position, halted>>

Becomes(d, from, to) == outcome[d] \in from /\ outcome' = [outcome EXCEPT ![d] = to]

Accept(d) == Becomes(d, {"none"}, "working") /\ UNCHANGED <<position, cash, funded, halted>>
Reject(d) == Becomes(d, {"none", "working"}, "rejected") /\ UNCHANGED <<position, cash, funded, halted>>
Cancel(d) == Becomes(d, {"working"}, "canceled") /\ UNCHANGED <<position, cash, funded, halted>>

\* A fill of q lots of u at price p; no sell exceeds what is held.
Bought(u, q, p) ==
  /\ position' = [position EXCEPT ![u] = @ + q]
  /\ cash' = cash - Notional(p, q, Lot[u]) - Commission(p, q, Lot[u])
Sold(u, q, p) ==
  /\ q <= position[u]
  /\ position' = [position EXCEPT ![u] = @ - q]
  /\ cash' = cash + Notional(p, q, Lot[u]) - Commission(p, q, Lot[u])

Fill(d) ==
  /\ Becomes(d, {"working"}, "filled")
  /\ \E u \in Instruments, q \in Lots, p \in Prices : Bought(u, q, p) \/ Sold(u, q, p)
  /\ halted' = (halted \/ (CashFloor > 0 /\ cash' < CashFloor))
  /\ UNCHANGED funded

Next == Fund \/ \E d \in DecisionIds : Accept(d) \/ Reject(d) \/ Cancel(d) \/ Fill(d)

Spec == Init /\ [][Next]_vars
=============================================================================
