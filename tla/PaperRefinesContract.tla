------------------------ MODULE PaperRefinesContract ------------------------
(***************************************************************************)
(* The refinement mapping from PaperTrading to ExecutionContract: a        *)
(* decision's outcome is what its intent has come to, the position and the *)
(* money are those of the database.                                        *)
(***************************************************************************)
EXTENDS PaperTrading

IntentsOf(did) == {id \in Journaled : order[id].decision = did}

Outcome(did) ==
  IF IntentsOf(did) = {} THEN "none"
  ELSE LET s == istate[CHOOSE id \in IntentsOf(did) : TRUE]
       IN  IF s \in Terminal THEN s ELSE "working"

OrderedLots == {d.qty : d \in {d \in Decisions : d.qty > 0}}
PossiblePrices ==
  UNION {PriceFill([side |-> d.action, type |-> d.type, limit |-> d.limit], q, PriceTick[d.uid]) :
           d \in {d \in Decisions : Submittable(d) /\ ~Refused(d)}, q \in Quotes}

Contract == INSTANCE ExecutionContract WITH
  Lots <- OrderedLots, Prices <- PossiblePrices,
  outcome <- [did \in DecisionIds |-> Outcome(did)],
  position <- [u \in Instruments |-> pos[u].qty],
  funded <- seeded

\* Every step of the executor is a step of its contract or leaves it as it is:
\* interleaved settlements, conflicting cancels, retried submissions, crashes
\* and restarts are invisible to whoever looks at decisions and money only.
ImplementsContract == Contract!Spec
=============================================================================
