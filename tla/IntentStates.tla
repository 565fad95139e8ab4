---------------------------- MODULE IntentStates ----------------------------
(***************************************************************************)
(* The lifecycle of an order intent: the states of internal/model's        *)
(* IntentState, its allowed edges, and the paths that the paper executor   *)
(* takes inside one transaction.                                           *)
(***************************************************************************)

\* "absent": no order_intents row has this client order id yet.
Absent == "absent"

IntentState == {"new", "submitted", "acked", "filled", "canceled", "rejected", "unknown"}

Terminal == {"filled", "canceled", "rejected"}

\* intentTransitions: the edges the store's compare-and-swap admits.
Edges ==
  {"new"} \X {"submitted", "rejected", "unknown"}
    \cup {"submitted"} \X {"acked", "filled", "canceled", "rejected", "unknown"}
    \cup {"acked"} \X {"filled", "canceled", "rejected", "unknown"}
    \cup {"unknown"} \X {"submitted", "acked", "filled", "canceled", "rejected"}

CanTransition(from, to) == <<from, to>> \in Edges
=============================================================================
