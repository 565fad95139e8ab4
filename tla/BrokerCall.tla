------------------------------ MODULE BrokerCall ------------------------------
(***************************************************************************)
(* One call of the broker's command line by internal/tinvestcli: the lock  *)
(* of its method group, the child process, the local deadline, the         *)
(* caller's cancellation, the classification of what the child leaves      *)
(* behind and the retries of reads.                                        *)
(*                                                                         *)
(* The child and the broker are external: a mutation is sent, executed or  *)
(* refused on its own time, also after the child is dead, and the child    *)
(* tells the truth in an answer of which at most one aspect is damaged.    *)
(***************************************************************************)
EXTENDS Integers

CONSTANTS Callers,  \* goroutines that call
          Requests, \* what they call for
          Retries,  \* further attempts of a read
          NoCaller

Groups == {"marketdata", "instruments", "orders", "operations", "users"}
Calls == [grp : Groups, read : BOOLEAN, checked : BOOLEAN, reconcile : BOOLEAN, handshake : BOOLEAN,
          valid : BOOLEAN]

ASSUME BrokerCallAssumption ==
  /\ Retries \in Nat /\ NoCaller \notin Callers
  /\ Requests # {} /\ Requests \subseteq Calls

VARIABLES
  pc,       \* where each call is
  req,      \* what it asks for
  lock,     \* the holder of each group's lock
  attempt,  \* its retries
  canceled, \* whether its context has been canceled
  late,     \* whether the deadline of its child has passed
  child,    \* its child process
  verdict,  \* what the output of the child that exited will be classified as
  spawned,  \* the children it has started, if it is a mutation
  order,    \* its mutation, as the broker knows it
  result    \* what it has returned

callVars == <<pc, req, lock, attempt, canceled, late, child, verdict, spawned, order, result>>

\* What a method of the client asks for: the group, whether it reads, whether a
\* success must carry its payload, and what else sets it apart.
Read(group, checked) ==
  [grp |-> group, read |-> TRUE, checked |-> checked, reconcile |-> FALSE, handshake |-> FALSE, valid |-> TRUE]
InstrumentGet == Read("instruments", TRUE)
InstrumentsSearch == Read("instruments", FALSE)
QuotesLast == Read("marketdata", FALSE)
CandlesGet == Read("marketdata", TRUE)
OrderbookGet == Read("marketdata", FALSE)
PortfolioGet == Read("operations", TRUE)
PositionsGet == Read("operations", FALSE)
OperationsList == Read("operations", FALSE)
OrdersGet == Read("orders", TRUE)
OrdersList == Read("orders", FALSE)
StopOrdersList == Read("orders", FALSE)
Version == Read("users", FALSE)
Handshake == [Read("users", TRUE) EXCEPT !.handshake = TRUE]
OrdersCancel == [Read("orders", TRUE) EXCEPT !.read = FALSE]
OrdersReconcile == [OrdersCancel EXCEPT !.reconcile = TRUE]
OrdersPlace(validOrderID) == [OrdersCancel EXCEPT !.valid = validOrderID]

ReadErrors == {"RATE_LIMITED", "NETWORK", "AUTH", "USAGE", "INTERNAL"}
Codes == ReadErrors \cup {"POLICY", "BROKER_REJECTED", "UNCONFIRMED"}

ExitForErrorCode(code) ==
  CASE code \in {"USAGE", "POLICY"} -> 2
    [] code = "AUTH" -> 3
    [] code = "RATE_LIMITED" -> 4
    [] code = "BROKER_REJECTED" -> 5
    [] code = "NETWORK" -> 6
    [] code = "UNCONFIRMED" -> 7
    [] OTHER -> 1

-----------------------------------------------------------------------------
\* The answers of the command line: a success, the exit 1 of a reconcile that
\* leaves intents unresolved, and an error; and those with one aspect damaged.
Success == [full |-> TRUE, parses |-> TRUE, schema |-> TRUE, ok |-> TRUE, code |-> "none",
            exit |-> 0, hint |-> FALSE, payload |-> TRUE]
Unresolved == [Success EXCEPT !.exit = 1]
Failure(code) == [Success EXCEPT !.ok = FALSE, !.code = code, !.exit = ExitForErrorCode(code),
                                 !.hint = code = "UNCONFIRMED", !.payload = FALSE]

Damaged(a) ==
  {[a EXCEPT !.full = FALSE], [a EXCEPT !.parses = FALSE], [a EXCEPT !.schema = FALSE],
   [a EXCEPT !.ok = ~@], [a EXCEPT !.hint = ~@], [a EXCEPT !.payload = ~@]}
    \cup {[a EXCEPT !.exit = e] : e \in -1..8}
    \cup {[a EXCEPT !.code = k] : k \in Codes \cup {"none", "other"}}

\* What the command line may have to say of a call, given what became of it.
Truth(r, o) ==
  IF r.read THEN {Success} \cup {Failure(k) : k \in ReadErrors}
  ELSE CASE o = "none"     -> {Failure(k) : k \in ReadErrors \cup {"POLICY"}}
         [] o = "inflight" -> {Failure(k) : k \in {"NETWORK", "UNCONFIRMED", "INTERNAL"}}
         [] o = "done"     -> {Success} \cup {a \in {Unresolved} : r.reconcile}
                                \cup {Failure(k) : k \in {"NETWORK", "UNCONFIRMED", "INTERNAL"}}
         [] o = "refused"  -> {Failure(k) : k \in {"BROKER_REJECTED", "UNCONFIRMED", "NETWORK"}}

-----------------------------------------------------------------------------
\* Mutant of Contradicts: the exit code alone decides.
ContradictsNever(a) == FALSE

\* The exit code of a failure has to be the one of its error code.
Contradicts(a) == ~a.ok /\ a.exit \in 1..7 /\ ExitForErrorCode(a.code) # a.exit

\* classify and the caps before it: no answer of the broker at all.
Untrusted(r, a) ==
  \/ ~a.full \/ ~a.parses
  \/ ~a.schema /\ ~r.handshake
  \/ a.ok = (a.code # "none")
  \/ Contradicts(a)
  \/ a.exit \notin 0..7
  \/ ~a.ok /\ a.exit = 0
  \/ a.ok /\ a.exit # 0 /\ ~(r.reconcile /\ a.exit = 1)
  \/ a.exit = 7 /\ ~a.hint

ErrorOf(a) ==
  CASE a.exit = 1 -> "internal"
    [] a.exit = 2 -> IF a.code = "POLICY" THEN "policy" ELSE "usage"
    [] a.exit = 3 -> "auth"
    [] a.exit = 4 -> "rate"
    [] a.exit = 5 -> "rejected"
    [] a.exit = 6 -> "network"
    [] OTHER -> "unknown"

\* A success without the payload it must carry is none, and a version that is not in the
\* allowlist refuses the start.
Classify(r, a) ==
  IF Untrusted(r, a) THEN "protocol"
  ELSE IF ~a.ok THEN ErrorOf(a)
  ELSE IF r.checked /\ ~a.payload THEN "protocol"
  ELSE IF ~a.schema THEN "handshake" ELSE "ok"

IsRetryable(outcome) == outcome \in {"network", "rate"}
MaxAttempts(r) == IF r.read THEN 1 + Retries ELSE 1

-----------------------------------------------------------------------------
CallInit ==
  /\ pc = [c \in Callers |-> "idle"] /\ req \in [Callers -> {CHOOSE r \in Requests : TRUE}]
  /\ lock = [g \in Groups |-> NoCaller]
  /\ attempt = [c \in Callers |-> 0] /\ spawned = [c \in Callers |-> 0]
  /\ canceled = [c \in Callers |-> FALSE] /\ late = [c \in Callers |-> FALSE]
  /\ child = [c \in Callers |-> "none"] /\ verdict = [c \in Callers |-> "none"]
  /\ order = [c \in Callers |-> "none"] /\ result = [c \in Callers |-> "none"]

\* A call begins; a placement without a valid client order id ends at once.
Begin(c, r) ==
  /\ pc[c] = "idle"
  /\ req' = [req EXCEPT ![c] = r]
  /\ pc' = [pc EXCEPT ![c] = IF r.valid THEN "lock" ELSE "ended"]
  /\ result' = [result EXCEPT ![c] = IF r.valid THEN "none" ELSE "usage"]
  /\ UNCHANGED <<lock, attempt, canceled, late, child, verdict, spawned, order>>

\* The wait for the lock heeds no cancellation.
Acquire(c) ==
  /\ pc[c] = "lock" /\ lock[req[c].grp] = NoCaller
  /\ lock' = [lock EXCEPT ![req[c].grp] = c]
  /\ pc' = [pc EXCEPT ![c] = "spawn"]
  /\ UNCHANGED <<req, attempt, canceled, late, child, verdict, spawned, order, result>>

\* Whatever a call ends with, it lets go of its lock; its other variables are
\* local to it and go with it.
End(c, outcome) ==
  /\ pc' = [pc EXCEPT ![c] = "ended"] /\ result' = [result EXCEPT ![c] = outcome]
  /\ lock' = [lock EXCEPT ![req[c].grp] = NoCaller]
  /\ attempt' = [attempt EXCEPT ![c] = 0] /\ verdict' = [verdict EXCEPT ![c] = "none"]
  /\ canceled' = [canceled EXCEPT ![c] = FALSE] /\ late' = [late EXCEPT ![c] = FALSE]

\* cmd.Start, which fails by itself or for a context that is canceled already.
StartFails(c) ==
  /\ pc[c] = "spawn" /\ End(c, "resolve")
  /\ UNCHANGED <<req, child, spawned, order>>

Start(c) ==
  /\ pc[c] = "spawn" /\ ~canceled[c]
  /\ pc' = [pc EXCEPT ![c] = "wait"]
  /\ child' = [child EXCEPT ![c] = "running"] /\ late' = [late EXCEPT ![c] = FALSE]
  /\ verdict' = [verdict EXCEPT ![c] = "none"]
  /\ spawned' = [spawned EXCEPT ![c] = IF req[c].read THEN @ ELSE @ + 1]
  /\ UNCHANGED <<req, lock, attempt, canceled, order, result>>

-----------------------------------------------------------------------------
\* The child sends the mutation; the broker executes or refuses it, whether or
\* not anyone still waits.
Send(c) ==
  /\ child[c] = "running" /\ ~req[c].read /\ order[c] = "none"
  /\ order' = [order EXCEPT ![c] = "inflight"]
  /\ UNCHANGED <<pc, req, lock, attempt, canceled, late, child, verdict, spawned, result>>

BrokerHandles(c, o) ==
  /\ order[c] = "inflight" /\ o \in {"done", "refused"}
  /\ order' = [order EXCEPT ![c] = o]
  /\ UNCHANGED <<pc, req, lock, attempt, canceled, late, child, verdict, spawned, result>>

\* The child exits and leaves v to be made of its output.
ChildExits(c, v) ==
  /\ child[c] = "running"
  /\ child' = [child EXCEPT ![c] = "exited"] /\ verdict' = [verdict EXCEPT ![c] = v]
  /\ UNCHANGED <<pc, req, lock, attempt, canceled, late, spawned, order, result>>

Answer(c) ==
  \E a \in Truth(req[c], order[c]) : \E d \in {a} \cup Damaged(a) : ChildExits(c, Classify(req[c], d))

\* Killed by a third party, it has no exit code and as a rule no output; or its
\* pipes fail and Wait has no exit status either.
ChildDies(c) == ChildExits(c, "protocol")
WaitFails(c) == ChildExits(c, IF req[c].read THEN "network" ELSE "unknown")

\* The context kills the child, if it still runs, at a cancellation and at the
\* local deadline; the call looks at both when Wait returns.
Killed(c) == [child EXCEPT ![c] = IF @ = "running" THEN "exited" ELSE @]

Cancel(c) ==
  /\ pc[c] \in {"lock", "spawn", "wait", "backoff"} /\ ~canceled[c]
  /\ canceled' = [canceled EXCEPT ![c] = TRUE] /\ child' = Killed(c)
  /\ UNCHANGED <<pc, req, lock, attempt, late, verdict, spawned, order, result>>

Backstop(c) ==
  /\ pc[c] = "wait" /\ ~late[c]
  /\ late' = [late EXCEPT ![c] = TRUE] /\ child' = Killed(c)
  /\ UNCHANGED <<pc, req, lock, attempt, canceled, verdict, spawned, order, result>>

\* runProcess after Wait, and classify.
Outcome(c) ==
  IF canceled[c] THEN IF req[c].read THEN "canceled" ELSE "unknown"
  ELSE IF late[c] THEN IF req[c].read THEN "network" ELSE "unknown"
  ELSE verdict[c]

Finish(c) ==
  /\ pc[c] = "wait" /\ child[c] = "exited"
  /\ IF IsRetryable(Outcome(c)) /\ attempt[c] + 1 < MaxAttempts(req[c])
     THEN /\ pc' = [pc EXCEPT ![c] = "backoff"]
          /\ verdict' = [verdict EXCEPT ![c] = "none"] /\ late' = [late EXCEPT ![c] = FALSE]
          /\ UNCHANGED <<lock, result, attempt, canceled>>
     ELSE End(c, Outcome(c))
  /\ child' = [child EXCEPT ![c] = "none"]
  /\ UNCHANGED <<req, spawned, order>>

\* Mutant of Retried: an attempt that failed is not counted.
RetriedUncounted(c) == attempt

Retried(c) == [attempt EXCEPT ![c] = @ + 1]

BackoffEnds(c) ==
  /\ pc[c] = "backoff"
  /\ pc' = [pc EXCEPT ![c] = "spawn"] /\ attempt' = Retried(c)
  /\ UNCHANGED <<req, lock, canceled, late, child, verdict, spawned, order, result>>

BackoffCanceled(c) ==
  /\ pc[c] = "backoff" /\ canceled[c] /\ End(c, "canceled")
  /\ UNCHANGED <<req, child, spawned, order>>

Return(c) ==
  /\ pc[c] = "ended" /\ pc' = [pc EXCEPT ![c] = "idle"]
  /\ req' = [req EXCEPT ![c] = CHOOSE r \in Requests : TRUE] /\ result' = [result EXCEPT ![c] = "none"]
  /\ spawned' = [spawned EXCEPT ![c] = 0] /\ order' = [order EXCEPT ![c] = "none"]
  /\ UNCHANGED <<lock, attempt, canceled, late, child, verdict>>

CallNext ==
  \E c \in Callers :
    \/ \E r \in Requests : Begin(c, r)
    \/ Acquire(c) \/ StartFails(c) \/ Start(c)
    \/ Send(c) \/ \E o \in {"done", "refused"} : BrokerHandles(c, o)
    \/ Answer(c) \/ ChildDies(c) \/ WaitFails(c) \/ Cancel(c) \/ Backstop(c)
    \/ Finish(c) \/ BackoffEnds(c) \/ BackoffCanceled(c) \/ Return(c)

\* Go's mutex hands itself to a waiter that starves; timers fire and goroutines
\* run. Neither the child nor the broker owes anything.
CallFairness ==
  \A c \in Callers :
    /\ SF_callVars(Acquire(c))
    /\ WF_callVars(Start(c) \/ StartFails(c))
    /\ WF_callVars(Backstop(c)) /\ WF_callVars(Finish(c))
    /\ WF_callVars(BackoffEnds(c) \/ BackoffCanceled(c))

CallSpec == CallInit /\ [][CallNext]_callVars /\ CallFairness
-----------------------------------------------------------------------------
Outcomes == {"none", "ok", "protocol", "handshake", "internal", "policy", "usage", "auth", "rate",
             "rejected", "network", "unknown", "canceled", "resolve"}

CallTypeOK ==
  /\ req \in [Callers -> Requests]
  /\ pc \in [Callers -> {"idle", "lock", "spawn", "wait", "backoff", "ended"}]
  /\ lock \in [Groups -> Callers \cup {NoCaller}]
  /\ attempt \in [Callers -> Nat] /\ spawned \in [Callers -> Nat]
  /\ canceled \in [Callers -> BOOLEAN] /\ late \in [Callers -> BOOLEAN]
  /\ child \in [Callers -> {"none", "running", "exited"}]
  /\ order \in [Callers -> {"none", "inflight", "done", "refused"}]
  /\ verdict \in [Callers -> Outcomes] /\ result \in [Callers -> Outcomes]

\* The results that say of a mutation that it has not happened and will not.
Denials == {"usage", "policy", "auth", "rate", "rejected", "resolve"}

\* Whatever interrupts a mutation and whichever aspect of its answer is damaged:
\* it is never sent twice, a success that the caller is told of did happen, and a
\* denial is final, so that nothing executes behind a journal that wrote it off.
MutationsAreSafe ==
  \A c \in Callers : ~req[c].read =>
    /\ spawned[c] <= 1
    /\ pc[c] = "ended" /\ result[c] = "ok" => order[c] = "done"
    /\ pc[c] = "ended" /\ result[c] \in Denials => order[c] \in {"none", "refused"}

\* Every call returns, although its child may hang and its group is always busy.
CallsEnd == \A c \in Callers : pc[c] = "lock" ~> pc[c] = "ended"
=============================================================================
