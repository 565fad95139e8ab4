-------------------------- MODULE BrokerCallProofs --------------------------
(***************************************************************************)
(* MutationsAreSafe for any number of callers, any requests and any number *)
(* of retries.  What a mutation has become is known from where its call    *)
(* is: nothing before its child starts, nothing new after a denial.        *)
(***************************************************************************)
EXTENDS BrokerCall, TLAPS

\* A mutation starts one child, which no one but the waiting call has; what its
\* output will be classified as and what the call returns agree with the broker.
Spent(c) ==
  /\ spawned[c] \in {0, 1}
  /\ req[c].read \/ pc[c] \in {"idle", "lock", "spawn", "backoff"} => spawned[c] = 0
  /\ pc[c] = "backoff" => req[c].read
Quiet(c) ==
  /\ pc[c] # "wait" => child[c] = "none"
  /\ req[c].read => order[c] = "none"
  /\ pc[c] \in {"idle", "lock", "spawn", "backoff"} => order[c] = "none"
Agrees(outcome, o) ==
  /\ outcome = "ok" => o = "done"
  /\ outcome \in Denials => o \in {"none", "refused"}
Honest(c) ==
  ~req[c].read =>
    /\ child[c] = "running" => verdict[c] = "none"
    /\ child[c] = "exited" => Agrees(verdict[c], order[c])
    /\ pc[c] = "ended" => Agrees(result[c], order[c])
CallInv == CallTypeOK /\ \A c \in Callers : Spent(c) /\ Quiet(c) /\ Honest(c)

-----------------------------------------------------------------------------
Answers == [full : BOOLEAN, parses : BOOLEAN, schema : BOOLEAN, ok : BOOLEAN,
            code : Codes \cup {"none", "other"}, exit : -1..8, hint : BOOLEAN, payload : BOOLEAN]

\* Of the three aspects that the outcome is read from, damage changes one at most.
LEMMA OneAspectIsDamaged ==
  ASSUME NEW a \in Answers, NEW d \in {a} \cup Damaged(a)
  PROVE  /\ d.ok \in BOOLEAN
         /\ \/ d.ok = a.ok /\ d.code = a.code
            \/ d.ok = a.ok /\ d.exit = a.exit
            \/ d.ok = ~a.ok /\ d.code = a.code /\ d.exit = a.exit
<1>1. CASE d \in {a, [a EXCEPT !.full = FALSE], [a EXCEPT !.parses = FALSE], [a EXCEPT !.schema = FALSE],
                  [a EXCEPT !.hint = ~@], [a EXCEPT !.payload = ~@]}
  BY <1>1 DEF Answers
<1>2. CASE d = [a EXCEPT !.ok = ~@]
  BY <1>2 DEF Answers
<1>3. CASE d \in {[a EXCEPT !.exit = e] : e \in -1..8}
  BY <1>3 DEF Answers
<1>4. CASE d \in {[a EXCEPT !.code = k] : k \in Codes \cup {"none", "other"}}
  BY <1>4 DEF Answers
<1> QED
  BY <1>1, <1>2, <1>3, <1>4 DEF Damaged

\* No single damage turns what the command line may say of a mutation into a
\* success that did not happen or into a denial of one that may: classify.
LEMMA ClassifyIsHonest ==
  ASSUME NEW r \in Calls, ~r.read, NEW o \in {"none", "inflight", "done", "refused"},
         NEW a \in Truth(r, o), NEW d \in {a} \cup Damaged(a)
  PROVE  Agrees(Classify(r, d), o)
<1>1. CASE o = "done" /\ a \in {Success, Unresolved}
  <2>1. a.ok /\ a.code = "none"
    BY <1>1 DEF Success, Unresolved
  <2> a \in Answers
    <3>1. Success \in Answers
      BY DEF Success, Answers
    <3>2. Unresolved \in Answers
      BY <3>1 DEF Unresolved, Answers
    <3> QED
      BY <1>1, <3>1, <3>2
  <2>2. d.ok \/ Untrusted(r, d)
    BY <2>1, OneAspectIsDamaged DEF Untrusted
  <2>3. Classify(r, d) \in {"protocol", "ok", "handshake"}
    BY <2>2 DEF Classify
  <2> QED
    BY <1>1, <2>3 DEF Agrees, Denials
<1>2. CASE \E k \in Codes : a = Failure(k) /\ (o \in {"inflight", "done"} => k \in {"NETWORK", "UNCONFIRMED", "INTERNAL"})
  <2>1. PICK k \in Codes : a = Failure(k) /\ (o \in {"inflight", "done"} => k \in {"NETWORK", "UNCONFIRMED", "INTERNAL"})
    BY <1>2
  <2>2. ~a.ok /\ a.code = k /\ a.exit = ExitForErrorCode(k) /\ a.exit \in 1..7
    BY <2>1 DEF Failure, Success, ExitForErrorCode
  <2> a \in Answers
    <3>1. Success \in Answers
      BY DEF Success, Answers
    <3>2. ExitForErrorCode(k) \in -1..8
      BY DEF ExitForErrorCode
    <3>3. Failure(k) \in Answers
      BY <3>1, <3>2 DEF Failure, Answers
    <3> QED
      BY <2>1, <3>3
  <2>3. Untrusted(r, d) \/ (~d.ok /\ d.exit = a.exit)
    <3>1. d.code = k => Untrusted(r, d) \/ (~d.ok /\ d.exit = a.exit)
      BY <2>2, OneAspectIsDamaged DEF Untrusted, Contradicts, Codes, ReadErrors
    <3>2. d.code # k => ~d.ok /\ d.exit = a.exit
      BY <2>2, OneAspectIsDamaged
    <3> QED
      BY <3>1, <3>2
  <2>4. Classify(r, d) # "ok"
    BY <2>3 DEF Classify, ErrorOf
  <2>5. o \in {"inflight", "done"} => Classify(r, d) \notin Denials
    BY <2>1, <2>2, <2>3 DEF Classify, ErrorOf, Denials, ExitForErrorCode
  <2> QED
    BY <2>4, <2>5 DEF Agrees
<1> QED
  BY <1>1, <1>2 DEF Truth, ReadErrors, Codes

-----------------------------------------------------------------------------
LEMMA CallInvInit == CallInit => CallInv
<1> SUFFICES ASSUME CallInit PROVE CallInv
  OBVIOUS
<1>1. CallTypeOK
  BY BrokerCallAssumption DEF CallInit, CallTypeOK, Outcomes
<1> QED
  BY <1>1 DEF CallInit, CallInv, Spent, Quiet, Honest

\* Every step keeps the types.
LEMMA OutcomesHaveType ==
  ASSUME CallTypeOK, NEW c \in Callers
  PROVE  /\ Outcome(c) \in Outcomes
         /\ \A r, d : Classify(r, d) \in Outcomes
<1>1. verdict[c] \in Outcomes
  BY DEF CallTypeOK
<1> QED
  BY <1>1 DEF Outcome, Classify, ErrorOf, Outcomes

LEMMA CallTypeStep == CallTypeOK /\ [CallNext]_callVars => CallTypeOK'
<1> SUFFICES ASSUME CallTypeOK, [CallNext]_callVars PROVE CallTypeOK'
  OBVIOUS
<1> USE DEF CallTypeOK, Outcomes
<1>1. CASE UNCHANGED callVars
  BY <1>1 DEF callVars
<1>2. ASSUME NEW c \in Callers, NEW r \in Requests, Begin(c, r) PROVE CallTypeOK'
  BY <1>2 DEF Begin
<1>3. ASSUME NEW c \in Callers, Acquire(c) PROVE CallTypeOK'
  BY <1>3 DEF Acquire
<1>4. ASSUME NEW c \in Callers, StartFails(c) PROVE CallTypeOK'
  BY <1>4 DEF StartFails, End
<1>5. ASSUME NEW c \in Callers, Start(c) PROVE CallTypeOK'
  BY <1>5 DEF Start
<1>6. ASSUME NEW c \in Callers, Send(c) \/ \E o \in {"done", "refused"} : BrokerHandles(c, o) PROVE CallTypeOK'
  BY <1>6 DEF Send, BrokerHandles
<1>7. ASSUME NEW c \in Callers, Answer(c) \/ ChildDies(c) \/ WaitFails(c) PROVE CallTypeOK'
  <2>1. PICK v \in Outcomes : ChildExits(c, v)
    BY <1>7, OutcomesHaveType DEF Answer, ChildDies, WaitFails
  <2> QED
    BY <2>1 DEF ChildExits
<1>8. ASSUME NEW c \in Callers, Cancel(c) \/ Backstop(c) PROVE CallTypeOK'
  BY <1>8 DEF Cancel, Backstop, Killed
<1>9. ASSUME NEW c \in Callers, Finish(c) PROVE CallTypeOK'
  <2>1. CASE IsRetryable(Outcome(c)) /\ attempt[c] + 1 < MaxAttempts(req[c])
    BY <1>9, <2>1 DEF Finish
  <2>2. CASE ~(IsRetryable(Outcome(c)) /\ attempt[c] + 1 < MaxAttempts(req[c]))
    <3>1. /\ End(c, Outcome(c)) /\ child' = [child EXCEPT ![c] = "none"]
          /\ UNCHANGED <<req, spawned, order>>
      BY <1>9, <2>2 DEF Finish
    <3>2. Outcome(c) \in Outcomes
      BY OutcomesHaveType
    <3> QED
      BY <3>1, <3>2 DEF End
  <2> QED
    BY <2>1, <2>2
<1>10. ASSUME NEW c \in Callers, BackoffEnds(c) PROVE CallTypeOK'
  BY <1>10 DEF BackoffEnds, Retried
<1>11. ASSUME NEW c \in Callers, BackoffCanceled(c) PROVE CallTypeOK'
  BY <1>11 DEF BackoffCanceled, End
<1>12. ASSUME NEW c \in Callers, Return(c) PROVE CallTypeOK'
  BY <1>12, BrokerCallAssumption DEF Return
<1> QED
  BY <1>1, <1>2, <1>3, <1>4, <1>5, <1>6, <1>7, <1>8, <1>9, <1>10, <1>11, <1>12 DEF CallNext

LEMMA CallInvStep == CallInv /\ [CallNext]_callVars => CallInv'
<1> SUFFICES ASSUME CallInv, [CallNext]_callVars, NEW x \in Callers
             PROVE  (Spent(x) /\ Quiet(x) /\ Honest(x))'
  BY CallTypeStep DEF CallInv
<1> CallTypeOK /\ Spent(x) /\ Quiet(x) /\ Honest(x)
  BY DEF CallInv
<1> USE DEF CallTypeOK, Spent, Quiet, Honest
<1>1. CASE UNCHANGED callVars
  BY <1>1 DEF callVars
<1>2. ASSUME NEW c \in Callers, NEW r \in Requests, Begin(c, r) PROVE (Spent(x) /\ Quiet(x) /\ Honest(x))'
  BY <1>2 DEF Begin, Agrees
<1>3. ASSUME NEW c \in Callers, Acquire(c) PROVE (Spent(x) /\ Quiet(x) /\ Honest(x))'
  BY <1>3 DEF Acquire
<1>4. ASSUME NEW c \in Callers, StartFails(c) PROVE (Spent(x) /\ Quiet(x) /\ Honest(x))'
  BY <1>4 DEF StartFails, End, Agrees
<1>5. ASSUME NEW c \in Callers, Start(c) PROVE (Spent(x) /\ Quiet(x) /\ Honest(x))'
  BY <1>5 DEF Start
\* The child that may still send has no verdict yet, and no call has ended.
<1>6. ASSUME NEW c \in Callers, Send(c) PROVE (Spent(x) /\ Quiet(x) /\ Honest(x))'
  BY <1>6 DEF Send
<1>7. ASSUME NEW c \in Callers, NEW o \in {"done", "refused"}, BrokerHandles(c, o)
      PROVE (Spent(x) /\ Quiet(x) /\ Honest(x))'
  BY <1>7 DEF BrokerHandles, Agrees
<1>8. ASSUME NEW c \in Callers, Answer(c) PROVE (Spent(x) /\ Quiet(x) /\ Honest(x))'
  <2>1. PICK a \in Truth(req[c], order[c]) :
          \E d \in {a} \cup Damaged(a) : ChildExits(c, Classify(req[c], d))
    BY <1>8 DEF Answer
  <2>2. PICK d \in {a} \cup Damaged(a) : ChildExits(c, Classify(req[c], d))
    BY <2>1
  <2>3. ~req[c].read => Agrees(Classify(req[c], d), order[c])
    <3>1. req[c] \in Calls
      BY BrokerCallAssumption
    <3> QED
      BY <3>1, ClassifyIsHonest
  <2> QED
    BY <2>2, <2>3 DEF ChildExits
<1>9. ASSUME NEW c \in Callers, ChildDies(c) \/ WaitFails(c) PROVE (Spent(x) /\ Quiet(x) /\ Honest(x))'
  BY <1>9 DEF ChildDies, WaitFails, ChildExits, Agrees, Denials
<1>10. ASSUME NEW c \in Callers, Cancel(c) \/ Backstop(c) PROVE (Spent(x) /\ Quiet(x) /\ Honest(x))'
  <2>1. /\ child' = Killed(c)
        /\ UNCHANGED <<pc, req, verdict, spawned, order, result>>
    BY <1>10 DEF Cancel, Backstop
  <2> QED
    BY <2>1 DEF Killed, Agrees, Denials
<1>11. ASSUME NEW c \in Callers, Finish(c) PROVE (Spent(x) /\ Quiet(x) /\ Honest(x))'
  <2>1. CASE IsRetryable(Outcome(c)) /\ attempt[c] + 1 < MaxAttempts(req[c])
    <3>1. req[c].read
      BY <2>1 DEF MaxAttempts
    <3> QED
      <4>1. /\ pc[c] = "wait" /\ pc' = [pc EXCEPT ![c] = "backoff"]
            /\ verdict' = [verdict EXCEPT ![c] = "none"] /\ child' = [child EXCEPT ![c] = "none"]
            /\ UNCHANGED <<result, req, spawned, order>>
        BY <1>11, <2>1 DEF Finish
      <4> QED
        BY <3>1, <4>1
  <2>2. CASE ~(IsRetryable(Outcome(c)) /\ attempt[c] + 1 < MaxAttempts(req[c]))
    <3>1. ~req[c].read => Agrees(Outcome(c), order[c])
      <4>1. Honest(c)
        BY DEF CallInv
      <4> QED
        BY <1>11, <4>1 DEF Finish, Outcome, Agrees, Denials
    <3> QED
      BY <1>11, <2>2, <3>1 DEF Finish, End
  <2> QED
    BY <2>1, <2>2
<1>12. ASSUME NEW c \in Callers, BackoffEnds(c) PROVE (Spent(x) /\ Quiet(x) /\ Honest(x))'
  BY <1>12 DEF BackoffEnds
<1>13. ASSUME NEW c \in Callers, BackoffCanceled(c) PROVE (Spent(x) /\ Quiet(x) /\ Honest(x))'
  BY <1>13 DEF BackoffCanceled, End
<1>14. ASSUME NEW c \in Callers, Return(c) PROVE (Spent(x) /\ Quiet(x) /\ Honest(x))'
  BY <1>14 DEF Return
<1> QED
  BY <1>1, <1>2, <1>3, <1>4, <1>5, <1>6, <1>7, <1>8, <1>9, <1>10, <1>11, <1>12, <1>13, <1>14 DEF CallNext

\* Whatever damage an answer takes and whoever interrupts its call: a mutation is
\* sent once, and what its caller is told agrees with what the broker did
\* (client.go, envelope.go).
THEOREM MutationsStaySafe == CallSpec => []MutationsAreSafe
<1>1. CallInv => MutationsAreSafe
  BY DEF CallInv, Spent, Honest, Agrees, MutationsAreSafe
<1> QED
  BY <1>1, CallInvInit, CallInvStep, PTL DEF CallSpec
=============================================================================
