------------------------- MODULE BrokerStreamProofs -------------------------
(***************************************************************************)
(* Proofs about the supervised stream, for any instruments, frames, queue  *)
(* size and pace of the consumer.  The first part is about the queue: what *)
(* an event settles is settled by what the queue makes of it.  StreamInv   *)
(* then says where everything owed is while it is on its way, EndInv how   *)
(* the outcome travels to the last event.                                  *)
(***************************************************************************)
EXTENDS BrokerStream, CoalescingQueueProofs

-----------------------------------------------------------------------------
(* The queue.  What an event settles is settled by what the queue makes of it. *)

OwedKinds == {"candle", "last_price", "orderbook", "gap"}
QuoteKinds == {"last_price", "orderbook"}

EventUids == Uids \cup {All, Nil} \cup Causes

LEMMA EventsAreQueued == Events = QueueEvents(EventKinds, EventUids)
BY DEF Events, QueueEvents, EventUids

LEMMA MergeGapLockedCovers ==
  ASSUME NEW q \in Seq(Events), NEW ev \in Events, ev.kind = "gap"
  PROVE  /\ MergeGapLocked(q, ev) \in Seq(Events)
         /\ \A o \in Events : \A e \in ToSet(q) \cup {ev} :
              Settles(e, o) => \E x \in ToSet(MergeGapLocked(q, ev)) : Settles(x, o)
<1>1. Len(q) \in Nat /\ DOMAIN q = 1..Len(q) /\ \A i \in 1..Len(q) : q[i] \in Events
  BY LenProperties, ElementOfSeq
<1>2. CASE MergeGapLocked(q, ev) = Append(q, ev)
  BY <1>2, ToSetOfAppend
<1>3. ASSUME NEW i \in 1..Len(q), NEW new \in Events,
             IsGap(q[i], ev.uid), IsGap(new, ev.uid), new.time <= ev.time, new.time <= q[i].time,
             MergeGapLocked(q, ev) = [q EXCEPT ![i] = new]
      PROVE  /\ MergeGapLocked(q, ev) \in Seq(Events)
             /\ \A o \in Events : \A e \in ToSet(q) \cup {ev} :
                  Settles(e, o) => \E x \in ToSet(MergeGapLocked(q, ev)) : Settles(x, o)
  <2>1. [q EXCEPT ![i] = new] \in Seq(Events)
    BY ExceptSeq
  <2>2. /\ new \in ToSet([q EXCEPT ![i] = new])
        /\ \A e \in ToSet(q) : e = q[i] \/ e \in ToSet([q EXCEPT ![i] = new])
    BY <1>1 DEF ToSet
  <2>3. ASSUME NEW o \in Events, NEW e \in {q[i], ev}, Settles(e, o) PROVE Settles(new, o)
    <3>1. e.kind = "gap" /\ e.uid = ev.uid /\ new.time <= e.time /\ e.time \in Nat /\ new.time \in Nat /\ o.time \in Nat
      BY <1>1, <1>3 DEF Events, IsGap
    <3> QED
      BY <1>3, <2>3, <3>1 DEF Settles, IsGap
  <2> QED
    BY <1>3, <2>1, <2>2, <2>3
<1> QED
  BY <1>2, <1>3, MergeGapShape, EventsAreQueued

\* A quote takes the place of the instrument's last of its kind, so it covers
\* what is owed unless that very quote is still owed.
LEMMA CoalesceCovers ==
  ASSUME NEW q \in Seq(Events), NEW ev \in Events, ev.kind \in QuoteKinds
  PROVE  /\ Coalesce(q, ev) \in Seq(Events)
         /\ \A o \in Events : (o.kind = ev.kind /\ o.uid = ev.uid => o = ev) =>
              \A e \in ToSet(q) \cup {ev} :
                Settles(e, o) => \E x \in ToSet(Coalesce(q, ev)) : Settles(x, o)
<1>2. /\ DropQueued(q, ev) \in Seq(Events)
      /\ \A e \in ToSet(q) : (e.kind = ev.kind /\ e.uid = ev.uid) \/ e \in ToSet(DropQueued(q, ev))
  BY DropShape, RemoveAtKeepsTheRest
<1>3. /\ Coalesce(q, ev) \in Seq(Events)
      /\ ToSet(Coalesce(q, ev)) = ToSet(DropQueued(q, ev)) \cup {ev}
  BY <1>2, ToSetOfAppend DEF Coalesce
<1>4. ASSUME NEW o \in Events, o.kind = ev.kind /\ o.uid = ev.uid => o = ev,
             NEW e \in ToSet(q) \cup {ev}, Settles(e, o)
      PROVE  \E x \in ToSet(Coalesce(q, ev)) : Settles(x, o)
  <2>1. CASE e \in ToSet(DropQueued(q, ev)) \cup {ev}
    BY <1>3, <1>4, <2>1
  <2>2. CASE e.kind = ev.kind /\ e.uid = ev.uid
    <3>1. o = ev
      BY <1>4, <2>2 DEF Settles, QuoteKinds
    <3> QED
      BY <1>3, <3>1 DEF Settles
  <2> QED
    BY <1>2, <2>1, <2>2
<1> QED
  BY <1>3, <1>4

LEMMA EnqueueCovers ==
  ASSUME NEW q \in Seq(Events), NEW ev \in Events
  PROVE  /\ Enqueue(q, ev) \in Seq(Events)
         /\ \A o \in Events :
              o.kind \in OwedKinds /\ (ev.kind \in QuoteKinds /\ o.kind = ev.kind /\ o.uid = ev.uid => o = ev) =>
                \A e \in ToSet(q) \cup {ev} :
                  Settles(e, o) => \E x \in ToSet(Enqueue(q, ev)) : Settles(x, o)
<1>1. CASE ev.kind = "candle"
  <2>1. CASE Len(q) >= QueueSize
    <3> DEFINE gap == GapEvent(ev.uid, ev.time)
    <3>1. gap \in Events /\ gap.kind = "gap" /\ gap.uid = ev.uid /\ gap.time = ev.time /\ ev.time \in Nat
      BY DEF GapEvent, Event, Events, EventKinds
    <3>2. Enqueue(q, ev) = MergeGapLocked(q, gap)
      BY <1>1, <2>1 DEF Enqueue, DeliverCandle
    <3> HIDE DEF gap
    <3>3. \A o \in Events : Settles(ev, o) => Settles(gap, o)
      BY <1>1, <3>1 DEF Settles
    <3> QED
      BY <3>1, <3>2, <3>3, MergeGapLockedCovers
  <2>2. CASE ~(Len(q) >= QueueSize)
    <3>1. Enqueue(q, ev) = Append(q, ev)
      BY <1>1, <2>2 DEF Enqueue, DeliverCandle
    <3> QED
      BY <3>1, ToSetOfAppend
  <2> QED
    BY <2>1, <2>2
<1>2. CASE ev.kind \in QuoteKinds
  <2>1. Enqueue(q, ev) = Coalesce(q, ev)
    BY <1>2 DEF Enqueue, QuoteKinds
  <2> QED
    BY <1>2, <2>1, CoalesceCovers
<1>3. CASE ev.kind = "gap"
  <2>1. Enqueue(q, ev) = MergeGapLocked(q, ev)
    BY <1>3 DEF Enqueue
  <2> QED
    BY <1>3, <2>1, MergeGapLockedCovers
<1>4. CASE ev.kind \notin {"candle", "gap"} \cup QuoteKinds
  <2>1. Enqueue(q, ev) = DeliverStatus(q, ev)
    BY <1>4 DEF Enqueue, QuoteKinds
  <2>2. /\ Enqueue(q, ev) \in Seq(Events)
        /\ ToSet(q) \subseteq ToSet(Enqueue(q, ev))
    BY <2>1, ToSetOfAppend DEF DeliverStatus
  <2>3. \A o \in Events : o.kind \in OwedKinds => ~Settles(ev, o)
    BY <1>4 DEF Settles, OwedKinds, QuoteKinds
  <2> QED
    BY <2>2, <2>3
<1> QED
  BY <1>1, <1>2, <1>3, <1>4

-----------------------------------------------------------------------------
(* Types *)

LEMMA EventTypes ==
  /\ GapEvent(All, 0) \in Events /\ GapEvent(All, 0).kind = "gap"
  /\ FinishNil \in Events /\ FinishNil.kind = "finish" /\ FinishNil.uid = Nil
  /\ \A c \in Causes : /\ Event("finish", c, 0, 0) \in Events
                       /\ Event("finish", c, 0, 0).kind = "finish"
                       /\ StreamDown(c) \in Events /\ StreamDown(c).kind = "down"
  /\ \A n \in Nat : Event("status", All, 0, n) \in Events /\ Event("status", All, 0, n).kind = "status"
BY DEF GapEvent, FinishNil, StreamDown, Event, Events, EventKinds

SupervisorPlaces == {"loop", "read", "reap", "deliver", "signal", "backoff", "off"}
Resumptions == {"loop", "read", "reap", "backoff", "off"}
SupType == [at : SupervisorPlaces, todo : Seq(Events), then : Resumptions]
RunType == [fast : Nat, attempts : Nat, lastErr : ErrorCodes \cup {Nil}, cause : Causes \cup {Nil}]

\* The frames the child writes carry events of the right types.
LEMMA FrameEvents ==
  ASSUME StreamAssumption, NEW f \in Frames, NEW n \in Nat,
         f.type \in {"candle", "last_price", "orderbook"}
  PROVE  LET ev == Event(f.type, f.uid, IF f.type = "candle" THEN f.time ELSE 0, n)
         IN  ev \in Events /\ ev.kind \in {"candle"} \cup QuoteKinds
<1>1. f.uid \in Uids /\ (f.type = "candle" => f.time \in Nat)
  BY DEF StreamAssumption
<1> QED
  BY <1>1 DEF Event, Events, EventKinds, QuoteKinds

LEMMA TellType ==
  ASSUME NEW todo \in Seq(Events), NEW then \in Resumptions, Tell(todo, then)
  PROVE  sup' \in SupType /\ sup'.at = "deliver" /\ sup'.todo = todo /\ sup'.then = then
BY DEF Tell, SupType, SupervisorPlaces

LEMMA LeaveType ==
  ASSUME Leave
  PROVE  /\ sup' \in SupType /\ sup'.at = "deliver" /\ sup'.then = "off"
         /\ sup'.todo = <<FinishNil>> /\ ToSet(sup'.todo) = {FinishNil}
<1>1. <<FinishNil>> \in Seq(Events) /\ ToSet(<<FinishNil>>) = {FinishNil}
  BY EventTypes DEF ToSet
<1> QED
  BY <1>1, TellType DEF Leave, Resumptions

LEMMA GiveUpType ==
  ASSUME NEW first \in Seq(Events), NEW c \in Causes, GiveUp(first, c)
  PROVE  /\ sup' \in SupType /\ sup'.at = "deliver" /\ sup'.then = "off"
         /\ ToSet(sup'.todo) = ToSet(first) \cup {Event("finish", c, 0, 0), FinishNil}
<1> DEFINE last == <<Event("finish", c, 0, 0), FinishNil>>
<1>1. last \in Seq(Events) /\ ToSet(last) = {Event("finish", c, 0, 0), FinishNil}
  BY EventTypes DEF ToSet
<1>2. first \o last \in Seq(Events) /\ ToSet(first \o last) = ToSet(first) \cup ToSet(last)
  BY <1>1, ToSetOfConcat, ZenonT(60)
<1> QED
  BY <1>1, <1>2, TellType DEF GiveUp, Resumptions

-----------------------------------------------------------------------------
(* Nothing is lost *)

InHand == IF hand = NoEvent THEN {} ELSE {hand}
Carried == ToSet(events) \cup InHand \cup ToSet(queue) \cup ToSet(sup.todo)

HandIsHeld == IF pump \in {"send", "last"} THEN hand \in Events ELSE hand = NoEvent
NothingToTell == sup.at \notin {"deliver", "signal"} => sup.todo = <<>>
OwedKindly == (cancelled => owed = {}) /\ \A o \in owed : o.kind \in OwedKinds
OutcomesAreCauses == \A e \in ToSet(sup.todo) : e.kind = "finish" => e.uid \in Causes \cup {Nil}
LatestIsTold ==
  \A e \in ToSet(sup.todo) : e.kind \in QuoteKinds =>
    \A o \in owed : o.kind = e.kind /\ o.uid = e.uid => o = e
OwedIsCarried == \A o \in owed : \E e \in Carried : Settles(e, o)

StreamInv ==
  /\ StreamTypeOK
  /\ HandIsHeld
  /\ NothingToTell
  /\ OutcomesAreCauses
  /\ OwedKindly
  /\ LatestIsTold
  /\ OwedIsCarried

LEMMA ToSetOfNone == ToSet(<<>>) = {}
BY DEF ToSet

LEMMA ToSetOfFour ==
  ASSUME NEW S, NEW a \in Seq(S), NEW b \in Seq(S), NEW c \in Seq(S), NEW d \in Seq(S)
  PROVE  ToSet(a \o b \o c \o d) = ToSet(a) \cup ToSet(b) \cup ToSet(c) \cup ToSet(d)
<1> DEFINE ab == a \o b  abc == ab \o c
<1>1. ab \in Seq(S) /\ ToSet(ab) = ToSet(a) \cup ToSet(b)
  BY ToSetOfConcat
<1> HIDE DEF ab
<1>2. abc \in Seq(S) /\ ToSet(abc) = ToSet(ab) \cup ToSet(c)
  BY <1>1, ToSetOfConcat
<1> HIDE DEF abc
<1>3. ToSet(abc \o d) = ToSet(abc) \cup ToSet(d)
  BY <1>2, ToSetOfConcat
<1> QED
  BY <1>1, <1>2, <1>3 DEF ab, abc

LEMMA CarriedIsInFlight ==
  ASSUME StreamTypeOK, HandIsHeld
  PROVE  ToSet(InFlight) = Carried
<1> DEFINE held == IF hand = NoEvent THEN <<>> ELSE <<hand>>
<1>1. events \in Seq(Events) /\ queue \in Seq(Events) /\ sup.todo \in Seq(Events)
  BY DEF StreamTypeOK
<1>2. held \in Seq(Events) /\ ToSet(held) = InHand
  BY ToSetOfNone DEF HandIsHeld, InHand, ToSet
<1> HIDE DEF held
<1>3. ToSet(events \o held \o queue \o sup.todo) = Carried
  BY <1>1, <1>2, ToSetOfFour DEF Carried
<1> QED
  BY <1>3 DEF InFlight, held

\* An event that becomes owed as the supervisor sets out to tell it.
LEMMA OwingIsCarried ==
  ASSUME StreamInv, NEW ev \in Events, ev.kind \in OwedKinds, owed' = Owing(ev),
         UNCHANGED <<queue, hand, events, cancelled>>, sup.todo = <<>>,
         ev \in ToSet(sup'.todo), \A e \in ToSet(sup'.todo) : e.kind \in QuoteKinds => e = ev
  PROVE  owed' \in SUBSET Events /\ OwedKindly' /\ LatestIsTold' /\ OwedIsCarried'
<1>1. owed \in SUBSET Events /\ cancelled \in BOOLEAN
  BY DEF StreamInv, StreamTypeOK
<1>2. Carried \subseteq Carried' /\ ev \in Carried'
  BY ToSetOfNone DEF Carried, InHand
<1>3. /\ owed' \subseteq owed \cup {ev}
      /\ cancelled' => owed' = {}
      /\ \A o \in owed' : ev.kind \in QuoteKinds /\ o.kind = ev.kind /\ o.uid = ev.uid => o = ev
  BY <1>1 DEF Owing, QuoteKinds
<1>4. owed' \in SUBSET Events /\ OwedKindly'
  BY <1>1, <1>3 DEF StreamInv, OwedKindly
<1>5. LatestIsTold'
  BY <1>3 DEF LatestIsTold
<1>6. OwedIsCarried'
  BY <1>2, <1>3 DEF StreamInv, OwedIsCarried, Settles
<1> QED
  BY <1>4, <1>5, <1>6

\* A step that owes nothing new and carries what it carried.
LEMMA StillCarried ==
  ASSUME StreamInv, owed' \subseteq owed, cancelled' => cancelled \/ owed' = {},
         Carried \subseteq Carried', \A e \in ToSet(sup'.todo) : e.kind \notin QuoteKinds \/ e \in ToSet(sup.todo)
  PROVE  owed' \in SUBSET Events /\ OwedKindly' /\ LatestIsTold' /\ OwedIsCarried'
<1>1. owed' \in SUBSET Events /\ OwedKindly'
  BY DEF StreamInv, StreamTypeOK, OwedKindly
<1>2. LatestIsTold'
  BY DEF StreamInv, LatestIsTold
<1>3. OwedIsCarried'
  BY DEF StreamInv, OwedIsCarried
<1> QED
  BY <1>1, <1>2, <1>3

LEMMA DeliverStep ==
  ASSUME StreamInv, Deliver
  PROVE  StreamInv'
<1> DEFINE ev == Head(sup.todo)
<1>1. /\ sup \in SupType /\ sup.at = "deliver" /\ sup.todo # <<>> /\ sup.todo \in Seq(Events)
      /\ queue \in Seq(Events)
  BY DEF StreamInv, StreamTypeOK, Deliver, SupType, SupervisorPlaces, Resumptions
<1>2. /\ Tail(sup.todo) \in Seq(Events) /\ ev \in Events
      /\ ToSet(sup.todo) = {ev} \cup ToSet(Tail(sup.todo))
  BY <1>1, ToSetOfTail
<1> HIDE DEF ev
<1>3. /\ sup' = [sup EXCEPT !.at = "signal", !.todo = Tail(sup.todo)]
      /\ UNCHANGED <<child, run, frames, wake, pump, hand, events, closed, done, cancelled, owed, told>>
  BY DEF Deliver, pumping
<1>4. sup' \in SupType /\ sup'.at = "signal" /\ sup'.todo = Tail(sup.todo)
  BY <1>1, <1>2, <1>3 DEF SupType, SupervisorPlaces
<1>5. queue' \in Seq(Events) /\ finished' \in BOOLEAN /\ terminal' \in Causes \cup {Nil}
  <2>1. CASE ev.kind = "finish"
    <3>1. finished' = TRUE /\ terminal' = Outcome(ev) /\ UNCHANGED queue
      BY <2>1 DEF Deliver, ev
    <3>2. terminal \in Causes \cup {Nil} /\ ev.uid \in Causes \cup {Nil}
      BY <1>2, <2>1 DEF StreamInv, StreamTypeOK, OutcomesAreCauses
    <3> QED
      BY <1>1, <3>1, <3>2 DEF Outcome
  <2>2. CASE ev.kind # "finish"
    <3>1. queue' = Enqueue(queue, ev) /\ UNCHANGED <<finished, terminal>>
      BY <2>2 DEF Deliver, ev
    <3> QED
      BY <1>1, <1>2, <3>1, EnqueueCovers DEF StreamInv, StreamTypeOK
  <2> QED
    BY <2>1, <2>2
<1>6. ASSUME NEW o \in owed PROVE \E x \in Carried' : Settles(x, o)
  <2>1. PICK e \in Carried : Settles(e, o)
    BY DEF StreamInv, OwedIsCarried
  <2>2. o \in Events /\ o.kind \in OwedKinds
    BY DEF StreamInv, StreamTypeOK, OwedKindly
  <2>3. Carried = ToSet(events) \cup InHand \cup (ToSet(queue) \cup {ev}) \cup ToSet(Tail(sup.todo))
    BY <1>2 DEF Carried
  <2>4. Carried' = ToSet(events) \cup InHand \cup ToSet(queue') \cup ToSet(Tail(sup.todo))
    BY <1>3, <1>4 DEF Carried, InHand
  <2>5. CASE e \notin ToSet(queue) \cup {ev}
    BY <2>1, <2>3, <2>4, <2>5
  <2>6. CASE e \in ToSet(queue) \cup {ev} /\ ev.kind # "finish"
    <3>1. queue' = Enqueue(queue, ev)
      BY <2>6 DEF Deliver, ev
    <3>2. ev.kind \in QuoteKinds /\ o.kind = ev.kind /\ o.uid = ev.uid => o = ev
      BY <1>2 DEF StreamInv, LatestIsTold
    <3>3. \E x \in ToSet(queue') : Settles(x, o)
      BY <1>1, <1>2, <2>1, <2>2, <2>6, <3>1, <3>2, EnqueueCovers
    <3> QED
      BY <2>4, <3>3
  <2>7. CASE e \in ToSet(queue) \cup {ev} /\ ev.kind = "finish"
    <3>1. queue' = queue
      BY <2>7 DEF Deliver, ev
    <3>2. ~Settles(ev, o)
      BY <2>2, <2>7 DEF Settles, OwedKinds
    <3> QED
      BY <2>1, <2>4, <2>7, <3>1, <3>2
  <2> QED
    BY <2>5, <2>6, <2>7
<1>7. StreamTypeOK'
  BY <1>3, <1>4, <1>5 DEF StreamInv, StreamTypeOK, SupType, SupervisorPlaces, Resumptions
<1>8. HandIsHeld' /\ OwedKindly'
  BY <1>3 DEF StreamInv, HandIsHeld, OwedKindly
<1>9. NothingToTell' /\ OutcomesAreCauses' /\ LatestIsTold'
  BY <1>2, <1>3, <1>4 DEF StreamInv, NothingToTell, OutcomesAreCauses, LatestIsTold
<1> QED
  BY <1>3, <1>6, <1>7, <1>8, <1>9 DEF StreamInv, OwedIsCarried

\* The supervisor, idle until then, sets out to tell something, or goes on.
SupervisorMoves ==
  /\ sup.todo = <<>>
  /\ child' \in {"none", "running", "exited"} /\ sup' \in SupType /\ run' \in RunType /\ frames' \in Nat
  /\ NothingToTell' /\ OutcomesAreCauses'
  /\ UNCHANGED <<queue, finished, terminal, wake, pump, hand, events, closed, done, cancelled, told>>

LEMMA OwingNothingStep ==
  ASSUME StreamInv, SupervisorMoves, owed' = owed, \A e \in ToSet(sup'.todo) : e.kind \notin QuoteKinds
  PROVE  StreamInv'
<1>1. Carried \subseteq Carried'
  BY ToSetOfNone DEF SupervisorMoves, Carried, InHand
<1>2. StreamTypeOK'
  BY DEF SupervisorMoves, StreamInv, StreamTypeOK, SupType, RunType, SupervisorPlaces, Resumptions
<1>3. owed' \in SUBSET Events /\ OwedKindly' /\ LatestIsTold' /\ OwedIsCarried'
  BY <1>1, StillCarried DEF SupervisorMoves
<1> QED
  BY <1>2, <1>3 DEF SupervisorMoves, StreamInv, HandIsHeld

LEMMA OwingStep ==
  ASSUME StreamInv, SupervisorMoves, NEW ev \in Events, ev.kind \in OwedKinds, owed' = Owing(ev),
         ev \in ToSet(sup'.todo), \A e \in ToSet(sup'.todo) : e.kind \in QuoteKinds => e = ev
  PROVE  StreamInv'
<1>1. owed' \in SUBSET Events /\ OwedKindly' /\ LatestIsTold' /\ OwedIsCarried'
  BY OwingIsCarried DEF SupervisorMoves
<1>2. StreamTypeOK'
  BY <1>1 DEF SupervisorMoves, StreamInv, StreamTypeOK, SupType, RunType, SupervisorPlaces, Resumptions
<1> QED
  BY <1>1, <1>2 DEF SupervisorMoves, StreamInv, HandIsHeld

LEMMA TypeFacts ==
  ASSUME StreamInv
  PROVE  /\ sup \in SupType /\ run \in RunType /\ child \in {"none", "running", "exited"}
         /\ frames \in Nat /\ cancelled \in BOOLEAN
         /\ queue \in Seq(Events) /\ events \in Seq(Events) /\ sup.todo \in Seq(Events)
BY DEF StreamInv, StreamTypeOK, SupType, RunType, SupervisorPlaces, Resumptions

\* Leaving tells nothing that is owed.
LEMMA LeaveMoves ==
  ASSUME Leave
  PROVE  /\ sup' \in SupType /\ NothingToTell' /\ OutcomesAreCauses'
         /\ \A e \in ToSet(sup'.todo) : e.kind \notin QuoteKinds
BY LeaveType, EventTypes DEF NothingToTell, OutcomesAreCauses, QuoteKinds

LEMMA GiveUpMoves ==
  ASSUME NEW first \in Seq(Events), NEW c \in Causes, GiveUp(first, c),
         \A e \in ToSet(first) : e.kind = "gap"
  PROVE  /\ sup' \in SupType /\ NothingToTell' /\ OutcomesAreCauses'
         /\ \A e \in ToSet(sup'.todo) : e.kind \notin QuoteKinds
         /\ ToSet(first) \subseteq ToSet(sup'.todo)
<1>1. Event("finish", c, 0, 0).uid = c
  BY DEF Event
<1> QED
  BY <1>1, GiveUpType, EventTypes DEF NothingToTell, OutcomesAreCauses, QuoteKinds

LEMMA SpawnStep ==
  ASSUME StreamInv, NEW started \in BOOLEAN, Spawn(started)
  PROVE  StreamInv'
<1>1. /\ sup.at = "loop" /\ sup.todo = <<>>
      /\ UNCHANGED <<frames, queue, finished, terminal, wake, pump, hand, events, closed, done, cancelled, owed, told>>
  BY DEF Spawn, StreamInv, NothingToTell, shared, pumping
<1>2. run' \in RunType
  <2>1. run' = [run EXCEPT !.lastErr = Nil, !.cause = Nil]
    BY DEF Spawn
  <2>2. run' = [fast |-> run.fast, attempts |-> run.attempts, lastErr |-> Nil, cause |-> Nil]
    BY <2>1, TypeFacts DEF RunType
  <2> QED
    BY <2>2, TypeFacts DEF RunType
<1>3. /\ child' \in {"none", "running", "exited"} /\ sup' \in SupType /\ NothingToTell' /\ OutcomesAreCauses'
      /\ \A e \in ToSet(sup'.todo) : e.kind \notin QuoteKinds
  <2>1. CASE cancelled
    BY <2>1, LeaveMoves, TypeFacts DEF Spawn
  <2>2. CASE ~cancelled /\ started
    <3>1. sup' = [sup EXCEPT !.at = "read"] /\ child' = "running"
      BY <2>2 DEF Spawn
    <3>2. sup' \in SupType /\ sup'.todo = <<>>
      BY <1>1, <3>1, TypeFacts DEF SupType, SupervisorPlaces
    <3> QED
      BY <3>1, <3>2, ToSetOfNone DEF NothingToTell, OutcomesAreCauses
  <2>3. CASE ~cancelled /\ ~started
    <3>1. GiveUp(<<>>, "RESOLVE") /\ UNCHANGED child
      BY <2>3 DEF Spawn
    <3>2. <<>> \in Seq(Events) /\ "RESOLVE" \in Causes
      BY DEF Causes
    <3> QED
      BY <3>1, <3>2, GiveUpMoves, ToSetOfNone, TypeFacts
  <2> QED
    BY <2>1, <2>2, <2>3
<1> QED
  BY <1>1, <1>2, <1>3, TypeFacts, OwingNothingStep DEF SupervisorMoves

LEMMA ChildExitsStep ==
  ASSUME StreamInv, NEW exit \in Exits, ChildExits(exit)
  PROVE  StreamInv'
<1>1. /\ sup.at = "read" /\ sup.todo = <<>> /\ child' = "exited"
      /\ sup' = [sup EXCEPT !.at = "reap"] /\ run' = [run EXCEPT !.cause = ExitTerminal(exit)]
      /\ UNCHANGED <<frames, queue, finished, terminal, wake, pump, hand, events, closed, done, cancelled, owed, told>>
  BY DEF ChildExits, StreamInv, NothingToTell, shared, pumping
<1>2. run' \in RunType
  <2>1. ExitTerminal(exit) \in Causes \cup {Nil}
    BY DEF ExitTerminal, Causes, Refusals
  <2> QED
    BY <1>1, <2>1, TypeFacts DEF RunType
<1>3. sup' \in SupType /\ sup'.todo = <<>>
  BY <1>1, TypeFacts DEF SupType, SupervisorPlaces
<1> QED
  BY <1>1, <1>2, <1>3, TypeFacts, ToSetOfNone, OwingNothingStep
     DEF SupervisorMoves, NothingToTell, OutcomesAreCauses

LEMMA BackoffStep ==
  ASSUME StreamInv, Backoff
  PROVE  StreamInv'
<1>1. /\ sup.at = "backoff" /\ sup.todo = <<>>
      /\ UNCHANGED <<child, run, frames, queue, finished, terminal, wake, pump, hand, events, closed, done, cancelled, owed, told>>
  BY DEF Backoff, StreamInv, NothingToTell, shared, pumping
<1>2. /\ sup' \in SupType /\ NothingToTell' /\ OutcomesAreCauses'
      /\ \A e \in ToSet(sup'.todo) : e.kind \notin QuoteKinds
  <2>1. CASE sup' = [sup EXCEPT !.at = "loop"]
    <3>1. sup' \in SupType /\ sup'.todo = <<>>
      BY <1>1, <2>1, TypeFacts DEF SupType, SupervisorPlaces
    <3> QED
      BY <3>1, ToSetOfNone DEF NothingToTell, OutcomesAreCauses
  <2>2. CASE Leave
    BY <2>2, LeaveMoves
  <2> QED
    BY <2>1, <2>2 DEF Backoff
<1> QED
  BY <1>1, <1>2, TypeFacts, OwingNothingStep DEF SupervisorMoves

LEMMA ReapStep ==
  ASSUME StreamInv, StreamAssumption, NEW fast \in BOOLEAN, Reap(fast)
  PROVE  StreamInv'
<1> DEFINE gap == GapEvent(All, 0)
           n == IF fast THEN run.fast + 1 ELSE 0
<1>1. /\ sup.at = "reap" /\ sup.todo = <<>> /\ child' = "none"
      /\ UNCHANGED <<frames, queue, finished, terminal, wake, pump, hand, events, closed, done, cancelled, told>>
  BY DEF Reap, StreamInv, NothingToTell, shared, pumping
<1>2. gap \in Events /\ gap.kind = "gap" /\ <<gap>> \in Seq(Events) /\ ToSet(<<gap>>) = {gap}
  BY EventTypes DEF ToSet
<1> HIDE DEF gap
<1>3. CASE cancelled
  BY <1>1, <1>3, LeaveMoves, TypeFacts, OwingNothingStep DEF Reap, SupervisorMoves
<1>4. CASE ~cancelled /\ run.cause # Nil
  <2>1. GiveUp(<<>>, run.cause) /\ UNCHANGED <<run, owed>>
    BY <1>4 DEF Reap
  <2>2. <<>> \in Seq(Events) /\ run.cause \in Causes
    BY <1>4, TypeFacts DEF RunType
  <2> QED
    BY <1>1, <2>1, <2>2, GiveUpMoves, ToSetOfNone, TypeFacts, OwingNothingStep DEF SupervisorMoves
<1>5. CASE ~cancelled /\ run.cause = Nil
  <2>1. run' = [run EXCEPT !.attempts = @ + 1, !.fast = n] /\ owed' = Owing(gap)
    BY <1>5 DEF Reap, gap
  <2>2. n \in Nat
    BY TypeFacts DEF RunType
  <2>3. run' \in RunType
    <3>1. run' = [fast |-> n, attempts |-> run.attempts + 1, lastErr |-> run.lastErr, cause |-> run.cause]
      BY <2>1, TypeFacts DEF RunType
    <3> QED
      BY <2>2, <3>1, TypeFacts DEF RunType
  <2>4. CASE n >= MaxFast
    <3>1. GiveUp(<<gap>>, "BREAKER") /\ "BREAKER" \in Causes
      BY <1>5, <2>4 DEF Reap, gap, Causes
    <3>2. /\ sup' \in SupType /\ NothingToTell' /\ OutcomesAreCauses'
          /\ gap \in ToSet(sup'.todo) /\ \A e \in ToSet(sup'.todo) : e.kind \notin QuoteKinds
      BY <1>2, <3>1, GiveUpMoves
    <3> QED
      BY <1>1, <1>2, <2>1, <2>3, <3>2, TypeFacts, OwingStep DEF SupervisorMoves, OwedKinds
  <2>5. CASE ~(n >= MaxFast)
    <3>1. Tell(<<gap>>, "backoff")
      BY <1>5, <2>5 DEF Reap, gap
    <3>2. sup' \in SupType /\ sup'.at = "deliver" /\ ToSet(sup'.todo) = {gap}
      BY <1>2, <3>1, TellType DEF Resumptions
    <3>3. NothingToTell' /\ OutcomesAreCauses' /\ \A e \in ToSet(sup'.todo) : e.kind \notin QuoteKinds
      BY <1>2, <3>2 DEF NothingToTell, OutcomesAreCauses, QuoteKinds
    <3> QED
      BY <1>1, <1>2, <2>1, <2>3, <3>2, <3>3, TypeFacts, OwingStep DEF SupervisorMoves, OwedKinds
  <2> QED
    BY <2>4, <2>5
<1> QED
  BY <1>3, <1>4, <1>5, TypeFacts

LEMMA ReadFrameStep ==
  ASSUME StreamInv, StreamAssumption, NEW f \in Frames, ReadFrame(f)
  PROVE  StreamInv'
<1> DEFINE status == Event("status", All, 0, frames + 1)
           gap == GapEvent(All, 0)
<1>1. /\ sup.at = "read" /\ sup.todo = <<>> /\ child' \in {"none", "running", "exited"} /\ frames' \in Nat
      /\ UNCHANGED <<child, queue, finished, terminal, wake, pump, hand, events, closed, done, cancelled, told>>
  BY TypeFacts DEF ReadFrame, StreamInv, NothingToTell, shared, pumping
<1>2. /\ status \in Events /\ status.kind = "status"
      /\ gap \in Events /\ gap.kind = "gap"
      /\ <<status>> \in Seq(Events) /\ ToSet(<<status>>) = {status}
      /\ <<status, gap>> \in Seq(Events) /\ ToSet(<<status, gap>>) = {status, gap}
  BY EventTypes, TypeFacts, SMTT(60) DEF ToSet
<1> HIDE DEF status, gap
<1>3. CASE f.type \in {"candle", "last_price", "orderbook"}
  <2> DEFINE ev == Event(f.type, f.uid, IF f.type = "candle" THEN f.time ELSE 0, frames + 1)
  <2>1. Tell(<<ev>>, "read") /\ owed' = Owing(ev) /\ UNCHANGED run
    BY <1>3 DEF ReadFrame
  <2>2. ev \in Events /\ ev.kind \in {"candle"} \cup QuoteKinds
    BY <1>3, TypeFacts, FrameEvents
  <2> HIDE DEF ev
  <2>3. <<ev>> \in Seq(Events) /\ ToSet(<<ev>>) = {ev}
    BY <2>2 DEF ToSet
  <2>4. sup' \in SupType /\ sup'.at = "deliver" /\ ToSet(sup'.todo) = {ev}
    BY <2>1, <2>3, TellType DEF Resumptions
  <2>5. NothingToTell' /\ OutcomesAreCauses' /\ ev.kind \in OwedKinds
    BY <2>2, <2>4 DEF NothingToTell, OutcomesAreCauses, OwedKinds, QuoteKinds
  <2> QED
    BY <1>1, <2>1, <2>2, <2>4, <2>5, TypeFacts, OwingStep DEF SupervisorMoves
<1>4. CASE f.type = "lifecycle" /\ f.lost
  <2>1. Tell(<<status, gap>>, "read") /\ owed' = Owing(gap) /\ UNCHANGED run
    BY <1>4 DEF ReadFrame, status, gap
  <2>2. sup' \in SupType /\ sup'.at = "deliver" /\ ToSet(sup'.todo) = {status, gap}
    BY <1>2, <2>1, TellType DEF Resumptions
  <2>3. NothingToTell' /\ OutcomesAreCauses' /\ \A e \in ToSet(sup'.todo) : e.kind \notin QuoteKinds
    BY <1>2, <2>2 DEF NothingToTell, OutcomesAreCauses, QuoteKinds
  <2> QED
    BY <1>1, <1>2, <2>1, <2>2, <2>3, TypeFacts, OwingStep DEF SupervisorMoves, OwedKinds
<1>5. CASE f.type = "lifecycle" /\ ~f.lost
  <2>1. Tell(<<status>>, "read") /\ UNCHANGED <<run, owed>>
    BY <1>5 DEF ReadFrame, status
  <2>2. sup' \in SupType /\ sup'.at = "deliver" /\ ToSet(sup'.todo) = {status}
    BY <1>2, <2>1, TellType DEF Resumptions
  <2>3. NothingToTell' /\ OutcomesAreCauses' /\ \A e \in ToSet(sup'.todo) : e.kind \notin QuoteKinds
    BY <1>2, <2>2 DEF NothingToTell, OutcomesAreCauses, QuoteKinds
  <2> QED
    BY <1>1, <2>1, <2>2, <2>3, TypeFacts, OwingNothingStep DEF SupervisorMoves
<1>6. CASE f.type = "error"
  <2>1. /\ run' = [run EXCEPT !.lastErr = f.code, !.cause = IF f.code \in Refusals THEN f.code ELSE Nil]
        /\ Tell(<<status>>, IF f.code \in Refusals THEN "reap" ELSE "read")
        /\ UNCHANGED owed
    BY <1>6 DEF ReadFrame, status
  <2>2. run' \in RunType
    <3>1. f.code \in ErrorCodes
      BY <1>6 DEF ErrorCodes
    <3>2. (IF f.code \in Refusals THEN f.code ELSE Nil) \in Causes \cup {Nil}
      BY DEF Causes
    <3> QED
      BY <2>1, <3>1, <3>2, TypeFacts DEF RunType
  <2>3. sup' \in SupType /\ sup'.at = "deliver" /\ ToSet(sup'.todo) = {status}
    BY <1>2, <2>1, TellType DEF Resumptions
  <2>4. NothingToTell' /\ OutcomesAreCauses' /\ \A e \in ToSet(sup'.todo) : e.kind \notin QuoteKinds
    BY <1>2, <2>3 DEF NothingToTell, OutcomesAreCauses, QuoteKinds
  <2> QED
    BY <1>1, <2>1, <2>2, <2>3, <2>4, OwingNothingStep DEF SupervisorMoves
<1>7. CASE f.type = "malformed"
  <2>1. run' = [run EXCEPT !.cause = "PROTOCOL"] /\ sup' = [sup EXCEPT !.at = "reap"] /\ UNCHANGED owed
    BY <1>7 DEF ReadFrame
  <2>2. run' \in RunType
    BY <2>1, TypeFacts DEF RunType, Causes
  <2>3. sup' \in SupType /\ sup'.todo = <<>>
    BY <1>1, <2>1, TypeFacts DEF SupType, SupervisorPlaces
  <2>4. NothingToTell' /\ OutcomesAreCauses' /\ \A e \in ToSet(sup'.todo) : e.kind \notin QuoteKinds
    BY <2>3, ToSetOfNone DEF NothingToTell, OutcomesAreCauses
  <2> QED
    BY <1>1, <2>1, <2>2, <2>3, <2>4, OwingNothingStep DEF SupervisorMoves
<1> QED
  BY <1>3, <1>4, <1>5, <1>6, <1>7 DEF ReadFrame, StreamAssumption

LEMMA SignalStep ==
  ASSUME StreamInv, Signal
  PROVE  StreamInv'
<1>1. /\ sup' = [sup EXCEPT !.at = IF sup.todo = <<>> THEN sup.then ELSE "deliver"] /\ wake' = TRUE
      /\ UNCHANGED <<child, run, frames, queue, finished, terminal, pump, hand, events, closed, done, cancelled, owed, told>>
  BY DEF Signal, Woken, shared, pumping
<1>2. sup' \in SupType /\ sup'.todo = sup.todo /\ NothingToTell'
  <2>1. CASE sup.todo = <<>>
    BY <1>1, <2>1, TypeFacts DEF SupType, SupervisorPlaces, Resumptions, NothingToTell
  <2>2. CASE sup.todo # <<>>
    BY <1>1, <2>2, TypeFacts DEF SupType, SupervisorPlaces, NothingToTell
  <2> QED
    BY <2>1, <2>2
<1>3. StreamTypeOK'
  BY <1>1, <1>2 DEF StreamInv, StreamTypeOK, SupType, SupervisorPlaces, Resumptions
<1>4. Carried' = Carried
  BY <1>1, <1>2 DEF Carried, InHand
<1>5. owed' \in SUBSET Events /\ OwedKindly' /\ LatestIsTold' /\ OwedIsCarried'
  BY <1>1, <1>2, <1>4, StillCarried
<1> QED
  BY <1>1, <1>2, <1>3, <1>5 DEF StreamInv, HandIsHeld, OutcomesAreCauses

\* A step of the pump or the consumer: the supervisor stays where it is.
PumpMoves ==
  /\ UNCHANGED <<child, sup, run, frames, finished, terminal>>
  /\ queue' \in Seq(Events) /\ wake' \in BOOLEAN /\ pump' \in {"look", "send", "last", "wait", "off"}
  /\ HandIsHeld' /\ events' \in Seq(Events) /\ closed' \in BOOLEAN /\ done' \in BOOLEAN
  /\ cancelled' \in BOOLEAN /\ told' \in BOOLEAN

LEMMA PumpStep ==
  ASSUME StreamInv, PumpMoves, owed' \subseteq owed, cancelled' => cancelled \/ owed' = {},
         \A o \in owed' : \A e \in Carried : Settles(e, o) => e \in Carried'
  PROVE  StreamInv'
<1>1. StreamTypeOK'
  BY DEF PumpMoves, StreamInv, StreamTypeOK, HandIsHeld
<1>2. OwedKindly' /\ LatestIsTold' /\ NothingToTell' /\ OutcomesAreCauses'
  BY DEF PumpMoves, StreamInv, OwedKindly, LatestIsTold, NothingToTell, OutcomesAreCauses
<1>3. OwedIsCarried'
  BY DEF StreamInv, OwedIsCarried
<1> QED
  BY <1>1, <1>2, <1>3 DEF PumpMoves, StreamInv

LEMMA PumpTypes ==
  ASSUME StreamInv
  PROVE  /\ queue \in Seq(Events) /\ wake \in BOOLEAN /\ pump \in {"look", "send", "last", "wait", "off"}
         /\ events \in Seq(Events) /\ closed \in BOOLEAN /\ done \in BOOLEAN
         /\ cancelled \in BOOLEAN /\ told \in BOOLEAN /\ terminal \in Causes \cup {Nil}
BY DEF StreamInv, StreamTypeOK

LEMMA LookStep ==
  ASSUME StreamInv, StreamAssumption, Look
  PROVE  StreamInv'
<1>1. /\ pump = "look" /\ hand = NoEvent
      /\ UNCHANGED <<child, sup, run, frames, finished, terminal, wake, events, done, cancelled, owed, told>>
  BY DEF Look, StreamInv, HandIsHeld, supervisor
<1>2. CASE HasNext
  <2>1. hand' = Head(queue) /\ queue' = Tail(queue) /\ pump' = "send" /\ UNCHANGED closed
    BY <1>2 DEF Look
  <2>2. /\ queue' \in Seq(Events) /\ hand' \in Events
        /\ ToSet(queue) = {hand'} \cup ToSet(queue')
    BY <1>2, <2>1, PumpTypes, ToSetOfTail DEF HasNext
  <2>3. hand' # NoEvent
    BY <2>2 DEF StreamAssumption
  <2>4. Carried' = Carried
    BY <1>1, <2>2, <2>3 DEF Carried, InHand
  <2>5. PumpMoves
    BY <1>1, <2>1, <2>2, PumpTypes DEF PumpMoves, HandIsHeld
  <2> QED
    BY <1>1, <2>4, <2>5, PumpStep
<1>3. CASE ~HasNext /\ finished
  <2>1. /\ pump' = IF terminal # Nil THEN "last" ELSE "off"
        /\ hand' = IF terminal # Nil THEN StreamDown(terminal) ELSE NoEvent
        /\ closed' \in BOOLEAN /\ UNCHANGED queue
    BY <1>3 DEF Look
  <2>2. HandIsHeld'
    BY <2>1, PumpTypes, EventTypes DEF HandIsHeld
  <2>3. Carried \subseteq Carried'
    BY <1>1, <2>1 DEF Carried, InHand
  <2>4. PumpMoves
    BY <1>1, <2>1, <2>2, PumpTypes DEF PumpMoves
  <2> QED
    BY <1>1, <2>3, <2>4, PumpStep
<1>4. CASE ~HasNext /\ ~finished
  <2>1. pump' = "wait" /\ UNCHANGED <<queue, hand, closed>>
    BY <1>4 DEF Look
  <2>2. PumpMoves /\ Carried' = Carried
    BY <1>1, <2>1, PumpTypes DEF PumpMoves, HandIsHeld, Carried, InHand
  <2> QED
    BY <1>1, <2>2, PumpStep
<1> QED
  BY <1>2, <1>3, <1>4

LEMMA SendStep ==
  ASSUME StreamInv, Send
  PROVE  StreamInv'
<1>1. /\ pump \in {"send", "last"} /\ hand \in Events
      /\ events' = Append(events, hand) /\ hand' = NoEvent
      /\ pump' \in {"off", "look"} /\ closed' \in BOOLEAN
      /\ UNCHANGED <<child, sup, run, frames, queue, finished, terminal, wake, done, cancelled, owed, told>>
  BY DEF Send, StreamInv, HandIsHeld, supervisor, shared
<1>2. events' \in Seq(Events) /\ ToSet(events') = ToSet(events) \cup {hand}
  BY <1>1, PumpTypes, ToSetOfAppend
<1>3. Carried \subseteq Carried'
  BY <1>1, <1>2 DEF Carried, InHand
<1>4. PumpMoves
  BY <1>1, <1>2, PumpTypes DEF PumpMoves, HandIsHeld
<1> QED
  BY <1>1, <1>3, <1>4, PumpStep

LEMMA AbandonStep ==
  ASSUME StreamInv, Abandon
  PROVE  StreamInv'
<1>1. /\ cancelled /\ pump' = "off" /\ hand' = NoEvent /\ closed' = TRUE
      /\ UNCHANGED <<child, sup, run, frames, queue, finished, terminal, wake, events, done, cancelled, owed, told>>
  BY DEF Abandon, supervisor, shared
<1>2. owed = {}
  BY <1>1 DEF StreamInv, OwedKindly
<1>3. PumpMoves
  BY <1>1, PumpTypes DEF PumpMoves, HandIsHeld
<1> QED
  BY <1>1, <1>2, <1>3, PumpStep

LEMMA ReceiveStep ==
  ASSUME StreamInv, Receive
  PROVE  StreamInv'
<1>1. /\ events # <<>> /\ events' = Tail(events) /\ told' \in BOOLEAN
      /\ owed' = {o \in owed : ~Settles(Head(events), o)}
      /\ UNCHANGED <<child, sup, run, frames, queue, finished, terminal, wake, pump, hand, closed, done, cancelled>>
  BY DEF Receive, supervisor, shared
<1>2. events' \in Seq(Events) /\ ToSet(events) = {Head(events)} \cup ToSet(events')
  BY <1>1, PumpTypes, ToSetOfTail
<1>3. \A o \in owed' : \A e \in Carried : Settles(e, o) => e \in Carried'
  BY <1>1, <1>2 DEF Carried, InHand
<1>4. PumpMoves
  BY <1>1, <1>2, PumpTypes DEF PumpMoves, StreamInv, HandIsHeld
<1>5. owed' \subseteq owed /\ (cancelled' => cancelled)
  BY <1>1
<1> QED
  BY <1>3, <1>4, <1>5, PumpStep

LEMMA AwaitWakeStep ==
  ASSUME StreamInv, AwaitWake
  PROVE  StreamInv'
<1>1. /\ wake' = FALSE /\ pump = "wait" /\ pump' = "look"
      /\ UNCHANGED <<child, sup, run, frames, queue, finished, terminal, hand, events, closed, done, cancelled, owed, told>>
  BY DEF AwaitWake, supervisor, shared
<1>2. PumpMoves /\ Carried' = Carried
  BY <1>1, PumpTypes DEF PumpMoves, StreamInv, HandIsHeld, Carried, InHand
<1> QED
  BY <1>1, <1>2, PumpStep

LEMMA CloseDoneStep ==
  ASSUME StreamInv, CloseDone
  PROVE  StreamInv'
<1>1. /\ done' = TRUE
      /\ UNCHANGED <<child, sup, run, frames, queue, finished, terminal, wake, pump, hand, events, closed, cancelled, owed, told>>
  BY DEF CloseDone, supervisor, shared
<1>2. PumpMoves /\ Carried' = Carried
  BY <1>1, PumpTypes DEF PumpMoves, StreamInv, HandIsHeld, Carried, InHand
<1> QED
  BY <1>1, <1>2, PumpStep

LEMMA CancelStep ==
  ASSUME StreamInv, Cancel
  PROVE  StreamInv'
<1>1. /\ cancelled' = TRUE /\ owed' = {}
      /\ UNCHANGED <<child, sup, run, frames, queue, finished, terminal, wake, pump, hand, events, closed, done, told>>
  BY DEF Cancel, supervisor, shared, pumping
<1>2. PumpMoves /\ Carried' = Carried
  BY <1>1, PumpTypes DEF PumpMoves, StreamInv, HandIsHeld, Carried, InHand
<1> QED
  BY <1>1, <1>2, PumpStep

LEMMA StreamInvInit == StreamInit => StreamInv
<1> SUFFICES ASSUME StreamInit PROVE StreamInv
  OBVIOUS
<1>1. <<>> \in Seq(Events)
  OBVIOUS
<1>2. sup \in [at : SupervisorPlaces, todo : Seq(Events), then : Resumptions]
  BY <1>1 DEF StreamInit, SupervisorPlaces, Resumptions
<1>3. run \in [fast : Nat, attempts : Nat, lastErr : ErrorCodes \cup {Nil}, cause : Causes \cup {Nil}]
  BY DEF StreamInit
<1>4. StreamTypeOK
  BY <1>1, <1>2, <1>3 DEF StreamInit, StreamTypeOK, SupervisorPlaces, Resumptions
<1>5. sup.todo = <<>>
  BY DEF StreamInit
<1> QED
  BY <1>4, <1>5, ToSetOfNone
     DEF StreamInit, StreamInv, HandIsHeld, NothingToTell, OutcomesAreCauses, OwedKindly, LatestIsTold, OwedIsCarried

LEMMA StreamInvStep ==
  ASSUME StreamAssumption, StreamInv, [StreamNext]_streamVars
  PROVE  StreamInv'
<1>1. CASE Supervise
  BY <1>1, DeliverStep, SignalStep, BackoffStep, SpawnStep, ReapStep DEF Supervise
<1>2. CASE Child
  BY <1>2, ReadFrameStep, ChildExitsStep DEF Child
<1>3. CASE Pump
  BY <1>3, LookStep, SendStep, AwaitWakeStep, AbandonStep DEF Pump
<1>4. CASE CloseDone \/ Receive \/ Cancel
  BY <1>4, CloseDoneStep, ReceiveStep, CancelStep
<1>5. CASE UNCHANGED streamVars
  <2>1. Carried' = Carried
    BY <1>5 DEF streamVars, supervisor, shared, pumping, Carried, InHand
  <2> QED
    BY <1>5, <2>1
       DEF streamVars, supervisor, shared, pumping, StreamInv, StreamTypeOK, HandIsHeld, NothingToTell,
           OutcomesAreCauses, OwedKindly, LatestIsTold, OwedIsCarried
<1> QED
  BY <1>1, <1>2, <1>3, <1>4, <1>5 DEF StreamNext

\* The invariant that types, the queue's coalescing and the supervisor's
\* deliveries keep together, and the one that says nothing is lost by itself
\* does not.
THEOREM StreamInvariant == StreamSpec => []StreamInv
<1>1. StreamAssumption
  BY StreamAssumption
<1> QED
  BY <1>1, StreamInvInit, StreamInvStep, PTL DEF StreamSpec

\* Whatever the instruments, the frames, the size of the queue and the pace of
\* the consumer, deliver, coalesce, mergeGapLocked and the pump lose no candle,
\* no newest quote and no stretch without a feed.
THEOREM DeliveryLosesNothing == StreamSpec => []NothingLost
<1>1. StreamInv => NothingLost
  BY CarriedIsInFlight DEF StreamInv, OwedIsCarried, NothingLost
<1> QED
  BY <1>1, StreamInvariant, PTL

-----------------------------------------------------------------------------
(* The order of what is on its way.  Each stretch of it rises by itself, and *)
(* everything in one comes before everything in the next.                    *)

Rising(s) == \A i, j \in DOMAIN s : i < j /\ Numbered(s[i]) /\ Numbered(s[j]) => s[i].n < s[j].n
Before(D, E) == \A d \in D, e \in E : Numbered(d) /\ Numbered(e) => d.n < e.n

\* The numbered events of r are among those of q and ev.
NumbersFrom(r, q, ev) == \A e \in ToSet(r) : Numbered(e) => e \in ToSet(q) \cup {ev}

LEMMA RisingAppend ==
  ASSUME NEW S, NEW q \in Seq(S), NEW ev \in S, Rising(q), Before(ToSet(q), {ev})
  PROVE  Rising(Append(q, ev))
<1>1. /\ DOMAIN Append(q, ev) = 1..(Len(q) + 1) /\ DOMAIN q = 1..Len(q) /\ Len(q) \in Nat
      /\ Append(q, ev)[Len(q) + 1] = ev /\ \A i \in 1..Len(q) : Append(q, ev)[i] = q[i] /\ q[i] \in ToSet(q)
  BY AppendProperties, LenProperties DEF ToSet
<1>2. ASSUME NEW i \in 1..(Len(q) + 1), NEW j \in 1..(Len(q) + 1), i < j,
             Numbered(Append(q, ev)[i]), Numbered(Append(q, ev)[j])
      PROVE  Append(q, ev)[i].n < Append(q, ev)[j].n
  <2>1. i \in 1..Len(q) /\ (j \in 1..Len(q) \/ j = Len(q) + 1)
    BY <1>1, <1>2
  <2> QED BY <1>1, <1>2, <2>1 DEF Rising, Before
<1> QED BY <1>1, <1>2 DEF Rising

LEMMA RisingConcat ==
  ASSUME NEW S, NEW s \in Seq(S), NEW t \in Seq(S), Rising(s), Rising(t), Before(ToSet(s), ToSet(t))
  PROVE  s \o t \in Seq(S) /\ Rising(s \o t) /\ ToSet(s \o t) = ToSet(s) \cup ToSet(t)
<1>1. /\ s \o t \in Seq(S) /\ DOMAIN s = 1..Len(s) /\ DOMAIN t = 1..Len(t) /\ DOMAIN (s \o t) = 1..(Len(s) + Len(t))
      /\ Len(s) \in Nat /\ Len(t) \in Nat
  BY ConcatProperties, LenProperties
<1>2. \A i \in 1..Len(s) : (s \o t)[i] = s[i] /\ s[i] \in ToSet(s)
  BY <1>1, ConcatProperties DEF ToSet
<1>3. \A i \in 1..(Len(s) + Len(t)) : i > Len(s) =>
        i - Len(s) \in 1..Len(t) /\ (s \o t)[i] = t[i - Len(s)] /\ t[i - Len(s)] \in ToSet(t)
  BY <1>1, ConcatProperties DEF ToSet
<1>4. ASSUME NEW i \in 1..(Len(s) + Len(t)), NEW j \in 1..(Len(s) + Len(t)), i < j,
             Numbered((s \o t)[i]), Numbered((s \o t)[j])
      PROVE  (s \o t)[i].n < (s \o t)[j].n
  <2>1. CASE j <= Len(s)
    <3>1. i \in 1..Len(s) /\ j \in 1..Len(s)
      BY <1>1, <1>4, <2>1
    <3> QED BY <1>1, <1>2, <1>4, <3>1 DEF Rising
  <2>2. CASE i <= Len(s) /\ j > Len(s)
    <3>1. i \in 1..Len(s)
      BY <1>1, <2>2
    <3> QED BY <1>1, <1>2, <1>3, <1>4, <2>2, <3>1 DEF Before
  <2>3. CASE i > Len(s)
    <3>1. j > Len(s) /\ i - Len(s) < j - Len(s)
      BY <1>1, <1>4, <2>3
    <3> QED BY <1>1, <1>3, <1>4, <2>3, <3>1 DEF Rising
  <2> QED BY <1>1, <2>1, <2>2, <2>3
<1> QED BY <1>1, <1>4, ToSetOfConcat DEF Rising

LEMMA RisingTail ==
  ASSUME NEW S, NEW s \in Seq(S), s # <<>>, Rising(s)
  PROVE  Rising(Tail(s)) /\ Before({Head(s)}, ToSet(Tail(s)))
<1>1. /\ Len(s) \in Nat \ {0} /\ DOMAIN s = 1..Len(s) /\ Head(s) = s[1]
      /\ DOMAIN Tail(s) = 1..(Len(s) - 1) /\ \A i \in 1..(Len(s) - 1) : Tail(s)[i] = s[i + 1]
  <2>1. Len(s) \in Nat \ {0} /\ DOMAIN s = 1..Len(s) /\ Head(s) = s[1]
    BY EmptySeq, LenProperties
  <2>2. /\ Tail(s) \in Seq(S) /\ Len(Tail(s)) = Len(s) - 1
        /\ \A i \in 1..Len(Tail(s)) : Tail(s)[i] = s[i + 1]
    BY HeadTailProperties
  <2> QED BY <2>1, <2>2, LenProperties
<1>2. \A i \in 1..(Len(s) - 1) : i + 1 \in 1..Len(s) /\ 1 < i + 1
  BY <1>1
<1>3. \A i, j \in 1..(Len(s) - 1) : i < j => i + 1 < j + 1
  BY <1>1
<1>4. 1 \in 1..Len(s)
  BY <1>1
<1> QED BY <1>1, <1>2, <1>3, <1>4 DEF Rising, Before, ToSet

LEMMA RisingWithoutOne ==
  ASSUME NEW S, NEW q \in Seq(S), NEW i \in 1..Len(q), Rising(q)
  PROVE  Rising(RemoveAt(q, i)) /\ ToSet(RemoveAt(q, i)) \subseteq ToSet(q)
<1> DEFINE r == RemoveAt(q, i)
           Was(j) == IF j < i THEN j ELSE j + 1
<1>1. DOMAIN r = 1..(Len(q) - 1) /\ \A j \in 1..(Len(q) - 1) : r[j] = q[Was(j)]
  BY RemoveAtMovesUp
<1>2. Len(q) \in Nat /\ DOMAIN q = 1..Len(q)
  BY LenProperties
<1> HIDE DEF r
<1>3. \A j \in 1..(Len(q) - 1) : Was(j) \in 1..Len(q)
  BY <1>2
<1>4. \A j, k \in 1..(Len(q) - 1) : j < k => Was(j) < Was(k)
  BY <1>2
<1> HIDE DEF Was
<1>5. Rising(r)
  BY <1>1, <1>2, <1>3, <1>4 DEF Rising
<1>6. ToSet(r) \subseteq ToSet(q)
  BY <1>1, <1>2, <1>3 DEF ToSet
<1> QED BY <1>5, <1>6 DEF r

LEMMA EnqueueRises ==
  ASSUME NEW q \in Seq(Events), NEW ev \in Events, ev.kind # "finish", Rising(q), Before(ToSet(q), {ev})
  PROVE  Rising(Enqueue(q, ev)) /\ NumbersFrom(Enqueue(q, ev), q, ev)
<1>1. Len(q) \in Nat /\ DOMAIN q = 1..Len(q) /\ \A i \in 1..Len(q) : q[i] \in Events /\ q[i] \in ToSet(q)
  BY LenProperties, ElementOfSeq DEF ToSet
<1>2. Rising(Append(q, ev)) /\ NumbersFrom(Append(q, ev), q, ev)
  BY RisingAppend, ToSetOfAppend DEF NumbersFrom
<1>3. ASSUME NEW g \in Events, g.kind = "gap"
      PROVE  Rising(MergeGapLocked(q, g)) /\ NumbersFrom(MergeGapLocked(q, g), q, ev)
  <2>1. CASE MergeGapLocked(q, g) = Append(q, g)
    <3>1. Before(ToSet(q), {g})
      BY <1>3 DEF Before, Numbered
    <3> QED BY <1>3, <2>1, <3>1, RisingAppend, ToSetOfAppend DEF NumbersFrom, Numbered
  <2>2. ASSUME NEW i \in 1..Len(q), NEW new \in Events, IsGap(new, g.uid), MergeGapLocked(q, g) = [q EXCEPT ![i] = new]
        PROVE  Rising(MergeGapLocked(q, g)) /\ NumbersFrom(MergeGapLocked(q, g), q, ev)
    <3>1. /\ DOMAIN [q EXCEPT ![i] = new] = 1..Len(q) /\ ~Numbered(new)
          /\ \A j \in 1..Len(q) : [q EXCEPT ![i] = new][j] = IF j = i THEN new ELSE q[j]
      BY <1>1, <2>2 DEF IsGap, Numbered
    <3> QED BY <1>1, <2>2, <3>1, ZenonT(60) DEF Rising, NumbersFrom, ToSet
  <2> QED BY <1>3, <2>1, <2>2, MergeGapShape, EventsAreQueued
<1>4. CASE ev.kind = "candle"
  <2> DEFINE gap == GapEvent(ev.uid, ev.time)
  <2>1. gap \in Events /\ gap.kind = "gap"
    BY DEF GapEvent, Event, Events, EventKinds
  <2>2. Enqueue(q, ev) = IF Len(q) >= QueueSize THEN MergeGapLocked(q, gap) ELSE Append(q, ev)
    BY <1>4 DEF Enqueue, DeliverCandle
  <2> HIDE DEF gap
  <2> QED BY <1>2, <1>3, <2>1, <2>2
<1>5. CASE ev.kind \in QuoteKinds
  <2> DEFINE d == DropQueued(q, ev)
  <2>1. Enqueue(q, ev) = Append(d, ev)
    BY <1>5 DEF Enqueue, Coalesce, QuoteKinds
  <2>2. d \in Seq(Events) /\ Rising(d) /\ ToSet(d) \subseteq ToSet(q)
    BY DropShape, RisingWithoutOne, RemoveAtMovesUp
  <2> HIDE DEF d
  <2>3. Before(ToSet(d), {ev})
    BY <2>2 DEF Before
  <2> QED BY <2>1, <2>2, <2>3, RisingAppend, ToSetOfAppend DEF NumbersFrom
<1>6. CASE ev.kind = "gap"
  BY <1>3, <1>6 DEF Enqueue
<1>7. CASE ev.kind \notin {"candle", "gap"} \cup QuoteKinds
  <2>1. Enqueue(q, ev) = DeliverStatus(q, ev)
    BY <1>7 DEF Enqueue, QuoteKinds
  <2> QED BY <1>2, <2>1 DEF DeliverStatus, NumbersFrom
<1> QED BY <1>4, <1>5, <1>6, <1>7

\* Every stretch in order, the stretches in order, and nothing numbered past
\* the frames read.
OrderInv ==
  /\ Rising(events) /\ Rising(queue) /\ Rising(sup.todo)
  /\ Before(ToSet(events), InHand) /\ Before(ToSet(events), ToSet(queue)) /\ Before(ToSet(events), ToSet(sup.todo))
  /\ Before(InHand, ToSet(queue)) /\ Before(InHand, ToSet(sup.todo))
  /\ Before(ToSet(queue), ToSet(sup.todo))
  /\ \A e \in Carried : Numbered(e) => e.n <= frames

LEMMA OrderIsArrivalOrder ==
  ASSUME StreamInv, OrderInv
  PROVE  ArrivalOrder
<1> DEFINE held == IF hand = NoEvent THEN <<>> ELSE <<hand>>
           a == events \o held
           b == a \o queue
<1>1. events \in Seq(Events) /\ queue \in Seq(Events) /\ sup.todo \in Seq(Events)
  BY DEF StreamInv, StreamTypeOK
<1>2. held \in Seq(Events) /\ ToSet(held) = InHand /\ Rising(held)
  <2>1. CASE hand = NoEvent
    BY <2>1, ToSetOfNone DEF InHand, Rising
  <2>2. CASE hand # NoEvent
    BY <2>2 DEF StreamInv, HandIsHeld, InHand, ToSet, Rising
  <2> QED BY <2>1, <2>2
<1> HIDE DEF held
<1>3. a \in Seq(Events) /\ Rising(a) /\ ToSet(a) = ToSet(events) \cup InHand
  BY <1>1, <1>2, RisingConcat DEF OrderInv
<1> HIDE DEF a
<1>4. Before(ToSet(a), ToSet(queue))
  BY <1>3 DEF OrderInv, Before
<1>5. b \in Seq(Events) /\ Rising(b) /\ ToSet(b) = ToSet(a) \cup ToSet(queue)
  BY <1>1, <1>3, <1>4, RisingConcat, ZenonT(60) DEF OrderInv
<1> HIDE DEF b
<1>6. Before(ToSet(b), ToSet(sup.todo))
  BY <1>3, <1>5 DEF OrderInv, Before
<1>7. Rising(b \o sup.todo)
  BY <1>1, <1>5, <1>6, RisingConcat DEF OrderInv
<1> QED BY <1>7 DEF ArrivalOrder, InFlight, Rising, held, a, b

LEMMA OrderInvInit == StreamInit => OrderInv
<1> SUFFICES ASSUME StreamInit PROVE OrderInv
  OBVIOUS
<1>1. events = <<>> /\ queue = <<>> /\ sup.todo = <<>> /\ hand = NoEvent
  BY DEF StreamInit
<1>2. Rising(<<>>)
  BY DEF Rising
<1> QED BY <1>1, <1>2, ToSetOfNone DEF OrderInv, Before, Carried, InHand

LEMMA DeliverOrder ==
  ASSUME StreamInv, OrderInv, Deliver
  PROVE  OrderInv'
<1> DEFINE ev == Head(sup.todo)
<1>1. /\ sup \in SupType /\ sup.todo # <<>> /\ sup.todo \in Seq(Events) /\ queue \in Seq(Events)
      /\ sup' = [sup EXCEPT !.at = "signal", !.todo = Tail(sup.todo)]
      /\ UNCHANGED <<frames, hand, events>>
  BY TypeFacts DEF Deliver, pumping
<1>2. sup'.todo = Tail(sup.todo)
  BY <1>1 DEF SupType
<1>3. /\ ToSet(sup.todo) = {ev} \cup ToSet(sup'.todo) /\ ev \in Events
      /\ Rising(sup'.todo) /\ Before({ev}, ToSet(sup'.todo))
  BY <1>1, <1>2, ToSetOfTail, RisingTail DEF OrderInv
<1>4. Before(ToSet(queue), {ev}) /\ Rising(queue)
  BY <1>3 DEF OrderInv, Before
<1>5. Rising(queue') /\ NumbersFrom(queue', queue, ev)
  <2>1. CASE ev.kind = "finish"
    BY <1>4, <2>1 DEF Deliver, NumbersFrom
  <2>2. CASE ev.kind # "finish"
    <3>1. queue' = Enqueue(queue, ev)
      BY <2>2 DEF Deliver
    <3> QED BY <1>1, <1>3, <1>4, <2>2, <3>1, EnqueueRises
  <2> QED BY <2>1, <2>2
<1> HIDE DEF ev
<1>6. InHand' = InHand
  BY <1>1 DEF InHand
<1>7. /\ Before(ToSet(events), ToSet(queue')) /\ Before(InHand, ToSet(queue')) /\ Before(ToSet(queue'), ToSet(sup'.todo))
      /\ Before(ToSet(events), ToSet(sup'.todo)) /\ Before(InHand, ToSet(sup'.todo))
  BY <1>3, <1>5 DEF OrderInv, Before, NumbersFrom
<1>8. \A e \in Carried' : Numbered(e) => e.n <= frames
  BY <1>1, <1>3, <1>5, <1>6 DEF OrderInv, Carried, NumbersFrom
<1> QED BY <1>1, <1>3, <1>5, <1>6, <1>7, <1>8 DEF OrderInv

\* The supervisor sets out to tell something numbered past all that is on its way, or
\* nothing numbered.
LEMMA TellingOrder ==
  ASSUME StreamInv, OrderInv, UNCHANGED <<queue, hand, events>>, frames' \in Nat, frames' >= frames, Rising(sup'.todo),
         \A e \in ToSet(sup'.todo) : Numbered(e) => (e.n = frames' /\ frames' > frames) \/ e \in ToSet(sup.todo)
  PROVE  OrderInv'
<1>1. InHand' = InHand /\ frames \in Nat
  BY TypeFacts DEF InHand
<1>2. Carried \subseteq Events
  <2>1. ToSet(events) \subseteq Events /\ ToSet(queue) \subseteq Events /\ ToSet(sup.todo) \subseteq Events
    BY TypeFacts, ElementOfSeq, LenProperties DEF ToSet
  <2> QED BY <2>1 DEF Carried, InHand, StreamInv, HandIsHeld
<1>3. \A e \in Carried : Numbered(e) => e.n \in Nat /\ e.n <= frames
  BY <1>2 DEF OrderInv, Events
<1>4. /\ Before(ToSet(events), ToSet(sup'.todo)) /\ Before(InHand, ToSet(sup'.todo)) /\ Before(ToSet(queue), ToSet(sup'.todo))
  BY <1>1, <1>3 DEF OrderInv, Before, Carried
<1>5. \A e \in Carried' : Numbered(e) => e.n <= frames'
  <2>1. \A e \in Carried : Numbered(e) => e.n <= frames'
    BY <1>1, <1>3
  <2>2. ASSUME NEW e \in ToSet(sup'.todo), Numbered(e) PROVE e.n <= frames'
    BY <2>1, <2>2 DEF Carried
  <2>3. Carried' = ToSet(events) \cup InHand \cup ToSet(queue) \cup ToSet(sup'.todo)
    BY <1>1 DEF Carried
  <2> QED BY <2>1, <2>2, <2>3 DEF Carried
<1> QED BY <1>1, <1>4, <1>5 DEF OrderInv

LEMMA SilentOrder ==
  ASSUME StreamInv, OrderInv, UNCHANGED <<queue, hand, events, frames>>, Rising(sup'.todo),
         \A e \in ToSet(sup'.todo) : Numbered(e) => e \in ToSet(sup.todo)
  PROVE  OrderInv'
<1>1. frames \in Nat
  BY TypeFacts
<1> QED BY <1>1, TellingOrder

\* What a supervisor that leaves or has lost the feed tells is not numbered.
LEMMA UnnumberedRises ==
  ASSUME NEW s, \A e \in ToSet(s) : ~Numbered(e)
  PROVE  Rising(s)
BY DEF Rising, ToSet

LEMMA LeaveOrder ==
  ASSUME Leave \/ \E c \in Causes : GiveUp(<<>>, c) \/ GiveUp(<<GapEvent(All, 0)>>, c)
  PROVE  \A e \in ToSet(sup'.todo) : ~Numbered(e)
<1>1. CASE Leave
  BY <1>1, LeaveType, EventTypes DEF Numbered
<1>2. ASSUME NEW c \in Causes, GiveUp(<<>>, c) PROVE \A e \in ToSet(sup'.todo) : ~Numbered(e)
  <2>1. <<>> \in Seq(Events)
    OBVIOUS
  <2> QED BY <1>2, <2>1, GiveUpType, EventTypes, ToSetOfNone DEF Numbered
<1>3. ASSUME NEW c \in Causes, GiveUp(<<GapEvent(All, 0)>>, c) PROVE \A e \in ToSet(sup'.todo) : ~Numbered(e)
  <2> DEFINE gap == GapEvent(All, 0)
  <2>1. gap.kind = "gap" /\ gap \in Events
    BY EventTypes
  <2> HIDE DEF gap
  <2>2. <<gap>> \in Seq(Events) /\ ToSet(<<gap>>) = {gap}
    BY <2>1 DEF ToSet
  <2>3. GiveUp(<<gap>>, c)
    BY <1>3 DEF gap
  <2> QED BY <2>1, <2>2, <2>3, GiveUpType, EventTypes DEF Numbered
<1> QED BY <1>1, <1>2, <1>3

LEMMA ReadFrameOrder ==
  ASSUME StreamInv, StreamAssumption, OrderInv, NEW f \in Frames, ReadFrame(f)
  PROVE  OrderInv'
<1> DEFINE status == Event("status", All, 0, frames + 1)
           gap == GapEvent(All, 0)
<1>1. sup.todo = <<>> /\ frames' = frames + 1 /\ frames \in Nat /\ UNCHANGED <<queue, hand, events>>
  BY TypeFacts DEF ReadFrame, StreamInv, NothingToTell, shared, pumping
<1>2. status.n = frames + 1 /\ gap.kind = "gap"
  BY DEF Event, GapEvent
<1>3. Rising(sup'.todo) /\ \A e \in ToSet(sup'.todo) : Numbered(e) => e.n = frames + 1
  <2>1. CASE f.type \in {"candle", "last_price", "orderbook"}
    <3> DEFINE ev == Event(f.type, f.uid, IF f.type = "candle" THEN f.time ELSE 0, frames + 1)
    <3>1. sup' = [at |-> "deliver", todo |-> <<ev>>, then |-> "read"] /\ ev.n = frames + 1
      BY <2>1 DEF ReadFrame, Tell, Event
    <3> HIDE DEF ev
    <3> QED BY <3>1 DEF Rising, ToSet
  <2>2. CASE f.type = "lifecycle"
    <3>1. sup' \in {[at |-> "deliver", todo |-> <<status, gap>>, then |-> "read"],
                    [at |-> "deliver", todo |-> <<status>>, then |-> "read"]}
      BY <2>2 DEF ReadFrame, Tell
    <3> HIDE DEF status, gap
    <3> QED BY <1>2, <3>1 DEF Rising, ToSet, Numbered
  <2>3. CASE f.type = "error"
    <3>1. \E then \in {"reap", "read"} : sup' = [at |-> "deliver", todo |-> <<status>>, then |-> then]
      BY <2>3 DEF ReadFrame, Tell
    <3> HIDE DEF status
    <3> QED BY <1>2, <3>1 DEF Rising, ToSet
  <2>4. CASE f.type = "malformed"
    <3>1. sup' = [sup EXCEPT !.at = "reap"]
      BY <2>4 DEF ReadFrame
    <3>2. sup'.todo = <<>>
      BY <1>1, <3>1, TypeFacts DEF SupType
    <3> QED BY <3>2, ToSetOfNone DEF Rising
  <2> QED BY <2>1, <2>2, <2>3, <2>4 DEF StreamAssumption
<1> QED BY <1>1, <1>3, TellingOrder

LEMMA SupervisorOrder ==
  ASSUME StreamInv, OrderInv,
         \/ Signal \/ Backoff
         \/ \E started \in BOOLEAN : Spawn(started)
         \/ \E fast \in BOOLEAN : Reap(fast)
         \/ \E exit \in Exits : ChildExits(exit)
  PROVE  OrderInv'
<1>1. UNCHANGED <<queue, hand, events, frames>>
  BY DEF Signal, Backoff, Spawn, Reap, ChildExits, shared, pumping
<1>2. /\ sup \in SupType
      /\ \/ \E place \in SupervisorPlaces : sup' = [sup EXCEPT !.at = place]
         \/ Tell(<<GapEvent(All, 0)>>, "backoff")
         \/ Leave
         \/ \E c \in Causes : GiveUp(<<>>, c) \/ GiveUp(<<GapEvent(All, 0)>>, c)
  <2>1. sup \in SupType /\ run \in RunType /\ "RESOLVE" \in Causes /\ "BREAKER" \in Causes
    BY TypeFacts DEF Causes
  <2>2. CASE Signal
    BY <2>1, <2>2 DEF Signal, SupType, Resumptions, SupervisorPlaces
  <2>3. CASE Backoff
    BY <2>1, <2>3 DEF Backoff, SupervisorPlaces
  <2>4. ASSUME NEW started \in BOOLEAN, Spawn(started) PROVE (sup' = [sup EXCEPT !.at = "read"]) \/ Leave \/ GiveUp(<<>>, "RESOLVE")
    BY <2>4 DEF Spawn
  <2>5. ASSUME NEW fast \in BOOLEAN, Reap(fast)
        PROVE  \/ Tell(<<GapEvent(All, 0)>>, "backoff") \/ Leave
               \/ \E c \in Causes : GiveUp(<<>>, c) \/ GiveUp(<<GapEvent(All, 0)>>, c)
    BY <2>1, <2>5 DEF Reap, RunType
  <2>6. ASSUME NEW exit \in Exits, ChildExits(exit) PROVE sup' = [sup EXCEPT !.at = "reap"]
    BY <2>6 DEF ChildExits
  <2> QED BY <2>1, <2>2, <2>3, <2>4, <2>5, <2>6 DEF SupervisorPlaces
<1>3. Rising(sup'.todo) /\ \A e \in ToSet(sup'.todo) : Numbered(e) => e \in ToSet(sup.todo)
  <2>1. CASE \E place \in SupervisorPlaces : sup' = [sup EXCEPT !.at = place]
    <3>1. sup'.todo = sup.todo
      BY <1>2, <2>1 DEF SupType
    <3> QED BY <3>1 DEF OrderInv
  <2>2. CASE Tell(<<GapEvent(All, 0)>>, "backoff")
    <3> DEFINE gap == GapEvent(All, 0)
    <3>1. gap.kind = "gap" /\ gap \in Events /\ Tell(<<gap>>, "backoff")
      BY <2>2, EventTypes
    <3> HIDE DEF gap
    <3>2. sup'.todo = <<gap>> /\ ToSet(<<gap>>) = {gap}
      BY <3>1 DEF Tell, ToSet
    <3> QED BY <3>1, <3>2, UnnumberedRises DEF Numbered
  <2>3. CASE Leave \/ \E c \in Causes : GiveUp(<<>>, c) \/ GiveUp(<<GapEvent(All, 0)>>, c)
    BY <2>3, LeaveOrder, UnnumberedRises
  <2> QED BY <1>2, <2>1, <2>2, <2>3
<1> QED BY <1>1, <1>3, SilentOrder

LEMMA PumpOrder ==
  ASSUME StreamInv, StreamAssumption, OrderInv, Pump \/ CloseDone \/ Receive \/ Cancel \/ UNCHANGED streamVars
  PROVE  OrderInv'
<1>1. UNCHANGED <<sup, frames>>
  BY DEF Pump, Look, Send, AwaitWake, Abandon, CloseDone, Receive, Cancel, streamVars, supervisor
<1>2. CASE Look
  <2>1. pump = "look" /\ hand = NoEvent /\ UNCHANGED events /\ InHand = {} /\ queue \in Seq(Events)
    BY <1>2, PumpTypes DEF Look, StreamInv, HandIsHeld, InHand
  <2>2. CASE HasNext
    <3>1. hand' = Head(queue) /\ queue' = Tail(queue) /\ queue # <<>>
      BY <1>2, <2>2 DEF Look, HasNext
    <3>2. ToSet(queue) = {hand'} \cup ToSet(queue') /\ Rising(queue') /\ Before({hand'}, ToSet(queue'))
      BY <2>1, <3>1, ToSetOfTail, RisingTail DEF OrderInv
    <3>3. InHand' \subseteq {hand'}
      BY DEF InHand
    <3> QED BY <1>1, <2>1, <3>2, <3>3 DEF OrderInv, Before, Carried
  <2>3. CASE ~HasNext
    <3>1. UNCHANGED queue /\ (hand' = hand \/ hand' = NoEvent \/ hand' = StreamDown(terminal))
      BY <1>2, <2>3 DEF Look
    <3>2. \A e \in InHand' : ~Numbered(e)
      BY <2>1, <3>1 DEF InHand, Numbered, StreamDown, Event
    <3> QED BY <1>1, <2>1, <3>1, <3>2 DEF OrderInv, Before, Carried
  <2> QED BY <2>2, <2>3
<1>3. CASE Send
  <2>1. hand \in Events /\ events' = Append(events, hand) /\ hand' = NoEvent /\ UNCHANGED queue /\ events \in Seq(Events)
    BY <1>3, PumpTypes DEF Send, StreamInv, HandIsHeld, shared
  <2>2. hand # NoEvent
    BY <2>1 DEF StreamAssumption
  <2>3. InHand = {hand} /\ InHand' = {}
    BY <2>1, <2>2 DEF InHand
  <2>4. ToSet(events') = ToSet(events) \cup {hand} /\ Rising(events')
    BY <2>1, <2>3, ToSetOfAppend, RisingAppend DEF OrderInv
  <2> QED BY <1>1, <2>1, <2>3, <2>4 DEF OrderInv, Before, Carried
<1>4. CASE Receive
  <2>1. events # <<>> /\ events' = Tail(events) /\ UNCHANGED <<queue, hand>> /\ events \in Seq(Events)
    BY <1>4, PumpTypes DEF Receive, shared
  <2>2. ToSet(events') \subseteq ToSet(events) /\ Rising(events')
    BY <2>1, ToSetOfTail, RisingTail DEF OrderInv
  <2>3. InHand' = InHand
    BY <2>1 DEF InHand
  <2> QED BY <1>1, <2>1, <2>2, <2>3 DEF OrderInv, Before, Carried
<1>5. CASE Abandon \/ AwaitWake \/ CloseDone \/ Cancel \/ UNCHANGED streamVars
  <2>1. UNCHANGED <<queue, events>> /\ (hand' = hand \/ hand' = NoEvent)
    BY <1>5 DEF Abandon, AwaitWake, CloseDone, Cancel, streamVars, shared, pumping
  <2>2. InHand' \subseteq InHand
    BY <2>1 DEF InHand
  <2> QED BY <1>1, <2>1, <2>2 DEF OrderInv, Before, Carried
<1> QED BY <1>2, <1>3, <1>4, <1>5 DEF Pump

\* Whatever is coalesced, dropped, merged or still in a buffer, the consumer
\* hears quotes, candles and statuses in the order the child wrote them.
THEOREM FramesArriveInOrder == StreamSpec => []ArrivalOrder
<1>1. StreamAssumption
  BY StreamAssumption
<1>2. StreamInv /\ OrderInv /\ [StreamNext]_streamVars => OrderInv'
  BY <1>1, DeliverOrder, SupervisorOrder, ReadFrameOrder, PumpOrder DEF StreamNext, Supervise, Child
<1>3. StreamInv /\ OrderInv => ArrivalOrder
  BY OrderIsArrivalOrder
<1> QED BY <1>2, <1>3, OrderInvInit, StreamInvariant, PTL DEF StreamSpec

-----------------------------------------------------------------------------
(* The size of the queue *)

Solid(q) == {i \in DOMAIN q : ~Coalesced(q[i])}
Single(q) ==
  \A i, j \in DOMAIN q : i < j /\ Coalesced(q[i]) => q[i].kind # q[j].kind \/ q[i].uid # q[j].uid
Bounded(q) == Cardinality(Solid(q)) <= QueueSize /\ Single(q)

LEMMA SolidIsFinite ==
  ASSUME NEW S, NEW q \in Seq(S)
  PROVE  IsFiniteSet(Solid(q)) /\ Cardinality(Solid(q)) \in Nat /\ Cardinality(Solid(q)) <= Len(q)
<1>1. Len(q) \in Nat /\ DOMAIN q = 1..Len(q)
  BY LenProperties
<1>2. IsFiniteSet(1..Len(q)) /\ Cardinality(1..Len(q)) = Len(q)
  BY <1>1, FS_Interval
<1> QED BY <1>1, <1>2, FS_Subset, FS_CardinalityType DEF Solid

\* A sequence picked from another in its order is as bounded.
LEMMA PickedIsBounded ==
  ASSUME NEW S, NEW q \in Seq(S), NEW r \in Seq(S), NEW was \in [DOMAIN r -> DOMAIN q],
         \A j \in DOMAIN r : r[j] = q[was[j]],
         \A j, k \in DOMAIN r : j < k => was[j] < was[k],
         Bounded(q)
  PROVE  Bounded(r)
<1>1. DOMAIN q \subseteq Int /\ DOMAIN r \subseteq Int
  BY LenProperties
<1> DEFINE f == [j \in Solid(r) |-> was[j]]
<1>2. f \in Injection(Solid(r), Solid(q))
  <2>1. f \in [Solid(r) -> Solid(q)]
    BY DEF Solid
  <2>2. ASSUME NEW a \in Solid(r), NEW b \in Solid(r), f[a] = f[b] PROVE a = b
    <3>1. a \in DOMAIN r /\ b \in DOMAIN r /\ was[a] = was[b]
      BY <2>2 DEF Solid
    <3>2. was[a] \in Int /\ was[b] \in Int /\ a \in Int /\ b \in Int
      BY <1>1, <3>1
    <3> QED BY <3>1, <3>2
  <2> QED BY <2>1, <2>2, Zenon DEF Injection, IsInjective
<1>3. Cardinality(Solid(r)) <= Cardinality(Solid(q))
  BY <1>2, SolidIsFinite, FS_Injection
<1>4. Cardinality(Solid(r)) <= QueueSize
  BY <1>3, SolidIsFinite, QueueAssumption DEF Bounded
<1>5. Single(r)
  BY DEF Bounded, Single
<1> QED BY <1>4, <1>5 DEF Bounded

LEMMA TailIsBounded ==
  ASSUME NEW S, NEW q \in Seq(S), q # <<>>, Bounded(q)
  PROVE  Bounded(Tail(q))
<1>1. Len(q) \in Nat \ {0} /\ DOMAIN q = 1..Len(q)
  BY EmptySeq, LenProperties
<1>2. /\ Tail(q) \in Seq(S) /\ DOMAIN Tail(q) = 1..(Len(q) - 1)
      /\ \A i \in 1..(Len(q) - 1) : Tail(q)[i] = q[i + 1]
  BY HeadTailProperties, LenProperties
<1> DEFINE was == [i \in 1..(Len(q) - 1) |-> i + 1]
<1>3. /\ was \in [DOMAIN Tail(q) -> DOMAIN q]
      /\ \A j \in DOMAIN Tail(q) : Tail(q)[j] = q[was[j]]
      /\ \A j, k \in DOMAIN Tail(q) : j < k => was[j] < was[k]
  BY <1>1, <1>2
<1> HIDE DEF was
<1> QED BY <1>2, <1>3, PickedIsBounded

LEMMA RemovedIsBounded ==
  ASSUME NEW S, NEW q \in Seq(S), NEW i \in 1..Len(q), Bounded(q)
  PROVE  Bounded(RemoveAt(q, i))
<1> DEFINE r == RemoveAt(q, i)
           was == [j \in 1..(Len(q) - 1) |-> IF j < i THEN j ELSE j + 1]
<1>1. Len(q) \in Nat /\ DOMAIN q = 1..Len(q)
  BY LenProperties
<1>2. /\ r \in Seq(S) /\ DOMAIN r = 1..(Len(q) - 1)
      /\ \A j \in 1..(Len(q) - 1) : r[j] = q[IF j < i THEN j ELSE j + 1]
  BY RemoveAtMovesUp
<1> HIDE DEF r
<1>3. /\ was \in [DOMAIN r -> DOMAIN q]
      /\ \A j \in DOMAIN r : r[j] = q[was[j]]
      /\ \A j, k \in DOMAIN r : j < k => was[j] < was[k]
  BY <1>1, <1>2
<1> HIDE DEF was
<1>4. Bounded(r)
  BY <1>2, <1>3, PickedIsBounded
<1> QED BY <1>4 DEF r

LEMMA AppendIsBounded ==
  ASSUME NEW S, NEW q \in Seq(S), NEW ev \in S, Bounded(q),
         IF Coalesced(ev) THEN \A i \in DOMAIN q : q[i].kind # ev.kind \/ q[i].uid # ev.uid ELSE Len(q) < QueueSize
  PROVE  Bounded(Append(q, ev))
<1>1. /\ Append(q, ev) \in Seq(S) /\ Len(Append(q, ev)) = Len(q) + 1 /\ Len(q) \in Nat
      /\ DOMAIN Append(q, ev) = 1..(Len(q) + 1) /\ DOMAIN q = 1..Len(q)
      /\ Append(q, ev)[Len(q) + 1] = ev /\ \A i \in 1..Len(q) : Append(q, ev)[i] = q[i]
  BY AppendProperties, LenProperties
<1>2. Cardinality(Solid(Append(q, ev))) <= QueueSize
  <2>1. CASE Coalesced(ev)
    <3>1. Solid(Append(q, ev)) = Solid(q)
      BY <1>1, <2>1 DEF Solid
    <3> QED BY <3>1 DEF Bounded
  <2>2. CASE ~Coalesced(ev)
    <3>1. Cardinality(Solid(Append(q, ev))) \in Nat /\ Cardinality(Solid(Append(q, ev))) <= Len(q) + 1
      BY <1>1, SolidIsFinite
    <3>2. Len(q) < QueueSize
      BY <2>2
    <3> QED BY <1>1, <3>1, <3>2, QueueAssumption
  <2> QED BY <2>1, <2>2
<1>3. ASSUME NEW i \in 1..(Len(q) + 1), NEW j \in 1..(Len(q) + 1), i < j, Coalesced(Append(q, ev)[i]),
             Append(q, ev)[i].kind = Append(q, ev)[j].kind, Append(q, ev)[i].uid = Append(q, ev)[j].uid
      PROVE  FALSE
  <2>1. i \in 1..Len(q) /\ Append(q, ev)[i] = q[i] /\ (j \in 1..Len(q) \/ j = Len(q) + 1)
    BY <1>1, <1>3
  <2>2. CASE j \in 1..Len(q)
    BY <1>1, <1>3, <2>1, <2>2 DEF Bounded, Single
  <2>3. CASE j = Len(q) + 1
    BY <1>1, <1>3, <2>1, <2>3 DEF Coalesced
  <2> QED BY <2>1, <2>2, <2>3
<1> QED BY <1>1, <1>2, <1>3 DEF Bounded, Single

LEMMA EnqueueIsBounded ==
  ASSUME NEW q \in Seq(Events), NEW ev \in Events, ev.kind # "finish", Bounded(q)
  PROVE  Bounded(Enqueue(q, ev))
<1>1. Len(q) \in Nat /\ DOMAIN q = 1..Len(q) /\ \A i \in 1..Len(q) : q[i] \in Events
  BY LenProperties, ElementOfSeq
<1>2. ASSUME NEW g \in Events, g.kind = "gap" PROVE Bounded(MergeGapLocked(q, g))
  <2>1. CASE MergeGapLocked(q, g) = Append(q, g) /\ ~ \E i \in DOMAIN q : IsGap(q[i], g.uid)
    <3>1. Coalesced(g) /\ \A i \in DOMAIN q : q[i].kind # g.kind \/ q[i].uid # g.uid
      BY <1>2, <2>1 DEF IsGap, Coalesced
    <3> QED BY <2>1, <3>1, AppendIsBounded
  <2>2. ASSUME NEW i \in 1..Len(q), NEW new \in Events, IsGap(q[i], g.uid), IsGap(new, g.uid),
               MergeGapLocked(q, g) = [q EXCEPT ![i] = new]
        PROVE  Bounded(MergeGapLocked(q, g))
    <3> DEFINE r == [q EXCEPT ![i] = new]
    <3>1. /\ DOMAIN r = DOMAIN q
          /\ \A j \in DOMAIN q : r[j].kind = q[j].kind /\ r[j].uid = q[j].uid
      BY <1>1, <2>2 DEF IsGap
    <3> HIDE DEF r
    <3>2. Solid(r) = Solid(q) /\ (Single(q) => Single(r))
      BY <3>1 DEF Solid, Single, Coalesced
    <3>3. Bounded(r)
      BY <3>2 DEF Bounded
    <3> QED BY <2>2, <3>3 DEF r
  <2> QED BY <1>2, <2>1, <2>2, MergeGapShape, EventsAreQueued
<1>3. CASE ev.kind = "candle"
  <2> DEFINE gap == GapEvent(ev.uid, ev.time)
  <2>1. gap \in Events /\ gap.kind = "gap"
    BY DEF GapEvent, Event, Events, EventKinds
  <2>2. Enqueue(q, ev) = IF Len(q) >= QueueSize THEN MergeGapLocked(q, gap) ELSE Append(q, ev)
    BY <1>3 DEF Enqueue, DeliverCandle
  <2> HIDE DEF gap
  <2>3. ~Coalesced(ev) /\ (~(Len(q) >= QueueSize) => Len(q) < QueueSize)
    BY <1>1, <1>3, QueueAssumption DEF Coalesced
  <2> QED BY <1>2, <2>1, <2>2, <2>3, AppendIsBounded
<1>4. CASE ev.kind \in QuoteKinds
  <2> DEFINE d == DropQueued(q, ev)
  <2>1. Enqueue(q, ev) = Append(d, ev) /\ Coalesced(ev)
    BY <1>4 DEF Enqueue, Coalesce, QuoteKinds, Coalesced
  <2>2. d \in Seq(Events) /\ Bounded(d) /\ \A i \in DOMAIN d : d[i].kind # ev.kind \/ d[i].uid # ev.uid
    <3>1. CASE DropQueued(q, ev) = q /\ \A i \in DOMAIN q : q[i].kind # ev.kind \/ q[i].uid # ev.uid
      BY <3>1
    <3>2. ASSUME NEW i \in 1..Len(q), q[i].kind = ev.kind, q[i].uid = ev.uid, DropQueued(q, ev) = RemoveAt(q, i)
          PROVE  d \in Seq(Events) /\ Bounded(d) /\ \A j \in DOMAIN d : d[j].kind # ev.kind \/ d[j].uid # ev.uid
      <4>1. /\ RemoveAt(q, i) \in Seq(Events) /\ DOMAIN RemoveAt(q, i) = 1..(Len(q) - 1)
            /\ \A j \in 1..(Len(q) - 1) : RemoveAt(q, i)[j] = q[IF j < i THEN j ELSE j + 1]
        BY RemoveAtMovesUp
      <4>2. ASSUME NEW j \in 1..Len(q), j # i PROVE q[j].kind # ev.kind \/ q[j].uid # ev.uid
        <5>1. Coalesced(q[i])
          BY <2>1, <3>2 DEF Coalesced
        <5>2. CASE i < j
          BY <1>1, <3>2, <5>1, <5>2 DEF Bounded, Single
        <5>3. CASE j < i
          <6>1. q[j].kind = ev.kind => Coalesced(q[j])
            BY <2>1 DEF Coalesced
          <6> QED BY <1>1, <3>2, <5>3, <6>1 DEF Bounded, Single
        <5> QED BY <1>1, <4>2, <5>2, <5>3
      <4>3. \A j \in 1..(Len(q) - 1) : (IF j < i THEN j ELSE j + 1) \in 1..Len(q) /\ (IF j < i THEN j ELSE j + 1) # i
        BY <1>1
      <4>4. \A j \in DOMAIN RemoveAt(q, i) : RemoveAt(q, i)[j].kind # ev.kind \/ RemoveAt(q, i)[j].uid # ev.uid
        BY <4>1, <4>2, <4>3
      <4> QED BY <3>2, <4>1, <4>4, RemovedIsBounded
    <3> QED BY <3>1, <3>2, DropShape
  <2> HIDE DEF d
  <2> QED BY <2>1, <2>2, AppendIsBounded
<1>5. CASE ev.kind = "gap"
  BY <1>2, <1>5 DEF Enqueue
<1>6. CASE ev.kind \notin {"candle", "gap"} \cup QuoteKinds
  <2>1. Enqueue(q, ev) = DeliverStatus(q, ev) /\ ~Coalesced(ev)
    BY <1>6 DEF Enqueue, QuoteKinds, Coalesced
  <2> QED BY <2>1, AppendIsBounded DEF DeliverStatus
<1> QED BY <1>3, <1>4, <1>5, <1>6

LEMMA BoundedStep ==
  ASSUME StreamInv, Bounded(queue), [StreamNext]_streamVars
  PROVE  Bounded(queue)'
<1>1. CASE Deliver
  <2> DEFINE ev == Head(sup.todo)
  <2>1. queue \in Seq(Events) /\ sup.todo \in Seq(Events) /\ sup.todo # <<>>
    BY <1>1, TypeFacts DEF Deliver
  <2>2. ev \in Events
    BY <2>1, ToSetOfTail
  <2>3. queue' = queue \/ (ev.kind # "finish" /\ queue' = Enqueue(queue, ev))
    BY <1>1 DEF Deliver
  <2> HIDE DEF ev
  <2> QED BY <2>1, <2>2, <2>3, EnqueueIsBounded
<1>2. CASE Look
  <2>1. queue' = queue \/ (queue # <<>> /\ queue' = Tail(queue))
    BY <1>2 DEF Look, HasNext
  <2> QED BY <2>1, TailIsBounded, TypeFacts
<1>3. CASE ~Deliver /\ ~Look
  <2>1. UNCHANGED queue
    BY <1>3 DEF StreamNext, Supervise, Signal, Backoff, Spawn, Reap, Child, ReadFrame, ChildExits, Pump, Send,
                AwaitWake, Abandon, CloseDone, Receive, Cancel, streamVars, shared, pumping
  <2> QED BY <2>1
<1> QED BY <1>1, <1>2, <1>3

\* A consumer that stalls for as long as it likes leaves at most the queue's
\* size of candles and statuses waiting, and of everything else one of a kind
\* for an instrument.
THEOREM QueueStaysBounded == StreamSpec => []QueueBounded
<1>1. Bounded(queue) <=> QueueBounded
  BY DEF Bounded, Single, Solid, QueueBounded
<1>2. StreamInit => Bounded(queue)
  <2> SUFFICES ASSUME StreamInit PROVE Bounded(queue)
    OBVIOUS
  <2>1. queue = <<>>
    BY DEF StreamInit
  <2>2. Solid(<<>>) = {} /\ Single(<<>>)
    BY DEF Solid, Single
  <2> QED BY <2>1, <2>2, FS_EmptySet, QueueAssumption DEF Bounded
<1>3. StreamInv /\ Bounded(queue) /\ [StreamNext]_streamVars => Bounded(queue)'
  BY BoundedStep
<1> QED BY <1>1, <1>2, <1>3, StreamInvariant, PTL DEF StreamSpec

-----------------------------------------------------------------------------
(* The end of the stream *)

Finish(c) == Event("finish", c, 0, 0)
LostAll == GapEvent(All, 0)
Telling == sup.at \in {"deliver", "signal"}

\* The places the supervisor reaches only with the child reaped.
Childless == sup.at \in {"loop", "backoff", "off"} \/ (Telling /\ sup.then \in {"loop", "backoff", "off"})

ReapedBeforeDone ==
  /\ Childless => child = "none"
  /\ done => Exited
  /\ closed <=> pump = "off"

\* finish is left for the last, and finish(nil) is the first outcome only in
\* a shutdown.
Farewell ==
  /\ sup.then = "off" => sup.at \in {"deliver", "signal", "off"}
  /\ sup.then # "off" => \A e \in ToSet(sup.todo) : e.kind # "finish"
  /\ sup.then = "off" /\ Telling /\ ~finished =>
       \/ \E c \in Causes : sup.todo \in {<<LostAll, Finish(c), FinishNil>>, <<Finish(c), FinishNil>>}
       \/ cancelled /\ sup.todo = <<FinishNil>>
Afterwards ==
  finished => /\ sup.then = "off" /\ sup.todo \in {<<>>, <<FinishNil>>}
              /\ cancelled \/ terminal # Nil
LastWord ==
  /\ pump = "last" => finished /\ queue = <<>> /\ hand = StreamDown(terminal)
  /\ pump = "off" /\ ~cancelled =>
       /\ finished /\ queue = <<>>
       /\ IF events = <<>> THEN told ELSE events[Len(events)].kind = "down"

EndInv == ReapedBeforeDone /\ Farewell /\ Afterwards /\ LastWord

LEMMA EndInvInit == StreamInit => EndInv
<1> SUFFICES ASSUME StreamInit PROVE EndInv
  OBVIOUS
<1>1. /\ sup.at = "loop" /\ sup.then = "loop" /\ sup.todo = <<>> /\ child = "none"
      /\ pump = "look" /\ ~closed /\ ~done /\ ~finished
  BY DEF StreamInit
<1> QED
  BY <1>1, ToSetOfNone
     DEF EndInv, ReapedBeforeDone, Farewell, Afterwards, LastWord, Childless, Telling, Exited

LEMMA DeliverEnd ==
  ASSUME StreamInv, EndInv, Deliver
  PROVE  EndInv'
<1> DEFINE ev == Head(sup.todo)
<1>1. /\ sup \in SupType /\ sup.at = "deliver" /\ sup.todo # <<>> /\ sup.todo \in Seq(Events)
      /\ sup' = [sup EXCEPT !.at = "signal", !.todo = Tail(sup.todo)]
      /\ UNCHANGED <<child, run, frames, wake, pump, hand, events, closed, done, cancelled, owed, told>>
  BY TypeFacts DEF Deliver, pumping
<1>2. sup'.at = "signal" /\ sup'.then = sup.then /\ sup'.todo = Tail(sup.todo)
  BY <1>1 DEF SupType
<1>3. ToSet(sup.todo) = {ev} \cup ToSet(sup'.todo)
  BY <1>1, <1>2, ToSetOfTail
<1>4. FinishNil.kind = "finish" /\ FinishNil.uid = Nil /\ LostAll.kind = "gap" /\ Nil \notin Causes
      /\ \A c \in Causes : Finish(c).kind = "finish" /\ Finish(c).uid = c
  BY DEF FinishNil, Finish, Event, LostAll, GapEvent, Nil, Causes, Refusals
<1>5. ReapedBeforeDone'
  BY <1>1, <1>2 DEF EndInv, ReapedBeforeDone, Childless, Telling, Exited
<1>6. Farewell' /\ Afterwards' /\ (finished => UNCHANGED <<queue, finished, terminal>>)
  <2>1. CASE sup.then # "off"
    <3>1. ~finished /\ ev.kind # "finish"
      BY <1>3, <2>1 DEF EndInv, Farewell, Afterwards
    <3>2. UNCHANGED <<finished, terminal>>
      BY <3>1 DEF Deliver
    <3> QED
      BY <1>2, <1>3, <2>1, <3>1, <3>2 DEF EndInv, Farewell, Afterwards
  <2>2. CASE sup.then = "off" /\ finished
    <3>1. sup.todo = <<FinishNil>>
      BY <1>1, <2>2 DEF EndInv, Afterwards
    <3>2. ev = FinishNil /\ sup'.todo = <<>>
      BY <1>2, <3>1
    <3>3. UNCHANGED <<queue, finished, terminal>>
      BY <1>4, <2>2, <3>2 DEF Deliver, Outcome
    <3> QED
      BY <1>1, <1>2, <2>2, <3>2, <3>3, ToSetOfNone DEF EndInv, Farewell, Afterwards
  <2>3. CASE sup.then = "off" /\ ~finished
    <3>1. \/ \E c \in Causes : sup.todo \in {<<LostAll, Finish(c), FinishNil>>, <<Finish(c), FinishNil>>}
          \/ cancelled /\ sup.todo = <<FinishNil>>
      BY <1>1, <2>3 DEF EndInv, Farewell, Telling
    <3>2. ASSUME NEW c \in Causes, sup.todo = <<LostAll, Finish(c), FinishNil>>
          PROVE  Farewell' /\ Afterwards'
      <4>1. ev = LostAll /\ sup'.todo = <<Finish(c), FinishNil>>
        BY <1>2, <3>2
      <4>2. UNCHANGED finished
        BY <1>4, <4>1 DEF Deliver
      <4> QED
        BY <1>2, <2>3, <4>1, <4>2 DEF Farewell, Afterwards, Telling, LostAll, Finish
    <3>3. ASSUME NEW c \in Causes, sup.todo = <<Finish(c), FinishNil>>
          PROVE  Farewell' /\ Afterwards'
      <4>1. ev = Finish(c) /\ sup'.todo = <<FinishNil>>
        BY <1>2, <3>3
      <4>2. finished' /\ terminal' = c
        BY <1>4, <2>3, <4>1 DEF Deliver, Outcome
      <4> QED
        BY <1>2, <1>4, <2>3, <4>1, <4>2 DEF Farewell, Afterwards, FinishNil
    <3>4. CASE cancelled /\ sup.todo = <<FinishNil>>
      <4>1. ev = FinishNil /\ sup'.todo = <<>>
        BY <1>2, <3>4
      <4>2. finished'
        BY <1>4, <4>1 DEF Deliver
      <4> QED
        BY <1>1, <1>2, <2>3, <3>4, <4>1, <4>2 DEF Farewell, Afterwards
    <3> QED
      BY <2>3, <3>1, <3>2, <3>3, <3>4
  <2> QED
    BY <2>1, <2>2, <2>3
<1>7. LastWord'
  BY <1>1, <1>6 DEF EndInv, LastWord, StreamDown, Event
<1> QED
  BY <1>5, <1>6, <1>7 DEF EndInv

\* What the supervisor does before it leaves says nothing of the end.
LEMMA OnTheWay ==
  ASSUME StreamInv, EndInv, sup.at \in {"loop", "read", "reap", "backoff"},
         UNCHANGED <<queue, finished, terminal, pump, hand, events, closed, done, cancelled, told>>,
         Farewell', Childless' => child' = "none"
  PROVE  EndInv'
<1>1. ~finished /\ ~done /\ sup.then # "off"
  BY DEF EndInv, Farewell, Afterwards, ReapedBeforeDone, Exited
<1>2. ReapedBeforeDone' /\ Afterwards'
  BY <1>1 DEF EndInv, ReapedBeforeDone, Afterwards
<1>3. LastWord'
  BY <1>1 DEF EndInv, LastWord
<1> QED
  BY <1>2, <1>3 DEF EndInv

LEMMA OneBeforeTwo ==
  ASSUME NEW S, NEW a \in S, NEW b \in S, NEW c \in S
  PROVE  <<a>> \o <<b, c>> = <<a, b, c>>
<1>1. <<a>> \in Seq(S) /\ <<b, c>> \in Seq(S) /\ <<a, b, c>> \in Seq(S)
  OBVIOUS
<1>2. <<a>> \o <<b, c>> \in Seq(S) /\ Len(<<a>> \o <<b, c>>) = 3
  BY <1>1
<1>3. (<<a>> \o <<b, c>>)[1] = a /\ (<<a>> \o <<b, c>>)[2] = b /\ (<<a>> \o <<b, c>>)[3] = c
  BY <1>1
<1>4. \A i \in 1..3 : (<<a>> \o <<b, c>>)[i] = <<a, b, c>>[i]
  BY <1>3
<1> QED
  BY <1>1, <1>2, <1>4, SeqEqual

LEMMA LeavesForGood ==
  ASSUME StreamInv, EndInv, sup.at \in {"loop", "read", "reap", "backoff"}, UNCHANGED <<finished, cancelled>>,
         \/ cancelled /\ Leave
         \/ \E c \in Causes : GiveUp(<<>>, c) \/ GiveUp(<<LostAll>>, c)
  PROVE  Farewell' /\ sup'.at = "deliver" /\ sup'.then = "off"
<1>1. CASE cancelled /\ Leave
  BY <1>1, LeaveType DEF Farewell, Telling, Leave, Tell
<1>2. ASSUME NEW c \in Causes, GiveUp(<<>>, c) PROVE Farewell' /\ sup'.at = "deliver" /\ sup'.then = "off"
  <2>1. sup' = [at |-> "deliver", todo |-> <<>> \o <<Finish(c), FinishNil>>, then |-> "off"]
    BY <1>2 DEF GiveUp, Tell, Finish
  <2>2. Finish(c) \in Events /\ FinishNil \in Events
    BY EventTypes DEF Finish
  <2>3. <<>> \o <<Finish(c), FinishNil>> = <<Finish(c), FinishNil>>
    BY <2>2
  <2> QED
    BY <2>1, <2>3 DEF Farewell, Telling
<1>3. ASSUME NEW c \in Causes, GiveUp(<<LostAll>>, c) PROVE Farewell' /\ sup'.at = "deliver" /\ sup'.then = "off"
  <2>1. sup' = [at |-> "deliver", todo |-> <<LostAll>> \o <<Finish(c), FinishNil>>, then |-> "off"]
    BY <1>3 DEF GiveUp, Tell, Finish
  <2>2. Finish(c) \in Events /\ FinishNil \in Events /\ LostAll \in Events
    BY EventTypes DEF Finish, LostAll
  <2>3. <<LostAll>> \o <<Finish(c), FinishNil>> = <<LostAll, Finish(c), FinishNil>>
    BY <2>2, OneBeforeTwo
  <2> QED
    BY <2>1, <2>3 DEF Farewell, Telling
<1> QED
  BY <1>1, <1>2, <1>3

LEMMA SignalEnd ==
  ASSUME StreamInv, EndInv, Signal
  PROVE  EndInv'
<1>1. /\ sup.at = "signal" /\ sup' = [sup EXCEPT !.at = IF sup.todo = <<>> THEN sup.then ELSE "deliver"]
      /\ UNCHANGED <<child, queue, finished, terminal, pump, hand, events, closed, done, cancelled, told>>
  BY DEF Signal, shared, pumping
<1>2. /\ sup'.todo = sup.todo /\ sup'.then = sup.then
      /\ sup'.at = IF sup.todo = <<>> THEN sup.then ELSE "deliver"
  BY <1>1, TypeFacts DEF SupType
<1>3. ReapedBeforeDone'
  BY <1>1, <1>2 DEF EndInv, ReapedBeforeDone, Childless, Telling, Exited
<1>4. Farewell'
  <2>1. CASE sup.todo = <<>>
    BY <1>1, <1>2, <2>1, ToSetOfNone DEF EndInv, Farewell, Telling
  <2>2. CASE sup.todo # <<>>
    BY <1>1, <1>2, <2>2 DEF EndInv, Farewell, Telling
  <2> QED
    BY <2>1, <2>2
<1>5. Afterwards' /\ LastWord'
  BY <1>1, <1>2 DEF EndInv, Afterwards, LastWord
<1> QED
  BY <1>3, <1>4, <1>5 DEF EndInv

LEMMA SpawnEnd ==
  ASSUME StreamInv, EndInv, NEW started \in BOOLEAN, Spawn(started)
  PROVE  EndInv'
<1>1. /\ sup.at = "loop" /\ sup.todo = <<>> /\ child = "none" /\ sup.then # "off"
      /\ UNCHANGED <<queue, finished, terminal, pump, hand, events, closed, done, cancelled, told>>
  BY DEF Spawn, StreamInv, NothingToTell, EndInv, ReapedBeforeDone, Childless, Farewell, shared, pumping
<1>2. CASE ~cancelled /\ started
  <2>1. sup' = [sup EXCEPT !.at = "read"] /\ child' = "running"
    BY <1>2 DEF Spawn
  <2>2. sup'.at = "read" /\ sup'.then = sup.then /\ sup'.todo = <<>>
    BY <1>1, <2>1, TypeFacts DEF SupType
  <2> QED
    BY <1>1, <2>2, ToSetOfNone, OnTheWay DEF Farewell, Childless, Telling
<1>3. CASE cancelled \/ ~started
  <2>1. UNCHANGED child /\ ((cancelled /\ Leave) \/ GiveUp(<<>>, "RESOLVE")) /\ "RESOLVE" \in Causes
    BY <1>3 DEF Spawn, Causes
  <2> QED
    BY <1>1, <2>1, LeavesForGood, OnTheWay
<1> QED
  BY <1>2, <1>3

LEMMA ReadFrameEnd ==
  ASSUME StreamInv, StreamAssumption, EndInv, NEW f \in Frames, ReadFrame(f)
  PROVE  EndInv'
<1>1. /\ sup.at = "read" /\ sup.todo = <<>> /\ sup.then # "off" /\ StreamInv'
      /\ UNCHANGED <<queue, finished, terminal, pump, hand, events, closed, done, cancelled, told>>
  BY ReadFrameStep DEF ReadFrame, StreamInv, NothingToTell, EndInv, Farewell, shared, pumping
<1>2. sup'.then # "off" /\ ~Childless' /\ \A e \in ToSet(sup'.todo) : e.kind # "finish"
  <2>1. CASE f.type \in {"candle", "last_price", "orderbook"}
    <3> DEFINE ev == Event(f.type, f.uid, IF f.type = "candle" THEN f.time ELSE 0, frames + 1)
    <3>1. sup' = [at |-> "deliver", todo |-> <<ev>>, then |-> "read"] /\ ev.kind = f.type
      BY <2>1 DEF ReadFrame, Tell, Event
    <3> HIDE DEF ev
    <3> QED
      BY <2>1, <3>1 DEF Childless, Telling, ToSet
  <2>2. CASE f.type = "lifecycle"
    <3> DEFINE status == Event("status", All, 0, frames + 1)
    <3>1. status.kind = "status" /\ LostAll.kind = "gap"
      BY DEF Event, LostAll, GapEvent
    <3>2. sup' \in {[at |-> "deliver", todo |-> <<status, LostAll>>, then |-> "read"],
                    [at |-> "deliver", todo |-> <<status>>, then |-> "read"]}
      BY <2>2 DEF ReadFrame, Tell, LostAll
    <3> HIDE DEF status
    <3> QED
      BY <3>1, <3>2 DEF Childless, Telling, ToSet
  <2>3. CASE f.type = "error"
    <3> DEFINE status == Event("status", All, 0, frames + 1)
    <3>1. status.kind = "status"
      BY DEF Event
    <3>2. \E then \in {"reap", "read"} : sup' = [at |-> "deliver", todo |-> <<status>>, then |-> then]
      BY <2>3 DEF ReadFrame, Tell
    <3> HIDE DEF status
    <3> QED
      BY <3>1, <3>2 DEF Childless, Telling, ToSet
  <2>4. CASE f.type = "malformed"
    <3>1. sup' = [sup EXCEPT !.at = "reap"]
      BY <2>4 DEF ReadFrame
    <3>2. sup'.at = "reap" /\ sup'.then = sup.then /\ sup'.todo = <<>>
      BY <1>1, <3>1, TypeFacts DEF SupType
    <3> QED
      BY <1>1, <3>2, ToSetOfNone DEF Childless, Telling
  <2> QED
    BY <2>1, <2>2, <2>3, <2>4 DEF StreamAssumption
<1> QED
  BY <1>1, <1>2, OnTheWay DEF Farewell

LEMMA ChildExitsEnd ==
  ASSUME StreamInv, EndInv, NEW exit \in Exits, ChildExits(exit)
  PROVE  EndInv'
<1>1. /\ sup.at = "read" /\ sup.todo = <<>> /\ sup.then # "off" /\ sup' = [sup EXCEPT !.at = "reap"]
      /\ UNCHANGED <<queue, finished, terminal, pump, hand, events, closed, done, cancelled, told>>
  BY DEF ChildExits, StreamInv, NothingToTell, EndInv, Farewell, shared, pumping
<1>2. sup'.at = "reap" /\ sup'.then = sup.then /\ sup'.todo = <<>>
  BY <1>1, TypeFacts DEF SupType
<1> QED
  BY <1>1, <1>2, ToSetOfNone, OnTheWay DEF Farewell, Childless, Telling

LEMMA ReapEnd ==
  ASSUME StreamInv, EndInv, NEW fast \in BOOLEAN, Reap(fast)
  PROVE  EndInv'
<1>1. /\ sup.at = "reap" /\ child' = "none" /\ sup.then # "off"
      /\ UNCHANGED <<queue, finished, terminal, pump, hand, events, closed, done, cancelled, told>>
  BY DEF Reap, EndInv, Farewell, shared, pumping
<1>2. CASE Tell(<<LostAll>>, "backoff")
  <2>1. sup' = [at |-> "deliver", todo |-> <<LostAll>>, then |-> "backoff"] /\ LostAll.kind = "gap"
    BY <1>2 DEF Tell, LostAll, GapEvent, Event
  <2> QED
    BY <1>1, <2>1, OnTheWay DEF Farewell, ToSet
<1>3. CASE ~Tell(<<LostAll>>, "backoff")
  <2>1. (cancelled /\ Leave) \/ \E c \in Causes : GiveUp(<<>>, c) \/ GiveUp(<<LostAll>>, c)
    <3>1. run.cause \in Causes \cup {Nil} /\ "BREAKER" \in Causes
      BY TypeFacts DEF RunType, Causes
    <3> QED
      BY <1>3, <3>1 DEF Reap, LostAll
  <2> QED
    BY <1>1, <2>1, LeavesForGood, OnTheWay
<1> QED
  BY <1>2, <1>3

LEMMA BackoffEnd ==
  ASSUME StreamInv, EndInv, Backoff
  PROVE  EndInv'
<1>1. /\ sup.at = "backoff" /\ sup.todo = <<>> /\ child = "none" /\ sup.then # "off"
      /\ UNCHANGED <<child, queue, finished, terminal, pump, hand, events, closed, done, cancelled, told>>
  BY DEF Backoff, StreamInv, NothingToTell, EndInv, ReapedBeforeDone, Childless, Farewell, shared, pumping
<1>2. CASE sup' = [sup EXCEPT !.at = "loop"]
  <2>1. sup'.at = "loop" /\ sup'.then = sup.then /\ sup'.todo = <<>>
    BY <1>1, <1>2, TypeFacts DEF SupType
  <2> QED
    BY <1>1, <2>1, ToSetOfNone, OnTheWay DEF Farewell
<1>3. CASE cancelled /\ Leave
  BY <1>1, <1>3, LeavesForGood, OnTheWay
<1> QED
  BY <1>2, <1>3 DEF Backoff

\* Nothing the pump or the consumer does concerns the supervisor.
LEMMA SupervisorStays ==
  ASSUME EndInv, UNCHANGED <<child, sup, finished, terminal>>, cancelled => cancelled'
  PROVE  Farewell' /\ Afterwards' /\ (Childless' => child' = "none")
BY DEF EndInv, ReapedBeforeDone, Farewell, Afterwards, Childless, Telling

LEMMA LookEnd ==
  ASSUME StreamInv, EndInv, Look
  PROVE  EndInv'
<1>1. /\ pump = "look" /\ ~closed /\ ~done
      /\ UNCHANGED <<child, sup, finished, terminal, events, done, cancelled, told>>
  BY DEF Look, EndInv, ReapedBeforeDone, Exited, supervisor
<1>2. CASE HasNext
  <2>1. pump' = "send" /\ UNCHANGED closed
    BY <1>2 DEF Look
  <2> QED
    BY <1>1, <2>1, SupervisorStays DEF EndInv, ReapedBeforeDone, LastWord
<1>3. CASE ~HasNext /\ ~finished
  <2>1. pump' = "wait" /\ UNCHANGED closed
    BY <1>3 DEF Look
  <2> QED
    BY <1>1, <2>1, SupervisorStays DEF EndInv, ReapedBeforeDone, LastWord
<1>4. CASE ~HasNext /\ finished /\ terminal # Nil
  <2>1. pump' = "last" /\ hand' = StreamDown(terminal) /\ ~closed' /\ queue' = <<>>
    BY <1>4 DEF Look, HasNext
  <2> QED
    BY <1>1, <1>4, <2>1, SupervisorStays DEF EndInv, ReapedBeforeDone, LastWord, StreamDown, Event
<1>5. CASE ~HasNext /\ finished /\ terminal = Nil
  <2>1. pump' = "off" /\ closed' = TRUE /\ cancelled
    BY <1>5 DEF Look, EndInv, Afterwards
  <2> QED
    BY <1>1, <2>1, SupervisorStays DEF EndInv, ReapedBeforeDone, LastWord
<1> QED
  BY <1>2, <1>3, <1>4, <1>5

LEMMA SendEnd ==
  ASSUME StreamInv, EndInv, Send
  PROVE  EndInv'
<1>1. /\ pump \in {"send", "last"} /\ hand \in Events /\ events' = Append(events, hand) /\ ~done
      /\ UNCHANGED <<child, sup, queue, finished, terminal, done, cancelled, told>>
  BY DEF Send, StreamInv, HandIsHeld, EndInv, ReapedBeforeDone, Exited, supervisor, shared
<1>2. pump' = (IF pump = "last" THEN "off" ELSE "look") /\ (closed' <=> pump = "last")
  BY DEF Send
<1>3. events' # <<>> /\ events'[Len(events')] = hand
  <2>1. Len(events') = Len(events) + 1 /\ events'[Len(events) + 1] = hand /\ Len(events) \in Nat
    BY <1>1, PumpTypes, AppendProperties, LenProperties
  <2> QED
    BY <2>1, EmptySeq
<1>4. LastWord'
  <2>1. CASE pump = "last"
    <3>1. finished /\ queue = <<>> /\ hand = StreamDown(terminal) /\ StreamDown(terminal).kind = "down"
      BY <2>1 DEF EndInv, LastWord, StreamDown, Event
    <3> QED
      BY <1>1, <1>2, <1>3, <2>1, <3>1 DEF LastWord
  <2>2. CASE pump # "last"
    BY <1>1, <1>2, <2>2 DEF LastWord
  <2> QED
    BY <2>1, <2>2
<1>5. ReapedBeforeDone'
  BY <1>1, <1>2, SupervisorStays DEF ReapedBeforeDone
<1> QED
  BY <1>1, <1>4, <1>5, SupervisorStays DEF EndInv

LEMMA AbandonEnd ==
  ASSUME StreamInv, EndInv, Abandon
  PROVE  EndInv'
<1>1. /\ pump \in {"send", "last", "wait"} /\ cancelled /\ pump' = "off" /\ closed' = TRUE /\ ~done
      /\ UNCHANGED <<child, sup, queue, finished, terminal, events, done, cancelled, told>>
  BY DEF Abandon, EndInv, ReapedBeforeDone, Exited, supervisor, shared
<1>2. ReapedBeforeDone' /\ LastWord'
  BY <1>1, SupervisorStays DEF ReapedBeforeDone, LastWord
<1> QED
  BY <1>1, <1>2, SupervisorStays DEF EndInv

LEMMA ReceiveEnd ==
  ASSUME StreamInv, EndInv, Receive
  PROVE  EndInv'
<1>1. /\ events # <<>> /\ events' = Tail(events) /\ (told' <=> Head(events).kind = "down")
      /\ UNCHANGED <<child, sup, queue, finished, terminal, pump, hand, closed, done, cancelled>>
  BY DEF Receive, supervisor, shared
<1>2. /\ Len(events') = Len(events) - 1 /\ Len(events) \in Nat \ {0} /\ events' \in Seq(Events)
      /\ Head(events) = events[1] /\ \A i \in 1..Len(events') : events'[i] = events[i + 1]
  BY <1>1, PumpTypes, HeadTailProperties, EmptySeq, LenProperties
<1>3. IF events' = <<>> THEN Head(events) = events[Len(events)] ELSE events'[Len(events')] = events[Len(events)]
  <2>1. CASE events' = <<>>
    BY <1>2, <2>1, Len(events) = 1
  <2>2. CASE events' # <<>>
    <3>1. Len(events') \in Nat \ {0}
      BY <1>2, <2>2, EmptySeq, LenProperties
    <3>2. Len(events') \in 1..Len(events') /\ Len(events') + 1 = Len(events)
      BY <1>2, <3>1
    <3> QED
      BY <1>2, <2>2, <3>2
  <2> QED
    BY <2>1, <2>2
<1>4. LastWord'
  BY <1>1, <1>3 DEF EndInv, LastWord, StreamDown, Event
<1>5. ReapedBeforeDone'
  BY <1>1 DEF EndInv, ReapedBeforeDone, Childless, Telling, Exited
<1> QED
  BY <1>1, <1>4, <1>5, SupervisorStays DEF EndInv

LEMMA QuietEnd ==
  ASSUME StreamInv, EndInv, AwaitWake \/ CloseDone \/ Cancel \/ UNCHANGED streamVars
  PROVE  EndInv'
<1>1. CASE AwaitWake
  <2>1. /\ pump = "wait" /\ pump' = "look" /\ ~done
        /\ UNCHANGED <<child, sup, queue, finished, terminal, hand, events, closed, done, cancelled, told>>
    BY <1>1 DEF AwaitWake, EndInv, ReapedBeforeDone, Exited, supervisor, shared
  <2> QED
    BY <2>1, SupervisorStays DEF EndInv, ReapedBeforeDone, LastWord
<1>2. CASE CloseDone
  <2>1. Exited /\ UNCHANGED <<child, sup, queue, finished, terminal, pump, hand, events, closed, cancelled, told>>
    BY <1>2 DEF CloseDone, supervisor, shared
  <2> QED
    BY <2>1, SupervisorStays DEF EndInv, ReapedBeforeDone, LastWord, Exited, StreamDown, Event
<1>3. CASE Cancel
  <2>1. cancelled' /\ UNCHANGED <<child, sup, queue, finished, terminal, pump, hand, events, closed, done, told>>
    BY <1>3 DEF Cancel, supervisor, shared, pumping
  <2> QED
    BY <2>1, SupervisorStays DEF EndInv, ReapedBeforeDone, LastWord, Exited, StreamDown, Event
<1>4. CASE UNCHANGED streamVars
  <2>1. UNCHANGED <<child, sup, queue, finished, terminal, pump, hand, events, closed, done, cancelled, told>>
    BY <1>4 DEF streamVars, supervisor, shared, pumping
  <2> QED
    BY <2>1, SupervisorStays DEF EndInv, ReapedBeforeDone, LastWord, Exited, StreamDown, Event
<1> QED
  BY <1>1, <1>2, <1>3, <1>4

LEMMA EndInvStep ==
  ASSUME StreamAssumption, StreamInv, EndInv, [StreamNext]_streamVars
  PROVE  EndInv'
<1>1. CASE Supervise
  BY <1>1, DeliverEnd, SignalEnd, BackoffEnd, SpawnEnd, ReapEnd DEF Supervise
<1>2. CASE Child
  BY <1>2, ReadFrameEnd, ChildExitsEnd DEF Child
<1>3. CASE Pump
  BY <1>3, LookEnd, SendEnd, QuietEnd, AbandonEnd DEF Pump
<1>4. CASE CloseDone \/ Receive \/ Cancel \/ UNCHANGED streamVars
  BY <1>4, ReceiveEnd, QuietEnd
<1> QED
  BY <1>1, <1>2, <1>3, <1>4 DEF StreamNext

LEMMA EndInvariant == StreamSpec => []EndInv
<1>1. StreamAssumption
  BY StreamAssumption
<1> QED
  BY <1>1, EndInvInit, EndInvStep, StreamInvariant, PTL DEF StreamSpec

\* The channel closes without a shutdown only once its last event has said
\* why: supervise gives an outcome before it leaves, finish keeps the first,
\* and the pump sends it after everything queued.
THEOREM TheEndIsTold == StreamSpec => []EndIsTold
<1>1. EndInv => EndIsTold
  BY DEF EndInv, ReapedBeforeDone, LastWord, Afterwards, EndIsTold
<1> QED
  BY <1>1, EndInvariant, PTL

\* Close returns, by way of the done channel, to a reaped child and a closed
\* channel of events, whatever was under way when it was called.
THEOREM CloseIsComplete == StreamSpec => []DoneMeansReaped
<1>1. EndInv => DoneMeansReaped
  BY DEF EndInv, ReapedBeforeDone, Childless, Exited, DoneMeansReaped
<1> QED
  BY <1>1, EndInvariant, PTL
=============================================================================
