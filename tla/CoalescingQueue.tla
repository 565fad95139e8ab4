--------------------------- MODULE CoalescingQueue ---------------------------
(***************************************************************************)
(* The queue between the supervisor of the market data stream and its      *)
(* consumer: quotes coalesce to the latest, a candle that finds no room    *)
(* turns into a gap, and gaps merge.                                       *)
(***************************************************************************)
EXTENDS Integers, Sequences, SequencesExt, FiniteSets

CONSTANT QueueSize  \* cfg.StreamQueueSize

ASSUME QueueAssumption == QueueSize \in Nat \ {0}

All == "all"  \* the instrument of a gap of the whole subscription

\* The time of a candle or a quote, or the From of a gap; n tells frames apart.
Event(kind, uid, time, n) == [kind |-> kind, uid |-> uid, time |-> time, n |-> n]
GapEvent(uid, from) == Event("gap", uid, from, 0)

IsGap(e, uid) == e.kind = "gap" /\ e.uid = uid

\* Mutant of MergeGap: the gap that is queued already keeps its range.
KeepGap(dst, ev) == dst

\* The wider of the two; a zero From is open-ended and the least of times.
\* No event sets To: every gap reaches up to now.
MergeGap(dst, ev) == IF ev.time < dst.time THEN [dst EXCEPT !.time = ev.time] ELSE dst

MergeGapLocked(q, ev) ==
  IF \E i \in DOMAIN q : IsGap(q[i], ev.uid)
  THEN LET i == CHOOSE i \in DOMAIN q : IsGap(q[i], ev.uid) /\ \A j \in 1..i-1 : ~IsGap(q[j], ev.uid)
       IN  [q EXCEPT ![i] = MergeGap(@, ev)]
  ELSE Append(q, ev)

\* The first event of that kind for that instrument goes.
DropQueued(q, ev) ==
  LET Same(i) == q[i].kind = ev.kind /\ q[i].uid = ev.uid
  IN  IF \E i \in DOMAIN q : Same(i)
      THEN RemoveAt(q, CHOOSE i \in DOMAIN q : Same(i) /\ \A j \in 1..i-1 : ~Same(j))
      ELSE q

\* Mutant of Coalesce: the newest takes the place of the one it replaces.
CoalesceInPlace(q, ev) ==
  IF \E i \in DOMAIN q : q[i].kind = ev.kind /\ q[i].uid = ev.uid
  THEN [i \in DOMAIN q |-> IF q[i].kind = ev.kind /\ q[i].uid = ev.uid THEN ev ELSE q[i]]
  ELSE Append(q, ev)

\* Mutant of Coalesce: what is queued already stays.
CoalesceNothing(q, ev) == Append(q, ev)

\* deliverLastPrice and deliverOrderbook: the latest of an instrument, at the tail.
Coalesce(q, ev) == Append(DropQueued(q, ev), ev)

\* deliverCandle: dropped at capacity, with a gap from its bar on.
DeliverCandle(q, ev) ==
  IF Len(q) >= QueueSize THEN MergeGapLocked(q, GapEvent(ev.uid, ev.time)) ELSE Append(q, ev)

\* deliverStatus: dropped at capacity.
DeliverStatus(q, ev) == IF Len(q) < QueueSize THEN Append(q, ev) ELSE q

Enqueue(q, ev) ==
  CASE ev.kind = "candle" -> DeliverCandle(q, ev)
    [] ev.kind \in {"last_price", "orderbook"} -> Coalesce(q, ev)
    [] ev.kind = "gap" -> MergeGapLocked(q, ev)
    [] OTHER -> DeliverStatus(q, ev)
=============================================================================
