------------------------ MODULE CoalescingQueueProofs ------------------------
(***************************************************************************)
(* Lemmas about sequences and the queue of the stream, for whoever fills   *)
(* or empties it: frames of one kind and instrument keep their order, and  *)
(* the queue holds nothing but what was put in and gaps.                   *)
(***************************************************************************)
EXTENDS CoalescingQueue, SequenceTheorems, FiniteSetTheorems, TLAPS

LEMMA ToSetOfAppend ==
  ASSUME NEW S, NEW q \in Seq(S), NEW e \in S
  PROVE  /\ Append(q, e) \in Seq(S)
         /\ ToSet(Append(q, e)) = ToSet(q) \cup {e}
  BY AppendProperties, LenProperties DEF ToSet

LEMMA ToSetOfConcat ==
  ASSUME NEW S, NEW s \in Seq(S), NEW t \in Seq(S)
  PROVE  /\ s \o t \in Seq(S)
         /\ ToSet(s \o t) = ToSet(s) \cup ToSet(t)
<1>1. /\ s \o t \in Seq(S) /\ Len(s \o t) = Len(s) + Len(t)
      /\ DOMAIN s = 1..Len(s) /\ DOMAIN t = 1..Len(t) /\ DOMAIN (s \o t) = 1..(Len(s) + Len(t))
      /\ Len(s) \in Nat /\ Len(t) \in Nat
  BY ConcatProperties, LenProperties
<1>2. ASSUME NEW e \in ToSet(s \o t) PROVE e \in ToSet(s) \cup ToSet(t)
  <2>1. PICK i \in 1..(Len(s) + Len(t)) : e = (s \o t)[i]
    BY <1>1 DEF ToSet
  <2>2. CASE i <= Len(s)
    BY <1>1, <2>1, <2>2 DEF ToSet
  <2>3. CASE i > Len(s)
    BY <1>1, <2>1, <2>3 DEF ToSet
  <2> QED
    BY <1>1, <2>2, <2>3
<1>3. ASSUME NEW i \in 1..Len(s) PROVE s[i] \in ToSet(s \o t)
  BY <1>1, i \in 1..(Len(s) + Len(t)), (s \o t)[i] = s[i] DEF ToSet
<1>4. ASSUME NEW i \in 1..Len(t) PROVE t[i] \in ToSet(s \o t)
  BY <1>1, i + Len(s) \in 1..(Len(s) + Len(t)), (s \o t)[i + Len(s)] = t[i] DEF ToSet
<1> QED
  BY <1>1, <1>2, <1>3, <1>4 DEF ToSet

LEMMA ToSetOfTail ==
  ASSUME NEW S, NEW s \in Seq(S), s # <<>>
  PROVE  /\ Tail(s) \in Seq(S) /\ Head(s) \in S
         /\ ToSet(s) = {Head(s)} \cup ToSet(Tail(s))
<1>1. /\ Tail(s) \in Seq(S) /\ Head(s) \in S /\ Len(s) \in Nat \ {0} /\ Len(Tail(s)) = Len(s) - 1
      /\ DOMAIN s = 1..Len(s) /\ DOMAIN Tail(s) = 1..(Len(s) - 1)
      /\ Head(s) = s[1] /\ \A i \in 1..(Len(s) - 1) : Tail(s)[i] = s[i + 1]
  <2>1. Len(s) \in Nat \ {0} /\ DOMAIN s = 1..Len(s) /\ Head(s) = s[1]
    BY EmptySeq, LenProperties
  <2>2. /\ Tail(s) \in Seq(S) /\ Head(s) \in S /\ Len(Tail(s)) = Len(s) - 1
        /\ \A i \in 1..Len(Tail(s)) : Tail(s)[i] = s[i + 1]
    BY HeadTailProperties
  <2>3. DOMAIN Tail(s) = 1..(Len(s) - 1)
    BY <2>2, LenProperties
  <2> QED
    BY <2>1, <2>2, <2>3
<1>2. ASSUME NEW i \in 1..Len(s) PROVE s[i] = Head(s) \/ \E j \in 1..(Len(s) - 1) : s[i] = Tail(s)[j]
  <2>1. CASE i = 1
    BY <1>1, <2>1
  <2>2. CASE i # 1
    BY <1>1, <2>2, i - 1 \in 1..(Len(s) - 1), Tail(s)[i - 1] = s[i]
  <2> QED
    BY <2>1, <2>2
<1>3. ASSUME NEW e \in ToSet(s) PROVE e \in {Head(s)} \cup ToSet(Tail(s))
  <2>1. PICK i \in 1..Len(s) : e = s[i]
    BY <1>1 DEF ToSet
  <2>2. CASE e = Head(s)
    BY <2>2
  <2>3. CASE \E j \in 1..(Len(s) - 1) : e = Tail(s)[j]
    <3>1. PICK j \in 1..(Len(s) - 1) : e = Tail(s)[j]
      BY <2>3
    <3>2. e \in ToSet(Tail(s))
      BY <1>1, <3>1, Zenon DEF ToSet
    <3> QED BY <3>2
  <2> QED BY <1>2, <2>1, <2>2, <2>3
<1>4. ASSUME NEW j \in 1..(Len(s) - 1) PROVE Tail(s)[j] \in ToSet(s)
  BY <1>1, j + 1 \in 1..Len(s), Tail(s)[j] = s[j + 1] DEF ToSet
<1>5. Head(s) \in ToSet(s)
  BY <1>1, 1 \in 1..Len(s) DEF ToSet
<1> QED
  BY <1>1, <1>3, <1>4, <1>5 DEF ToSet

\* All but the element taken out stay.
LEMMA RemoveAtKeepsTheRest ==
  ASSUME NEW S, NEW s \in Seq(S), NEW i \in 1..Len(s)
  PROVE  /\ RemoveAt(s, i) \in Seq(S)
         /\ \A e \in ToSet(s) : e = s[i] \/ e \in ToSet(RemoveAt(s, i))
<1> DEFINE a == SubSeq(s, 1, i - 1)  b == SubSeq(s, i + 1, Len(s))
<1>1. Len(s) \in Nat /\ DOMAIN s = 1..Len(s) /\ i \in Int /\ 1 <= i /\ i <= Len(s)
  BY LenProperties
<1>2. \A j \in 1..Len(s) : s[j] \in S
  BY <1>1, ElementOfSeq
<1>3. a \in Seq(S) /\ DOMAIN a = 1..(i - 1) /\ \A j \in 1..(i - 1) : a[j] = s[j]
  BY <1>1, <1>2, SubSeqProperties, LenProperties
<1>4. b \in Seq(S) /\ DOMAIN b = 1..(Len(s) - i) /\ \A j \in 1..(Len(s) - i) : b[j] = s[j + i]
  BY <1>1, <1>2, SubSeqProperties, LenProperties
<1> HIDE DEF a, b
<1>5. a \o b \in Seq(S) /\ ToSet(a \o b) = ToSet(a) \cup ToSet(b)
  BY <1>3, <1>4, ToSetOfConcat
<1>6. ASSUME NEW j \in 1..Len(s), j # i PROVE s[j] \in ToSet(a) \cup ToSet(b)
  <2>1. CASE j < i
    BY <1>1, <1>3, <2>1, j \in 1..(i - 1) DEF ToSet
  <2>2. CASE ~(j < i)
    BY <1>1, <1>4, <1>6, <2>2, j - i \in 1..(Len(s) - i), b[j - i] = s[j] DEF ToSet
  <2> QED
    BY <2>1, <2>2
<1>7. \A e \in ToSet(s) : e = s[i] \/ e \in ToSet(a \o b)
  BY <1>1, <1>5, <1>6 DEF ToSet
<1> QED
  BY <1>5, <1>7 DEF RemoveAt, a, b

LEMMA LeastIndex ==
  ASSUME NEW n \in Nat, NEW T \in SUBSET (1..n), T # {}
  PROVE  \E i \in T : \A j \in T : i <= j
<1> DEFINE Below == {1..k : k \in T}
<1>1. IsWellFoundedOn(StrictSubsetOrdering(1..n), SUBSET (1..n))
  <2>1. IsFiniteSet(1..n)
    BY FS_Interval
  <2>2. FiniteSubsetsOf(1..n) = SUBSET (1..n)
    BY <2>1, FS_FiniteSubsetsOfFinite
  <2> QED
    BY <2>2, FS_StrictSubsetOrderingWellFounded
<1>2. Below \subseteq SUBSET (1..n) /\ Below # {}
  <2>1. ASSUME NEW k \in T PROVE 1..k \in SUBSET (1..n)
    OBVIOUS
  <2> QED
    BY <2>1
<1>3. PICK x \in Below : \A y \in Below : <<y, x>> \notin StrictSubsetOrdering(1..n)
  BY <1>1, <1>2, WFMin
<1>4. PICK i \in T : x = 1..i
  OBVIOUS
<1>5. ASSUME NEW j \in T, j < i PROVE FALSE
  <2>1. 1..j \in SUBSET (1..n) /\ 1..i \in SUBSET (1..n) /\ 1..j \subseteq 1..i /\ i \in 1..i /\ i \notin 1..j
    BY <1>5
  <2>2. <<1..j, 1..i>> \in StrictSubsetOrdering(1..n)
    BY <2>1 DEF StrictSubsetOrdering
  <2> QED
    BY <1>3, <1>4, <2>2
<1> QED
  BY <1>5

\* Taking one element out moves the ones behind it forward by one.
LEMMA RemoveAtMovesUp ==
  ASSUME NEW S, NEW s \in Seq(S), NEW i \in 1..Len(s)
  PROVE  /\ RemoveAt(s, i) \in Seq(S)
         /\ DOMAIN RemoveAt(s, i) = 1..(Len(s) - 1)
         /\ \A j \in 1..(Len(s) - 1) : RemoveAt(s, i)[j] = s[IF j < i THEN j ELSE j + 1]
<1> DEFINE a == SubSeq(s, 1, i - 1)  b == SubSeq(s, i + 1, Len(s))
<1>1. Len(s) \in Nat /\ i \in Int /\ 1 <= i /\ i <= Len(s) /\ \A j \in 1..Len(s) : s[j] \in S
  BY LenProperties, ElementOfSeq
<1>2. a \in Seq(S) /\ Len(a) = i - 1 /\ \A j \in 1..(i - 1) : a[j] = s[j]
  BY <1>1, SubSeqProperties
<1>3. b \in Seq(S) /\ Len(b) = Len(s) - i /\ \A j \in 1..(Len(s) - i) : b[j] = s[j + i]
  BY <1>1, SubSeqProperties
<1> HIDE DEF a, b
<1>4. a \o b \in Seq(S) /\ Len(a \o b) = Len(s) - 1 /\ DOMAIN (a \o b) = 1..(Len(s) - 1)
  BY <1>1, <1>2, <1>3, ConcatProperties, LenProperties
<1>5. ASSUME NEW j \in 1..(Len(s) - 1) PROVE (a \o b)[j] = s[IF j < i THEN j ELSE j + 1]
  <2>1. CASE j < i
    BY <1>1, <1>2, <1>3, <2>1, ConcatProperties, j \in 1..(i - 1)
  <2>2. CASE ~(j < i)
    <3>1. j - (i - 1) \in 1..(Len(s) - i) /\ j > i - 1 /\ j \in 1..(Len(a) + Len(b))
      BY <1>1, <1>2, <1>3, <2>2
    <3>2. (a \o b)[j] = b[j - (i - 1)]
      BY <1>1, <1>2, <1>3, <3>1, ConcatProperties
    <3>3. b[j - (i - 1)] = s[j + 1]
      BY <1>1, <1>3, <2>2, <3>1, (j - (i - 1)) + i = j + 1
    <3> QED BY <2>2, <3>2, <3>3
  <2> QED BY <2>1, <2>2
<1> QED BY <1>4, <1>5 DEF RemoveAt, a, b

-----------------------------------------------------------------------------
(* What the queue makes of a gap, and of the quote it replaces *)

QueueEvents(kinds, uids) == [kind : kinds, uid : uids, time : Nat, n : Nat]

LEMMA MergeGapShape ==
  ASSUME NEW kinds, NEW uids, NEW q \in Seq(QueueEvents(kinds, uids)), NEW ev \in QueueEvents(kinds, uids),
         ev.kind = "gap"
  PROVE  \/ /\ ~ \E i \in DOMAIN q : IsGap(q[i], ev.uid)
            /\ MergeGapLocked(q, ev) = Append(q, ev)
         \/ \E i \in 1..Len(q), new \in QueueEvents(kinds, uids) :
              /\ IsGap(q[i], ev.uid) /\ IsGap(new, ev.uid) /\ new.time <= ev.time /\ new.time <= q[i].time
              /\ MergeGapLocked(q, ev) = [q EXCEPT ![i] = new]
<1> DEFINE S == QueueEvents(kinds, uids)  Hit(i) == IsGap(q[i], ev.uid)
<1>1. Len(q) \in Nat /\ DOMAIN q = 1..Len(q) /\ \A i \in 1..Len(q) : q[i] \in S
  BY LenProperties, ElementOfSeq
<1>2. CASE ~ \E i \in DOMAIN q : Hit(i)
  BY <1>2 DEF MergeGapLocked
<1>3. CASE \E i \in DOMAIN q : Hit(i)
  <2>1. PICK m \in {i \in 1..Len(q) : Hit(i)} : \A j \in {i \in 1..Len(q) : Hit(i)} : m <= j
    BY <1>1, <1>3, LeastIndex
  <2>2. m \in DOMAIN q /\ Hit(m) /\ \A j \in 1..m-1 : ~Hit(j)
    BY <1>1, <2>1
  <2> DEFINE i == CHOOSE k \in DOMAIN q : Hit(k) /\ \A j \in 1..k-1 : ~Hit(j)
             new == MergeGap(q[i], ev)
  <2>3. i \in 1..Len(q) /\ Hit(i)
    BY <1>1, <2>2
  <2> HIDE DEF i
  <2>4. q[i] \in S /\ q[i].kind = "gap" /\ q[i].uid = ev.uid /\ ev.time \in Nat /\ q[i].time \in Nat
    BY <1>1, <2>3 DEF IsGap, QueueEvents
  <2>5. new \in S /\ IsGap(new, ev.uid) /\ new.time <= ev.time /\ new.time <= q[i].time
    <3>1. CASE ev.time < q[i].time
      <4>1. new = [q[i] EXCEPT !.time = ev.time]
        BY <3>1 DEF MergeGap
      <4>2. [q[i] EXCEPT !.time = ev.time] \in S
        BY <2>4 DEF QueueEvents
      <4>3. /\ [q[i] EXCEPT !.time = ev.time].kind = "gap"
            /\ [q[i] EXCEPT !.time = ev.time].uid = ev.uid
            /\ [q[i] EXCEPT !.time = ev.time].time = ev.time
        BY <2>4 DEF QueueEvents
      <4> QED BY <2>4, <3>1, <4>1, <4>2, <4>3 DEF IsGap
    <3>2. CASE ~(ev.time < q[i].time)
      BY <2>4, <3>2 DEF MergeGap, IsGap
    <3> QED BY <3>1, <3>2
  <2>6. MergeGapLocked(q, ev) = [q EXCEPT ![i] = new]
    BY <1>3 DEF MergeGapLocked, i
  <2> HIDE DEF new
  <2> QED BY <2>3, <2>5, <2>6
<1> QED BY <1>2, <1>3

LEMMA DropShape ==
  ASSUME NEW S, NEW q \in Seq(S), NEW ev
  PROVE  \/ /\ \A i \in DOMAIN q : q[i].kind # ev.kind \/ q[i].uid # ev.uid
            /\ DropQueued(q, ev) = q
         \/ \E i \in 1..Len(q) :
              q[i].kind = ev.kind /\ q[i].uid = ev.uid /\ DropQueued(q, ev) = RemoveAt(q, i)
<1> DEFINE Same(i) == q[i].kind = ev.kind /\ q[i].uid = ev.uid
<1>1. Len(q) \in Nat /\ DOMAIN q = 1..Len(q)
  BY LenProperties
<1>2. CASE ~ \E i \in DOMAIN q : Same(i)
  BY <1>2 DEF DropQueued
<1>3. CASE \E i \in DOMAIN q : Same(i)
  <2>1. PICK m \in {i \in 1..Len(q) : Same(i)} : \A j \in {i \in 1..Len(q) : Same(i)} : m <= j
    BY <1>1, <1>3, LeastIndex, ZenonT(60)
  <2>2. m \in DOMAIN q /\ Same(m) /\ \A j \in 1..m-1 : ~Same(j)
    BY <1>1, <2>1
  <2> DEFINE i == CHOOSE k \in DOMAIN q : Same(k) /\ \A j \in 1..k-1 : ~Same(j)
  <2>3. i \in 1..Len(q) /\ Same(i)
    BY <1>1, <2>2
  <2>4. DropQueued(q, ev) = RemoveAt(q, i)
    BY <1>3 DEF DropQueued
  <2> HIDE DEF i
  <2> QED BY <2>3, <2>4
<1> QED BY <1>2, <1>3

-----------------------------------------------------------------------------
(* The order of the frames of one kind and instrument *)

FrameKinds == {"candle", "last_price", "orderbook"}
Alike(e, f) == e.kind \in FrameKinds /\ e.kind = f.kind /\ e.uid = f.uid

\* What orders them: the bar of a candle, the number of a quote's frame.
Mark(e) == IF e.kind = "candle" THEN e.time ELSE e.n

InOrder(q) == \A i, j \in DOMAIN q : i < j /\ Alike(q[i], q[j]) => Mark(q[i]) <= Mark(q[j])
NotBefore(q, ev) == \A i \in DOMAIN q : Alike(q[i], ev) => Mark(q[i]) <= Mark(ev)

\* The frames of r are among those of q.
FramesFrom(r, q) == \A j \in DOMAIN r : r[j].kind \in FrameKinds => \E i \in DOMAIN q : r[j] = q[i]

LEMMA AppendInOrder ==
  ASSUME NEW S, NEW q \in Seq(S), NEW ev \in S, InOrder(q), NotBefore(q, ev)
  PROVE  Append(q, ev) \in Seq(S) /\ InOrder(Append(q, ev))
<1>1. /\ Append(q, ev) \in Seq(S) /\ DOMAIN Append(q, ev) = 1..(Len(q) + 1) /\ DOMAIN q = 1..Len(q)
      /\ Append(q, ev)[Len(q) + 1] = ev /\ Len(q) \in Nat
      /\ \A i \in 1..Len(q) : Append(q, ev)[i] = q[i]
  BY AppendProperties, LenProperties
<1>2. ASSUME NEW i \in 1..(Len(q) + 1), NEW j \in 1..(Len(q) + 1), i < j, Alike(Append(q, ev)[i], Append(q, ev)[j])
      PROVE  Mark(Append(q, ev)[i]) <= Mark(Append(q, ev)[j])
  <2>1. i \in 1..Len(q) /\ (j \in 1..Len(q) \/ j = Len(q) + 1)
    BY <1>1, <1>2
  <2> QED BY <1>1, <1>2, <2>1 DEF InOrder, NotBefore
<1> QED BY <1>1, <1>2 DEF InOrder

LEMMA MergeInOrder ==
  ASSUME NEW kinds, NEW uids, NEW q \in Seq(QueueEvents(kinds, uids)), NEW ev \in QueueEvents(kinds, uids),
         ev.kind = "gap", InOrder(q)
  PROVE  /\ MergeGapLocked(q, ev) \in Seq(QueueEvents(kinds, uids))
         /\ InOrder(MergeGapLocked(q, ev)) /\ FramesFrom(MergeGapLocked(q, ev), q)
<1> DEFINE S == QueueEvents(kinds, uids)
<1>1. Len(q) \in Nat /\ DOMAIN q = 1..Len(q) /\ \A i \in 1..Len(q) : q[i] \in S
  BY LenProperties, ElementOfSeq
<1>2. CASE MergeGapLocked(q, ev) = Append(q, ev)
  <2>1. NotBefore(q, ev)
    BY DEF NotBefore, Alike, FrameKinds
  <2>2. FramesFrom(Append(q, ev), q)
    BY <1>1, AppendProperties, LenProperties DEF FramesFrom, FrameKinds
  <2> QED BY <1>2, <2>1, <2>2, AppendInOrder
<1>3. ASSUME NEW i \in 1..Len(q), NEW new \in S, IsGap(new, ev.uid), MergeGapLocked(q, ev) = [q EXCEPT ![i] = new]
      PROVE  MergeGapLocked(q, ev) \in Seq(S) /\ InOrder(MergeGapLocked(q, ev)) /\ FramesFrom(MergeGapLocked(q, ev), q)
  <2>1. /\ [q EXCEPT ![i] = new] \in Seq(S)
        /\ DOMAIN [q EXCEPT ![i] = new] = 1..Len(q)
        /\ \A j \in 1..Len(q) : [q EXCEPT ![i] = new][j] = IF j = i THEN new ELSE q[j]
    BY <1>1, ExceptSeq
  <2> QED BY <1>1, <1>3, <2>1 DEF InOrder, FramesFrom, Alike, FrameKinds, IsGap
<1> QED BY <1>2, <1>3, MergeGapShape

LEMMA DropInOrder ==
  ASSUME NEW S, NEW q \in Seq(S), NEW ev, InOrder(q)
  PROVE  /\ DropQueued(q, ev) \in Seq(S)
         /\ InOrder(DropQueued(q, ev))
         /\ \A j \in DOMAIN DropQueued(q, ev) : \E i \in DOMAIN q : DropQueued(q, ev)[j] = q[i]
<1>1. Len(q) \in Nat /\ DOMAIN q = 1..Len(q)
  BY LenProperties
<1>2. ASSUME NEW i \in 1..Len(q), DropQueued(q, ev) = RemoveAt(q, i)
      PROVE  /\ DropQueued(q, ev) \in Seq(S) /\ InOrder(DropQueued(q, ev))
             /\ \A j \in DOMAIN DropQueued(q, ev) : \E k \in DOMAIN q : DropQueued(q, ev)[j] = q[k]
  <2> DEFINE r == RemoveAt(q, i)
             Was(j) == IF j < i THEN j ELSE j + 1
  <2>1. r \in Seq(S) /\ DOMAIN r = 1..(Len(q) - 1) /\ \A j \in 1..(Len(q) - 1) : r[j] = q[Was(j)]
    BY RemoveAtMovesUp
  <2> HIDE DEF r
  <2>2. \A j \in 1..(Len(q) - 1) : Was(j) \in 1..Len(q)
    BY <1>1
  <2>3. \A j, k \in 1..(Len(q) - 1) : j < k => Was(j) < Was(k)
    BY <1>1
  <2>4. DropQueued(q, ev) = r
    BY <1>2 DEF r
  <2> QED BY <1>1, <2>1, <2>2, <2>3, <2>4 DEF InOrder
<1> QED BY <1>2, DropShape

\* Whatever the queue drops, merges or replaces, frames stay in order and no
\* frame is made up.
LEMMA EnqueueInOrder ==
  ASSUME NEW kinds, NEW uids, NEW q \in Seq(QueueEvents(kinds, uids)), NEW ev \in QueueEvents(kinds, uids),
         "gap" \in kinds, InOrder(q), NotBefore(q, ev)
  PROVE  /\ Enqueue(q, ev) \in Seq(QueueEvents(kinds, uids))
         /\ InOrder(Enqueue(q, ev))
         /\ FramesFrom(Enqueue(q, ev), Append(q, ev))
<1> DEFINE S == QueueEvents(kinds, uids)
<1>1. /\ DOMAIN Append(q, ev) = 1..(Len(q) + 1) /\ DOMAIN q = 1..Len(q)
      /\ Append(q, ev)[Len(q) + 1] = ev /\ Len(q) \in Nat
      /\ \A i \in 1..Len(q) : Append(q, ev)[i] = q[i]
  BY AppendProperties, LenProperties
<1>2. ASSUME NEW r, FramesFrom(r, q) PROVE FramesFrom(r, Append(q, ev))
  BY <1>1, <1>2 DEF FramesFrom
<1>3. FramesFrom(Append(q, ev), Append(q, ev))
  BY DEF FramesFrom
<1>4. Append(q, ev) \in Seq(S) /\ InOrder(Append(q, ev))
  BY AppendInOrder
<1>5. CASE ev.kind = "candle"
  <2>1. CASE Len(q) >= QueueSize
    <3> DEFINE gap == GapEvent(ev.uid, ev.time)
    <3>1. gap \in S /\ gap.kind = "gap"
      BY DEF GapEvent, Event, QueueEvents
    <3>2. Enqueue(q, ev) = MergeGapLocked(q, gap)
      BY <1>5, <2>1 DEF Enqueue, DeliverCandle
    <3> HIDE DEF gap
    <3> QED BY <1>2, <3>1, <3>2, MergeInOrder
  <2>2. CASE ~(Len(q) >= QueueSize)
    <3>1. Enqueue(q, ev) = Append(q, ev)
      BY <1>5, <2>2 DEF Enqueue, DeliverCandle
    <3> QED BY <1>3, <1>4, <3>1
  <2> QED BY <2>1, <2>2
<1>6. CASE ev.kind \in {"last_price", "orderbook"}
  <2> DEFINE d == DropQueued(q, ev)
  <2>1. Enqueue(q, ev) = Append(d, ev)
    BY <1>6 DEF Enqueue, Coalesce
  <2>2. d \in Seq(S) /\ InOrder(d) /\ \A j \in DOMAIN d : \E i \in DOMAIN q : d[j] = q[i]
    BY DropInOrder
  <2> HIDE DEF d
  <2>3. NotBefore(d, ev)
    BY <2>2 DEF NotBefore
  <2>4. Append(d, ev) \in Seq(S) /\ InOrder(Append(d, ev))
    BY <2>2, <2>3, AppendInOrder
  <2>5. /\ DOMAIN Append(d, ev) = 1..(Len(d) + 1) /\ Append(d, ev)[Len(d) + 1] = ev /\ Len(d) \in Nat
        /\ \A i \in 1..Len(d) : Append(d, ev)[i] = d[i] /\ i \in DOMAIN d
    BY <2>2, AppendProperties, LenProperties
  <2>6. FramesFrom(Append(d, ev), Append(q, ev))
    <3> SUFFICES ASSUME NEW j \in 1..(Len(d) + 1)
                 PROVE  \E i \in DOMAIN Append(q, ev) : Append(d, ev)[j] = Append(q, ev)[i]
      BY <2>5 DEF FramesFrom
    <3>1. CASE j = Len(d) + 1
      BY <1>1, <2>5, <3>1, Len(q) + 1 \in 1..(Len(q) + 1)
    <3>2. CASE j # Len(d) + 1
      <4>1. j \in 1..Len(d)
        BY <2>5, <3>2
      <4>2. PICK i \in DOMAIN q : d[j] = q[i]
        BY <2>2, <2>5, <4>1
      <4> QED BY <1>1, <2>5, <4>1, <4>2
    <3> QED BY <3>1, <3>2
  <2> QED BY <2>1, <2>4, <2>6
<1>7. CASE ev.kind = "gap"
  BY <1>2, <1>7, MergeInOrder DEF Enqueue
<1>8. CASE ev.kind \notin {"candle", "last_price", "orderbook", "gap"}
  <2>1. Enqueue(q, ev) = DeliverStatus(q, ev)
    BY <1>8 DEF Enqueue
  <2>2. FramesFrom(q, q)
    BY DEF FramesFrom
  <2> QED BY <1>2, <1>3, <1>4, <2>1, <2>2 DEF DeliverStatus
<1> QED BY <1>5, <1>6, <1>7, <1>8

LEMMA TailInOrder ==
  ASSUME NEW S, NEW q \in Seq(S), q # <<>>, InOrder(q)
  PROVE  /\ Tail(q) \in Seq(S) /\ Head(q) \in S /\ InOrder(Tail(q))
         /\ 1 \in DOMAIN q /\ Head(q) = q[1]
         /\ \A i \in DOMAIN Tail(q) : i + 1 \in DOMAIN q /\ Tail(q)[i] = q[i + 1]
         /\ \A i \in DOMAIN Tail(q) : Alike(Head(q), Tail(q)[i]) => Mark(Head(q)) <= Mark(Tail(q)[i])
<1>1. Len(q) \in Nat \ {0} /\ DOMAIN q = 1..Len(q) /\ Head(q) = q[1]
  BY EmptySeq, LenProperties
<1>2. /\ Tail(q) \in Seq(S) /\ Head(q) \in S /\ DOMAIN Tail(q) = 1..(Len(q) - 1)
      /\ \A i \in 1..(Len(q) - 1) : Tail(q)[i] = q[i + 1]
  BY HeadTailProperties, LenProperties
<1>3. \A i \in 1..(Len(q) - 1) : i + 1 \in 1..Len(q) /\ 1 < i + 1
  BY <1>1
<1>4. \A i, j \in 1..(Len(q) - 1) : i < j => i + 1 < j + 1
  BY <1>1
<1> QED BY <1>1, <1>2, <1>3, <1>4 DEF InOrder
=============================================================================
