---------------------------- MODULE BrokerStream ----------------------------
(***************************************************************************)
(* The supervised market data stream of internal/tinvestcli: a supervisor  *)
(* reads the frames of a child process and restarts it, a coalescing queue *)
(* behind a mutex takes the events, and a pump moves them to the channel   *)
(* the consumer reads.  The supervisor's goroutine, the pump's and the     *)
(* consumer's interleave at every lock, send and wait.                     *)
(*                                                                         *)
(* Prices and volumes are left out; an event carries the bar time of its   *)
(* candle and the number of the frame that brought it.  How long a child   *)
(* ran and how it exits is any; frames and exits are bounded.              *)
(***************************************************************************)
EXTENDS CoalescingQueue

CONSTANTS Uids,        \* the instruments subscribed to
          Frames,      \* what the child may write on a line
          Exits,       \* how it may exit
          MaxFast,     \* cfg.StreamMaxFastRestarts
          MaxFrames,   \* bound of the frames read
          MaxAttempts, \* bound of the unexpected exits
          NoEvent      \* the pump holds nothing

Nil == "nil"  \* no cause
Refusals == {"AUTH", "USAGE", "POLICY", "BROKER_REJECTED"}
Causes == Refusals \cup {"PROTOCOL", "RESOLVE", "BREAKER"}

EventKinds == {"candle", "last_price", "orderbook", "status", "gap", "down", "finish"}
Events == [kind : EventKinds, uid : Uids \cup {All, Nil} \cup Causes, time : Nat, n : Nat]

ASSUME StreamAssumption ==
  /\ All \notin Uids /\ NoEvent \notin Events
  /\ MaxFast \in Nat \ {0}
  /\ MaxFrames \in Nat /\ MaxAttempts \in Nat
  /\ \A f \in Frames :
       /\ f.type \in {"candle", "last_price", "orderbook", "lifecycle", "error", "malformed"}
       /\ f.type \in {"candle", "last_price", "orderbook"} => f.uid \in Uids
       /\ f.type = "candle" => f.time \in Nat \ {0}
       /\ f.type = "lifecycle" => f.lost \in BOOLEAN
  /\ Exits \subseteq {"other", "auth", "usage", "rejected"}

VARIABLES
  child,     \* the child process: "none", "running" or "exited"
  sup,       \* the supervisor: where it is, what it has to tell the pump and where it goes on
  run,       \* its counters, and the last error frame and cause of the current run
  queue, finished, terminal, \* Stream.queue, .finished and .terminal, behind Stream.mu
  wake,      \* whether the buffer of Stream.wake is full
  pump,      \* where the pump is: "look", "send", "last", "wait" or "off"
  hand,      \* the event the pump is about to send
  events, closed, \* Stream.events
  done,      \* whether Stream.done is closed
  cancelled, \* whether the context of the stream is cancelled
  frames,    \* frames read so far
  owed,      \* candles, quotes and gaps the consumer is to hear of, one way or the other
  told       \* whether it has heard the terminal event, and nothing since

supervisor == <<child, sup, run, frames>>
shared == <<queue, finished, terminal>>
pumping == <<pump, hand, events, closed, done>>
streamVars == <<supervisor, shared, wake, pumping, cancelled, owed, told>>

StreamDown(cause) == Event("down", cause, 0, 0)

StreamInit ==
  /\ child = "none"
  /\ sup = [at |-> "loop", todo |-> <<>>, then |-> "loop"]
  /\ run = [fast |-> 0, attempts |-> 0, lastErr |-> Nil, cause |-> Nil]
  /\ queue = <<>> /\ finished = FALSE /\ terminal = Nil /\ wake = FALSE
  /\ pump = "look" /\ hand = NoEvent /\ events = <<>> /\ closed = FALSE /\ done = FALSE
  /\ cancelled = FALSE /\ frames = 0 /\ owed = {} /\ told = FALSE

-----------------------------------------------------------------------------
(* The supervisor *)

\* Carry out these deliveries, then go on there.
Tell(todo, then) == sup' = [at |-> "deliver", todo |-> todo, then |-> then]

\* Every way out of supervise runs the deferred finish(nil).
FinishNil == Event("finish", Nil, 0, 0)
Leave == Tell(<<FinishNil>>, "off")
GiveUp(first, cause) == Tell(first \o <<Event("finish", cause, 0, 0), FinishNil>>, "off")

\* Mutant of Outcome: the last outcome counts.
LastOutcome(ev) == ev.uid

\* finish: set once.
Outcome(ev) == IF finished THEN terminal ELSE ev.uid

\* One locked section: an event into the queue, or the outcome.
Deliver ==
  /\ sup.at = "deliver" /\ sup.todo # <<>>
  /\ LET ev == Head(sup.todo) IN
     IF ev.kind = "finish"
     THEN /\ finished' = TRUE
          /\ terminal' = Outcome(ev)
          /\ UNCHANGED queue
     ELSE queue' = Enqueue(queue, ev) /\ UNCHANGED <<finished, terminal>>
  /\ sup' = [sup EXCEPT !.at = "signal", !.todo = Tail(@)]
  /\ UNCHANGED <<child, run, frames, wake, pumping, cancelled, owed, told>>

\* Mutant of Woken: a signal for the first event of an empty queue only.
WokenByFirst == wake \/ Len(queue) = 1

\* The buffer of one coalesces bursts.
Woken == TRUE

\* signal, after the lock is released.
Signal ==
  /\ sup.at = "signal"
  /\ wake' = Woken
  /\ sup' = [sup EXCEPT !.at = IF sup.todo = <<>> THEN sup.then ELSE "deliver"]
  /\ UNCHANGED <<child, run, frames, shared, pumping, cancelled, owed, told>>

\* The top of the loop; the binary may be gone.
Spawn(started) ==
  /\ sup.at = "loop"
  /\ run' = [run EXCEPT !.lastErr = Nil, !.cause = Nil]
  /\ IF cancelled THEN Leave /\ UNCHANGED child
     ELSE IF started THEN child' = "running" /\ sup' = [sup EXCEPT !.at = "read"]
     ELSE GiveUp(<<>>, "RESOLVE") /\ UNCHANGED child
  /\ UNCHANGED <<frames, shared, wake, pumping, cancelled, owed, told>>

\* What is owed once this event is owed as well: a quote takes the place of
\* the instrument's last of its kind, and after a shutdown nothing is owed.
Owing(ev) ==
  IF cancelled THEN {}
  ELSE {o \in owed : o.kind = "candle" \/ o.kind # ev.kind \/ o.uid # ev.uid} \cup {ev}

\* What dispatch makes of a frame, and whether the run goes on.  A lifecycle
\* frame tells of data lost if it is a disconnect neither final nor asked for.
ReadFrame(f) ==
  LET status == Event("status", All, 0, frames + 1)
  IN
  /\ sup.at = "read" /\ child = "running" /\ frames < MaxFrames
  /\ frames' = frames + 1
  /\ \/ /\ f.type \in {"candle", "last_price", "orderbook"}
        /\ LET ev == Event(f.type, f.uid, IF f.type = "candle" THEN f.time ELSE 0, frames + 1)
           IN  Tell(<<ev>>, "read") /\ owed' = Owing(ev)
        /\ UNCHANGED run
     \/ /\ f.type = "lifecycle"
        /\ IF f.lost THEN Tell(<<status, GapEvent(All, 0)>>, "read") /\ owed' = Owing(GapEvent(All, 0))
           ELSE Tell(<<status>>, "read") /\ UNCHANGED owed
        /\ UNCHANGED run
     \/ /\ f.type = "error"
        /\ run' = [run EXCEPT !.lastErr = f.code, !.cause = IF f.code \in Refusals THEN f.code ELSE Nil]
        /\ Tell(<<status>>, IF f.code \in Refusals THEN "reap" ELSE "read")
        /\ UNCHANGED owed
     \/ /\ f.type = "malformed"
        /\ run' = [run EXCEPT !.cause = "PROTOCOL"]
        /\ sup' = [sup EXCEPT !.at = "reap"]
        /\ UNCHANGED owed
  /\ UNCHANGED <<child, shared, wake, pumping, cancelled, told>>

\* exitTerminal: the exit codes that end the stream for good.
ExitTerminal(exit) ==
  CASE exit = "auth" -> "AUTH"
    [] exit = "usage" -> IF run.lastErr = "POLICY" THEN "POLICY" ELSE "USAGE"
    [] exit = "rejected" -> "BROKER_REJECTED"
    [] OTHER -> Nil

\* The pipe closes as the child exits by itself or on SIGTERM.
ChildExits(exit) ==
  /\ sup.at = "read" /\ child = "running"
  /\ exit = "other" => cancelled \/ run.attempts < MaxAttempts
  /\ child' = "exited"
  /\ run' = [run EXCEPT !.cause = ExitTerminal(exit)]
  /\ sup' = [sup EXCEPT !.at = "reap"]
  /\ UNCHANGED <<frames, shared, wake, pumping, cancelled, owed, told>>

\* cmd.Wait, after a kill if the child still runs, and what supervise makes of
\* the outcome.
Reap(fast) ==
  LET n == IF fast THEN run.fast + 1 ELSE 0
      gap == GapEvent(All, 0)
  IN
  /\ sup.at = "reap"
  /\ child' = "none"
  /\ \/ /\ cancelled
        /\ Leave
        /\ UNCHANGED <<run, owed>>
     \/ /\ ~cancelled /\ run.cause # Nil
        /\ GiveUp(<<>>, run.cause)
        /\ UNCHANGED <<run, owed>>
     \/ /\ ~cancelled /\ run.cause = Nil
        /\ run' = [run EXCEPT !.attempts = @ + 1, !.fast = n]
        /\ owed' = Owing(gap)
        /\ IF n >= MaxFast THEN GiveUp(<<gap>>, "BREAKER") ELSE Tell(<<gap>>, "backoff")
  /\ UNCHANGED <<frames, shared, wake, pumping, cancelled, told>>

\* sleepBackoff: the timer, or a shutdown.
Backoff ==
  /\ sup.at = "backoff"
  /\ \/ sup' = [sup EXCEPT !.at = "loop"]
     \/ cancelled /\ Leave
  /\ UNCHANGED <<child, run, frames, shared, wake, pumping, cancelled, owed, told>>

-----------------------------------------------------------------------------
(* The pump *)

HasNext == queue # <<>>

\* A locked look at the queue and the outcome; an empty queue after the end
\* leaves the terminal event to send, or nothing.
Look ==
  /\ pump = "look"
  /\ \/ /\ HasNext
        /\ hand' = Head(queue) /\ queue' = Tail(queue) /\ pump' = "send"
        /\ UNCHANGED closed
     \/ /\ ~HasNext /\ finished
        /\ pump' = IF terminal # Nil THEN "last" ELSE "off"
        /\ hand' = IF terminal # Nil THEN StreamDown(terminal) ELSE NoEvent
        /\ closed' = (terminal = Nil)
        /\ UNCHANGED queue
     \/ /\ ~HasNext /\ ~finished
        /\ pump' = "wait"
        /\ UNCHANGED <<queue, hand, closed>>
  /\ UNCHANGED <<supervisor, finished, terminal, wake, events, done, cancelled, owed, told>>

Send ==
  /\ pump \in {"send", "last"} /\ Len(events) < QueueSize
  /\ events' = Append(events, hand) /\ hand' = NoEvent
  /\ pump' = IF pump = "last" THEN "off" ELSE "look"
  /\ closed' = (pump = "last")
  /\ UNCHANGED <<supervisor, shared, wake, done, cancelled, owed, told>>

AwaitWake ==
  /\ pump = "wait" /\ wake
  /\ wake' = FALSE /\ pump' = "look"
  /\ UNCHANGED <<supervisor, shared, hand, events, closed, done, cancelled, owed, told>>

\* A shutdown abandons what is not delivered.
Abandon ==
  /\ pump \in {"send", "last", "wait"} /\ cancelled
  /\ pump' = "off" /\ hand' = NoEvent /\ closed' = TRUE
  /\ UNCHANGED <<supervisor, shared, wake, events, done, cancelled, owed, told>>

\* Mutant of Exited: only the pump is waited for.
PumpExited == pump = "off"

\* Both goroutines have returned.
Exited == pump = "off" /\ sup.at = "off"

CloseDone ==
  /\ Exited /\ ~done
  /\ done' = TRUE
  /\ UNCHANGED <<supervisor, shared, wake, pump, hand, events, closed, cancelled, owed, told>>

-----------------------------------------------------------------------------
(* The consumer *)

\* Whether hearing e settles what is owed.
Settles(e, o) ==
  \/ e = o
  \/ e.kind = "gap" /\ o.kind \in {"candle", "gap"} /\ e.uid \in {o.uid, All} /\ e.time <= o.time

Receive ==
  /\ events # <<>>
  /\ events' = Tail(events)
  /\ told' = (Head(events).kind = "down")
  /\ owed' = {o \in owed : ~Settles(Head(events), o)}
  /\ UNCHANGED <<supervisor, shared, wake, pump, hand, closed, done, cancelled>>

\* Close, or the end of the context the stream was started with.
Cancel ==
  /\ ~cancelled /\ cancelled' = TRUE
  /\ owed' = {}
  /\ UNCHANGED <<supervisor, shared, wake, pumping, told>>

Supervise ==
  \/ Deliver \/ Signal \/ Backoff
  \/ \E started \in BOOLEAN : Spawn(started)
  \/ \E fast \in BOOLEAN : Reap(fast)
Child == (\E f \in Frames : ReadFrame(f)) \/ (\E exit \in Exits : ChildExits(exit))
Pump == Look \/ Send \/ AwaitWake \/ Abandon

StreamNext == Supervise \/ Child \/ Pump \/ CloseDone \/ Receive \/ Cancel

StreamSpec == StreamInit /\ [][StreamNext]_streamVars

\* The goroutines run, the consumer reads on, and a child that is told to stop
\* is killed after a grace.  The child owes no frame and no exit.
StreamFairness ==
  /\ WF_streamVars(Supervise) /\ WF_streamVars(Pump) /\ WF_streamVars(CloseDone)
  /\ WF_streamVars(Receive)
  /\ WF_streamVars(cancelled /\ \E exit \in Exits : ChildExits(exit))
FairStreamSpec == StreamSpec /\ StreamFairness
-----------------------------------------------------------------------------
ErrorCodes == {f.code : f \in {g \in Frames : g.type = "error"}}

StreamTypeOK ==
  /\ child \in {"none", "running", "exited"}
  /\ sup \in [at : {"loop", "read", "reap", "deliver", "signal", "backoff", "off"},
              todo : Seq(Events), then : {"loop", "read", "reap", "backoff", "off"}]
  /\ run \in [fast : Nat, attempts : Nat, lastErr : ErrorCodes \cup {Nil}, cause : Causes \cup {Nil}]
  /\ queue \in Seq(Events) /\ finished \in BOOLEAN /\ terminal \in Causes \cup {Nil}
  /\ wake \in BOOLEAN
  /\ pump \in {"look", "send", "last", "wait", "off"} /\ hand \in Events \cup {NoEvent}
  /\ events \in Seq(Events) /\ closed \in BOOLEAN /\ done \in BOOLEAN
  /\ cancelled \in BOOLEAN /\ frames \in Nat
  /\ owed \in SUBSET Events /\ told \in BOOLEAN

\* What is on its way to the consumer, the nearest first.
InFlight == events \o (IF hand = NoEvent THEN <<>> ELSE <<hand>>) \o queue \o sup.todo

\* Every candle the child has written, the newest quote of every instrument
\* and every stretch the feed was down reach the consumer, as themselves or
\* under a gap that goes back far enough, however slow it reads.  Shutdown
\* alone loses them.
NothingLost == \A o \in owed : \E e \in ToSet(InFlight) : Settles(e, o)

\* Coalesced or not, events come in the order of their frames, so that no
\* quote or bar arrives after a newer one.  Only gaps keep an earlier place.
Numbered(e) == e.kind \notin {"gap", "down", "finish"}
ArrivalOrder ==
  \A i, j \in DOMAIN InFlight :
    i < j /\ Numbered(InFlight[i]) /\ Numbered(InFlight[j]) => InFlight[i].n < InFlight[j].n

\* However long the consumer stalls, candles and statuses never outgrow the
\* queue's size, and beyond it there is a quote of each kind and a gap for an
\* instrument, and one gap for all.
Coalesced(e) == e.kind \in {"last_price", "orderbook", "gap"}
QueueBounded ==
  /\ Cardinality({i \in DOMAIN queue : ~Coalesced(queue[i])}) <= QueueSize
  /\ \A i, j \in DOMAIN queue :
       i < j /\ Coalesced(queue[i]) => queue[i].kind # queue[j].kind \/ queue[i].uid # queue[j].uid

\* Whoever sees the channel closed without having asked for it has heard why,
\* and heard it last.
EndIsTold ==
  closed /\ ~cancelled =>
    /\ queue = <<>> /\ sup.todo \in {<<>>, <<FinishNil>>}
    /\ IF events = <<>> THEN told ELSE events[Len(events)].kind = "down"

\* Close returns once the child is reaped and the channel closed.
DoneMeansReaped == done => child = "none" /\ closed

\* No wake-up is lost and nothing waits for ever: what is owed and the end of
\* the stream get to a consumer that reads on although the feed stays silent,
\* and a shutdown comes to its end.
AllDelivered ==
  /\ owed # {} ~> owed = {}
  /\ finished \/ cancelled ~> closed /\ done
=============================================================================
