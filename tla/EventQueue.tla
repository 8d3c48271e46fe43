------------------------------ MODULE EventQueue ------------------------------
(***************************************************************************)
(* The discrete-event scheduler: class EventQueue and the two kinds of     *)
(* event that go through it, TickEvent and LambdaEvent.                    *)
(*                                                                         *)
(* The priority queue is the set of its entries.  It is a binary heap      *)
(* ordered by fire_time alone, so any entry with the least fire_time may   *)
(* be at the top: entries of one cycle fire in any order.                  *)
(*                                                                         *)
(* A TickEvent's process() calls the object's tick() and then schedules a  *)
(* new TickEvent one cycle later.  The events that follow from one call of *)
(* SimObject::initiate_tick() are one chain, named by a member of Chains.  *)
(* A handler (tick() or the body of a LambdaEvent) is arbitrary code: here *)
(* it schedules any set of LambdaEvents, with delays taken from Delays.    *)
(***************************************************************************)
EXTENDS Integers, FiniteSets

CONSTANTS
  Chains,    \* tick chains: one for each call of initiate_tick()
  Lambdas,   \* LambdaEvents; one that has fired stands for a new one
  Delays,    \* the delays given to schedule() for LambdaEvents
  Runs,      \* the arguments of run()
  MaxCycle   \* bound: no run is called that would end after this cycle

ASSUME EventNames == Chains \cap Lambdas = {}
ASSUME CycleNumbers ==
  /\ Delays \subseteq Nat
  /\ Runs \subseteq Nat
  /\ MaxCycle \in Nat

VARIABLES
  cur_cycle,    \* EventQueue::cur_cycle
  event_queue,  \* EventQueue::event_queue, the set of scheduled entries
  running,      \* run() is on the stack
  end_cycle,    \* the local of run()
  asked,        \* history: the cycles asked of run() so far, in total
  started,      \* history: the cycle at which a chain was initiated
  ticks         \* history: how many times a chain has called tick()

vars == <<cur_cycle, event_queue, running, end_cycle, asked, started, ticks>>

NotStarted == -1

Names == Chains \cup Lambdas

Entry(ev, time) == [ev |-> ev, fire_time |-> time]

\* Faulty variants of Scheduled: the delay is subtracted; the delay is ignored.
ScheduledBackwards(ev, now, delay) == Entry(ev, now - delay)
ScheduledAtOnce(ev, now, delay) == Entry(ev, now)

(***************************************************************************)
(* schedule(ev, delay), called when the clock reads now: the entry it      *)
(* pushes.                                                                 *)
(***************************************************************************)
Scheduled(ev, now, delay) == Entry(ev, now + delay)

\* A LambdaEvent that is not in the queue q.
Idle(q) == {l \in Lambdas : \A e \in q : e.ev # l}

(***************************************************************************)
(* What the entries become when a handler, run at cycle now on queue q,    *)
(* schedules the LambdaEvents of DOMAIN delay.                             *)
(***************************************************************************)
Handled(q, now, delay) ==
  q \cup {Scheduled(l, now, delay[l]) : l \in DOMAIN delay}

Init ==
  /\ cur_cycle = 0
  /\ event_queue = {}
  /\ running = FALSE
  /\ end_cycle = 0
  /\ asked = 0
  /\ started = [c \in Chains |-> NotStarted]
  /\ ticks = [c \in Chains |-> 0]

(***************************************************************************)
(* SimObject::initiate_tick(), as main and startAllTicks() call it before  *)
(* a run.                                                                  *)
(***************************************************************************)
InitiateTick(c) ==
  /\ ~running
  /\ started[c] = NotStarted
  /\ event_queue' = event_queue \cup {Scheduled(c, cur_cycle, 1)}
  /\ started' = [started EXCEPT ![c] = cur_cycle]
  /\ UNCHANGED <<cur_cycle, running, end_cycle, asked, ticks>>

\* schedule() of a LambdaEvent from outside a run.
ScheduleLambda(l, d) ==
  /\ ~running
  /\ l \in Idle(event_queue)
  /\ event_queue' = event_queue \cup {Scheduled(l, cur_cycle, d)}
  /\ UNCHANGED <<cur_cycle, running, end_cycle, asked, started, ticks>>

\* run(n) is called.
RunBegin(n) ==
  /\ ~running
  /\ cur_cycle + n <= MaxCycle
  /\ running' = TRUE
  /\ end_cycle' = cur_cycle + n
  /\ asked' = asked + n
  /\ UNCHANGED <<cur_cycle, event_queue, started, ticks>>

\* e may be at the top of the heap.
OnTop(e) ==
  e \in event_queue /\ \A f \in event_queue : e.fire_time <= f.fire_time

\* Faulty variants of Due: no heap order; the end cycle is inclusive.
DueUnordered(e) == e.fire_time < end_cycle
DueInclusive(e) == OnTop(e) /\ e.fire_time <= end_cycle

\* The loop condition of run(), for an entry e at the top of the heap.
Due(e) == OnTop(e) /\ e.fire_time < end_cycle

(***************************************************************************)
(* One turn of the loop of run() whose top entry is a TickEvent: pop it,   *)
(* move the clock, call tick(), and schedule the next tick.                *)
(***************************************************************************)
FireTick(e) ==
  /\ running
  /\ e.ev \in Chains
  /\ Due(e)
  /\ cur_cycle' = e.fire_time
  /\ \E S \in SUBSET Idle(event_queue) : \E delay \in [S -> Delays] :
       event_queue' = Handled(event_queue \ {e}, cur_cycle', delay)
                        \cup {Scheduled(e.ev, cur_cycle', 1)}
  /\ ticks' = [ticks EXCEPT ![e.ev] = @ + 1]
  /\ UNCHANGED <<running, end_cycle, asked, started>>

\* One turn of the loop of run() whose top entry is a LambdaEvent.
FireLambda(e) ==
  /\ running
  /\ e.ev \in Lambdas
  /\ Due(e)
  /\ cur_cycle' = e.fire_time
  /\ \E S \in SUBSET Idle(event_queue \ {e}) : \E delay \in [S -> Delays] :
       event_queue' = Handled(event_queue \ {e}, cur_cycle', delay)
  /\ UNCHANGED <<running, end_cycle, asked, started, ticks>>

\* The loop condition of run() is false.
NothingDue ==
  event_queue = {} \/ \E e \in event_queue : OnTop(e) /\ e.fire_time >= end_cycle

\* Faulty variants of RunEnd: the clock stays at the last event; the entries
\* left over are discarded.
RunEndClockStays ==
  /\ running
  /\ NothingDue
  /\ running' = FALSE
  /\ UNCHANGED <<cur_cycle, event_queue, end_cycle, asked, started, ticks>>
RunEndFlush ==
  /\ running
  /\ NothingDue
  /\ cur_cycle' = end_cycle
  /\ running' = FALSE
  /\ event_queue' = {}
  /\ UNCHANGED <<end_cycle, asked, started, ticks>>

\* The loop of run() ends: nothing due is left, and the clock jumps to the end.
RunEnd ==
  /\ running
  /\ NothingDue
  /\ cur_cycle' = end_cycle
  /\ running' = FALSE
  /\ UNCHANGED <<event_queue, end_cycle, asked, started, ticks>>

Fire == \E e \in event_queue : FireTick(e) \/ FireLambda(e)

Next ==
  \/ \E c \in Chains : InitiateTick(c)
  \/ \E l \in Lambdas, d \in Delays : ScheduleLambda(l, d)
  \/ \E n \in Runs : RunBegin(n)
  \/ \E e \in event_queue : FireTick(e)
  \/ \E e \in event_queue : FireLambda(e)
  \/ RunEnd

Spec == Init /\ [][Next]_vars

(***************************************************************************)
(* run() is a loop in one thread: it keeps going.  Nothing obliges the     *)
(* program to call run() or schedule() again.                              *)
(***************************************************************************)
FairSpec == Spec /\ WF_vars(Fire \/ RunEnd)

-----------------------------------------------------------------------------
\* Type invariant.
TypeOK ==
  /\ cur_cycle \in Nat
  /\ event_queue \subseteq [ev : Names, fire_time : Nat]
  /\ running \in BOOLEAN
  /\ end_cycle \in Nat
  /\ asked \in Nat
  /\ started \in [Chains -> Nat \cup {NotStarted}]
  /\ ticks \in [Chains -> Nat]

(***************************************************************************)
(* The clock never passes an entry that has not fired: whatever handlers   *)
(* schedule, and however a run is cut by its end cycle, no entry of the    *)
(* queue lies before cur_cycle.                                            *)
(***************************************************************************)
NoEventInThePast == \A e \in event_queue : e.fire_time >= cur_cycle

(***************************************************************************)
(* Splitting a simulation into several runs loses no cycle: between runs   *)
(* the clock reads exactly the cycles asked for, also when the queue ran   *)
(* dry early; during one it never passes the cycle the run ends at.        *)
(***************************************************************************)
ClockMatchesRuns == IF running THEN cur_cycle <= asked ELSE cur_cycle = asked

(***************************************************************************)
(* Every object ticks in every cycle: between runs, a chain initiated at   *)
(* cycle s has called tick() once for each cycle in s+1 .. cur_cycle-1,    *)
(* and exactly one TickEvent carries it on.  The tick of the cycle a run   *)
(* ends at belongs to the next run.                                        *)
(***************************************************************************)
Beating(c) == {e \in event_queue : e.ev = c}

NoTickMissed ==
  \A c \in Chains : started[c] # NotStarted =>
    /\ Beating(c) = {Entry(c, started[c] + ticks[c] + 1)}
    /\ ~running =>
         ticks[c] = IF cur_cycle = started[c] THEN 0
                    ELSE cur_cycle - started[c] - 1

(***************************************************************************)
(* An entry leaves the queue only by firing, in a run, at exactly the      *)
(* cycle it was scheduled for, and time never runs backwards.              *)
(***************************************************************************)
OnTime ==
  /\ cur_cycle' >= cur_cycle
  /\ \A e \in event_queue \ event_queue' :
       running /\ cur_cycle' = e.fire_time /\ e.fire_time < end_cycle

FireOnTime == [][OnTime]_vars

(***************************************************************************)
(* A call of run() returns, as long as no handler schedules with delay 0   *)
(* (none of the modules does): the tick chains alone never keep it going.  *)
(***************************************************************************)
RunReturns == running ~> ~running

=============================================================================
