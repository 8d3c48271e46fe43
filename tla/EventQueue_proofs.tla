--------------------------- MODULE EventQueue_proofs ---------------------------
(***************************************************************************)
(* Proofs of the safety properties of EventQueue, for any set of tick      *)
(* chains and LambdaEvents, any delays, and runs of any length.            *)
(***************************************************************************)
EXTENDS EventQueue, TLAPS

(***************************************************************************)
(* The inductive invariant.  NoTickMissed does not carry itself through a  *)
(* run: while one is going on, a chain may have ticked up to the cycle     *)
(* before end_cycle, which only becomes cur_cycle when the run ends.       *)
(***************************************************************************)
RunBounds ==
  IF running THEN cur_cycle <= end_cycle /\ end_cycle = asked
  ELSE cur_cycle = asked

Reached == IF running THEN end_cycle ELSE cur_cycle

ChainsBeat ==
  \A c \in Chains :
    IF started[c] = NotStarted
    THEN Beating(c) = {}
    ELSE Beating(c) = {Entry(c, started[c] + ticks[c] + 1)}

ChainsInTime ==
  \A c \in Chains :
    /\ started[c] = NotStarted => ticks[c] = 0
    /\ started[c] # NotStarted => started[c] <= cur_cycle
    /\ ticks[c] > 0 => started[c] + ticks[c] < Reached

IInv ==
  /\ TypeOK
  /\ NoEventInThePast
  /\ RunBounds
  /\ ChainsBeat
  /\ ChainsInTime

Entries == [ev : Names, fire_time : Nat]

\* The entries of a queue q that carry the chain c on.
Carrying(q, c) == {e \in q : e.ev = c}

(***************************************************************************)
(* What a handler leaves in the queue: the entries that were there, and    *)
(* entries of LambdaEvents that lie in the present or the future.          *)
(***************************************************************************)
LEMMA HandledEntries ==
  ASSUME NEW q, q \subseteq Entries,
         NEW now \in Nat,
         NEW delay, DOMAIN delay \subseteq Lambdas,
         \A l \in DOMAIN delay : delay[l] \in Delays
  PROVE  /\ Handled(q, now, delay) \subseteq Entries
         /\ q \subseteq Handled(q, now, delay)
         /\ \A e \in Handled(q, now, delay) \ q :
              e.ev \in Lambdas /\ e.fire_time >= now
<1>1. \A l \in DOMAIN delay : delay[l] \in Nat
  BY CycleNumbers
<1>2. \A l \in DOMAIN delay :
        Scheduled(l, now, delay[l]) = [ev |-> l, fire_time |-> now + delay[l]]
  BY DEF Scheduled, Entry
<1>3. \A l \in DOMAIN delay :
        /\ Scheduled(l, now, delay[l]) \in Entries
        /\ Scheduled(l, now, delay[l]).ev \in Lambdas
        /\ Scheduled(l, now, delay[l]).fire_time >= now
  BY <1>1, <1>2 DEF Names, Entries
<1>4. QED
  BY <1>3 DEF Handled

\* Entries of LambdaEvents that are added leave the chains as they are.
LEMMA OtherEntries ==
  ASSUME NEW q, NEW r, NEW c \in Chains,
         q \subseteq r,
         \A e \in r \ q : e.ev \in Lambdas
  PROVE  Carrying(r, c) = Carrying(q, c)
BY EventNames DEF Carrying

\* The initial state satisfies the invariant.
LEMMA InitInv == Init => IInv
<1> SUFFICES ASSUME Init PROVE IInv
  OBVIOUS
<1>1. TypeOK
  BY DEF Init, TypeOK, NotStarted
<1>2. NoEventInThePast /\ RunBounds
  BY DEF Init, NoEventInThePast, RunBounds
<1>3. ChainsBeat /\ ChainsInTime
  BY DEF Init, ChainsBeat, Beating, ChainsInTime, NotStarted
<1>4. QED
  BY <1>1, <1>2, <1>3 DEF IInv

(***************************************************************************)
(* Every step preserves the invariant.  Each lemma treats one action; in   *)
(* all of them the entries of a chain are what has to be followed.         *)
(***************************************************************************)
LEMMA InitiateTickInv ==
  ASSUME IInv, NEW c \in Chains, InitiateTick(c)
  PROVE  IInv'
<1> DEFINE new == Entry(c, cur_cycle + 1)
<1> USE DEF IInv
<1>1. event_queue' = event_queue \cup {new}
  BY DEF InitiateTick, Scheduled
<1>2. new = [ev |-> c, fire_time |-> cur_cycle + 1]
  BY DEF Entry
<1>3. TypeOK'
  BY <1>1, <1>2 DEF TypeOK, InitiateTick, Names, NotStarted
<1>4. NoEventInThePast' /\ RunBounds'
  BY <1>1, <1>2 DEF TypeOK, NoEventInThePast, RunBounds, InitiateTick
<1>5. ChainsBeat'
  <2> SUFFICES ASSUME NEW d \in Chains
               PROVE  IF started'[d] = NotStarted THEN Beating(d)' = {}
                      ELSE Beating(d)' = {Entry(d, started'[d] + ticks'[d] + 1)}
    BY DEF ChainsBeat
  <2>1. CASE d = c
    <3>1. Beating(c) = {} /\ ticks[c] = 0
      BY DEF InitiateTick, ChainsBeat, ChainsInTime
    <3>2. Beating(c)' = {new}
      BY <1>1, <1>2, <3>1 DEF Beating
    <3>3. started'[c] = cur_cycle /\ ticks'[c] = 0 /\ cur_cycle # NotStarted
      BY <3>1 DEF InitiateTick, TypeOK, NotStarted
    <3>4. started'[c] + ticks'[c] + 1 = cur_cycle + 1
      BY <3>3 DEF TypeOK
    <3>5. QED
      BY <2>1, <3>2, <3>3, <3>4
  <2>2. CASE d # c
    <3>1. Beating(d)' = Beating(d)
      BY <1>1, <1>2, <2>2 DEF Beating
    <3>2. started'[d] = started[d] /\ ticks' = ticks
      BY <2>2 DEF InitiateTick, TypeOK
    <3>3. QED
      BY <3>1, <3>2 DEF ChainsBeat
  <2>3. QED
    BY <2>1, <2>2
<1>6. ChainsInTime'
  BY DEF ChainsInTime, InitiateTick, TypeOK, NotStarted, Reached
<1>7. QED
  BY <1>3, <1>4, <1>5, <1>6

LEMMA ScheduleLambdaInv ==
  ASSUME IInv, NEW l \in Lambdas, NEW d \in Delays, ScheduleLambda(l, d)
  PROVE  IInv'
<1> USE DEF IInv
<1>1. d \in Nat
  BY CycleNumbers
<1>2. event_queue' = event_queue \cup {[ev |-> l, fire_time |-> cur_cycle + d]}
  BY DEF ScheduleLambda, Scheduled, Entry
<1>3. TypeOK'
  BY <1>1, <1>2 DEF TypeOK, ScheduleLambda, Names
<1>4. NoEventInThePast' /\ RunBounds'
  BY <1>1, <1>2 DEF TypeOK, NoEventInThePast, RunBounds, ScheduleLambda
<1>5. ASSUME NEW c \in Chains
      PROVE  Beating(c)' = Beating(c)
  <2>1. Carrying(event_queue', c) = Carrying(event_queue, c)
    BY <1>2, OtherEntries
  <2>2. QED
    BY <2>1 DEF Beating, Carrying
<1>6. ChainsBeat' /\ ChainsInTime'
  BY <1>5 DEF ChainsBeat, ChainsInTime, ScheduleLambda, Reached
<1>7. QED
  BY <1>3, <1>4, <1>6

LEMMA RunBeginInv ==
  ASSUME IInv, NEW n \in Runs, RunBegin(n)
  PROVE  IInv'
<1> USE DEF IInv
<1>1. n \in Nat
  BY CycleNumbers
<1>2. TypeOK'
  BY <1>1 DEF TypeOK, RunBegin
<1>3. NoEventInThePast' /\ RunBounds'
  BY <1>1 DEF TypeOK, NoEventInThePast, RunBounds, RunBegin
<1>4. ChainsBeat'
  BY DEF ChainsBeat, Beating, RunBegin
<1>5. ChainsInTime'
  BY <1>1 DEF ChainsInTime, RunBegin, Reached, TypeOK, NotStarted
<1>6. QED
  BY <1>2, <1>3, <1>4, <1>5

LEMMA FireTickInv ==
  ASSUME IInv, NEW e \in event_queue, FireTick(e)
  PROVE  IInv'
<1> DEFINE c == e.ev
           rest == event_queue \ {e}
           next == Entry(c, cur_cycle' + 1)
<1> USE DEF IInv
<1>1. c \in Chains /\ cur_cycle' = e.fire_time /\ cur_cycle' \in Nat
  BY DEF FireTick, TypeOK
<1>2. e.fire_time < end_cycle /\ \A f \in event_queue : e.fire_time <= f.fire_time
  BY DEF FireTick, Due, OnTop
<1>3. PICK S \in SUBSET Lambdas : \E delay \in [S -> Delays] :
        event_queue' = Handled(rest, cur_cycle', delay) \cup {next}
  BY DEF FireTick, Scheduled, Idle
<1>4. PICK delay \in [S -> Delays] : event_queue' = Handled(rest, cur_cycle', delay) \cup {next}
  BY <1>3
<1>5. DOMAIN delay \subseteq Lambdas /\ \A l \in DOMAIN delay : delay[l] \in Delays
  OBVIOUS
<1>6. rest \subseteq Entries
  BY DEF TypeOK, Entries
<1> DEFINE q == Handled(rest, cur_cycle', delay)
<1>7. /\ q \subseteq Entries
      /\ rest \subseteq q
      /\ \A f \in q \ rest : f.ev \in Lambdas /\ f.fire_time >= cur_cycle'
  <2> HIDE DEF rest
  <2> QED
    BY <1>6, <1>1, <1>5, HandledEntries
<1>8. next \in Entries /\ next.ev = c /\ next.fire_time = cur_cycle' + 1
  BY <1>1 DEF Entry, Entries, Names
<1>9. event_queue' = q \cup {next}
  BY <1>4
<1> HIDE DEF q, next
<1>10. TypeOK'
  <2>1. event_queue' \subseteq Entries
    BY <1>7, <1>8, <1>9
  <2>2. QED
    BY <1>1, <2>1 DEF TypeOK, FireTick, Entries
<1>11. NoEventInThePast'
  BY <1>1, <1>2, <1>7, <1>8, <1>9 DEF Entries, NoEventInThePast, TypeOK
<1>12. RunBounds'
  BY <1>1, <1>2 DEF RunBounds, FireTick, TypeOK
<1>13. e \in Beating(c) /\ started[c] # NotStarted
  BY <1>1 DEF Beating, ChainsBeat
<1>14. Beating(c) = {e} /\ e.fire_time = started[c] + ticks[c] + 1
  BY <1>1, <1>13 DEF ChainsBeat, Entry
<1>15. started[c] \in Nat /\ ticks[c] \in Nat
  BY <1>1, <1>13 DEF TypeOK
<1>16. ticks'[c] = ticks[c] + 1 /\ started' = started
       /\ \A d \in Chains \ {c} : ticks'[d] = ticks[d]
  BY <1>1 DEF FireTick, TypeOK
<1>17. ChainsBeat'
  <2> SUFFICES ASSUME NEW d \in Chains
               PROVE  IF started'[d] = NotStarted THEN Beating(d)' = {}
                      ELSE Beating(d)' = {Entry(d, started'[d] + ticks'[d] + 1)}
    BY DEF ChainsBeat
  <2>1. CASE d = c
    <3>1. Carrying(rest, c) = {}
      BY <1>14 DEF Beating, Carrying
    <3>2. Carrying(q, c) = {}
      BY <1>1, <1>7, <3>1, OtherEntries
    <3>3. Beating(c)' = {next}
      BY <1>8, <1>9, <3>2 DEF Beating, Carrying
    <3>4. started'[c] + ticks'[c] + 1 = cur_cycle' + 1
      BY <1>1, <1>14, <1>15, <1>16
    <3>5. QED
      BY <2>1, <3>3, <3>4, <1>13, <1>16 DEF next
  <2>2. CASE d # c
    <3>1. Carrying(q, d) = Carrying(rest, d)
      BY <1>7, OtherEntries
    <3>2. Beating(d)' = Beating(d)
      BY <1>6, <1>1, <1>8, <1>9, <1>14, <2>2, <3>1 DEF Beating, Carrying
    <3>3. QED
      BY <2>2, <3>2, <1>16 DEF ChainsBeat
  <2>3. QED
    BY <2>1, <2>2
<1>18. ChainsInTime'
  <2>1. \A d \in Chains : started[d] # NotStarted => started[d] <= cur_cycle'
    BY <1>1 DEF ChainsInTime, NoEventInThePast, TypeOK
  <2>2. started'[c] + ticks'[c] < end_cycle /\ Reached' = Reached /\ Reached = end_cycle
    BY <1>1, <1>2, <1>14, <1>15, <1>16 DEF Reached, FireTick
  <2>3. QED
    BY <1>13, <1>16, <2>1, <2>2 DEF ChainsInTime
<1>19. QED
  BY <1>10, <1>11, <1>12, <1>17, <1>18

LEMMA FireLambdaInv ==
  ASSUME IInv, NEW e \in event_queue, FireLambda(e)
  PROVE  IInv'
<1> DEFINE rest == event_queue \ {e}
<1> USE DEF IInv
<1>1. e.ev \in Lambdas /\ cur_cycle' = e.fire_time /\ cur_cycle' \in Nat
  BY DEF FireLambda, TypeOK
<1>2. e.fire_time < end_cycle /\ \A f \in event_queue : e.fire_time <= f.fire_time
  BY DEF FireLambda, Due, OnTop
<1>3. PICK S \in SUBSET Lambdas : \E delay \in [S -> Delays] :
        event_queue' = Handled(rest, cur_cycle', delay)
  BY DEF FireLambda, Idle
<1>4. PICK delay \in [S -> Delays] : event_queue' = Handled(rest, cur_cycle', delay)
  BY <1>3
<1>5. DOMAIN delay \subseteq Lambdas /\ \A l \in DOMAIN delay : delay[l] \in Delays
  OBVIOUS
<1>6. rest \subseteq Entries
  BY DEF TypeOK, Entries
<1>7. /\ event_queue' \subseteq Entries
      /\ rest \subseteq event_queue'
      /\ \A f \in event_queue' \ rest : f.ev \in Lambdas /\ f.fire_time >= cur_cycle'
  <2> HIDE DEF rest
  <2> QED
    BY <1>6, <1>1, <1>4, <1>5, HandledEntries
<1>8. TypeOK'
  BY <1>1, <1>7 DEF TypeOK, FireLambda, Entries
<1>9. NoEventInThePast'
  BY <1>1, <1>2, <1>7 DEF NoEventInThePast, TypeOK, Entries
<1>10. RunBounds'
  BY <1>1, <1>2 DEF RunBounds, FireLambda, TypeOK
<1>11. ASSUME NEW c \in Chains
       PROVE  Beating(c)' = Beating(c)
  <2>1. Carrying(event_queue', c) = Carrying(rest, c)
    BY <1>7, OtherEntries
  <2>2. QED
    BY <1>1, <2>1, EventNames DEF Beating, Carrying
<1>12. ChainsBeat'
  BY <1>11 DEF ChainsBeat, FireLambda
<1>13. ChainsInTime'
  BY <1>1 DEF ChainsInTime, FireLambda, NoEventInThePast, TypeOK, Reached
<1>14. QED
  BY <1>8, <1>9, <1>10, <1>12, <1>13

LEMMA RunEndInv ==
  ASSUME IInv, RunEnd
  PROVE  IInv'
<1> USE DEF IInv
<1>1. \A e \in event_queue : e.fire_time >= end_cycle
  BY DEF RunEnd, NothingDue, OnTop, TypeOK
<1>2. TypeOK'
  BY DEF TypeOK, RunEnd
<1>3. NoEventInThePast' /\ RunBounds'
  BY <1>1 DEF TypeOK, NoEventInThePast, RunBounds, RunEnd
<1>4. ChainsBeat'
  BY DEF ChainsBeat, Beating, RunEnd
<1>5. ChainsInTime'
  BY DEF ChainsInTime, RunEnd, Reached, RunBounds, TypeOK, NotStarted
<1>6. QED
  BY <1>2, <1>3, <1>4, <1>5

LEMMA StutterInv ==
  ASSUME IInv, UNCHANGED vars
  PROVE  IInv'
BY DEF IInv, vars, TypeOK, NoEventInThePast, RunBounds, ChainsBeat, Beating,
       ChainsInTime, Reached

(***************************************************************************)
(* IInv is an inductive invariant of the specification.                    *)
(***************************************************************************)
THEOREM Inductive == Spec => []IInv
<1>1. Init => IInv
  BY InitInv
<1>2. IInv /\ [Next]_vars => IInv'
  <2> SUFFICES ASSUME IInv, [Next]_vars
               PROVE  IInv'
    OBVIOUS
  <2>1. ASSUME NEW c \in Chains, InitiateTick(c) PROVE IInv'
    BY <2>1, InitiateTickInv
  <2>2. ASSUME NEW l \in Lambdas, NEW d \in Delays, ScheduleLambda(l, d) PROVE IInv'
    BY <2>2, ScheduleLambdaInv
  <2>3. ASSUME NEW n \in Runs, RunBegin(n) PROVE IInv'
    BY <2>3, RunBeginInv
  <2>4. ASSUME NEW e \in event_queue, FireTick(e) PROVE IInv'
    BY <2>4, FireTickInv
  <2>5. ASSUME NEW e \in event_queue, FireLambda(e) PROVE IInv'
    BY <2>5, FireLambdaInv
  <2>6. CASE RunEnd
    BY <2>6, RunEndInv
  <2>7. CASE UNCHANGED vars
    BY <2>7, StutterInv
  <2>8. QED
    BY <2>1, <2>2, <2>3, <2>4, <2>5, <2>6, <2>7 DEF Next
<1>3. QED
  BY <1>1, <1>2, PTL DEF Spec

(***************************************************************************)
(* Type correctness: in particular the clock and the cycles of the entries *)
(* stay natural numbers.                                                   *)
(***************************************************************************)
THEOREM TypeCorrect == Spec => []TypeOK
<1>1. IInv => TypeOK
  BY DEF IInv
<1>2. QED
  BY <1>1, Inductive, PTL

(***************************************************************************)
(* The clock never passes an entry that has not fired.                     *)
(***************************************************************************)
THEOREM NothingInThePast == Spec => []NoEventInThePast
<1>1. IInv => NoEventInThePast
  BY DEF IInv
<1>2. QED
  BY <1>1, Inductive, PTL

(***************************************************************************)
(* Between runs the clock reads exactly the cycles that were asked for.    *)
(***************************************************************************)
THEOREM ClockCorrect == Spec => []ClockMatchesRuns
<1>1. IInv => ClockMatchesRuns
  BY DEF IInv, RunBounds, ClockMatchesRuns
<1>2. QED
  BY <1>1, Inductive, PTL

(***************************************************************************)
(* Every chain ticks once in every cycle, however the cycles are divided   *)
(* into runs.                                                              *)
(***************************************************************************)
THEOREM EveryTick == Spec => []NoTickMissed
<1>1. IInv => NoTickMissed
  <2> SUFFICES ASSUME IInv, NEW c \in Chains, started[c] # NotStarted
               PROVE  /\ Beating(c) = {Entry(c, started[c] + ticks[c] + 1)}
                      /\ ~running =>
                           ticks[c] = IF cur_cycle = started[c] THEN 0
                                      ELSE cur_cycle - started[c] - 1
    BY DEF NoTickMissed
  <2>1. Beating(c) = {Entry(c, started[c] + ticks[c] + 1)}
    BY DEF IInv, ChainsBeat
  <2>2. started[c] \in Nat /\ ticks[c] \in Nat /\ cur_cycle \in Nat
    BY DEF IInv, TypeOK
  <2>3. started[c] + ticks[c] + 1 >= cur_cycle
    <3>1. Entry(c, started[c] + ticks[c] + 1) \in event_queue
      BY <2>1 DEF Beating
    <3>2. Entry(c, started[c] + ticks[c] + 1).fire_time = started[c] + ticks[c] + 1
      BY DEF Entry
    <3>3. QED
      BY <3>1, <3>2 DEF IInv, NoEventInThePast
  <2>4. /\ started[c] <= cur_cycle
        /\ ~running /\ ticks[c] > 0 => started[c] + ticks[c] < cur_cycle
    BY DEF IInv, ChainsInTime, Reached
  <2>5. QED
    BY <2>1, <2>2, <2>3, <2>4
<1>2. QED
  BY <1>1, Inductive, PTL

(***************************************************************************)
(* Entries leave the queue only by firing, at their cycle, inside a run;   *)
(* time never runs backwards.                                              *)
(***************************************************************************)
THEOREM FiredOnTime == Spec => FireOnTime
<1>1. IInv /\ [Next]_vars => [OnTime]_vars
  <2> SUFFICES ASSUME IInv, Next
               PROVE  OnTime
    OBVIOUS
  <2> USE DEF IInv, OnTime
  <2>1. ASSUME NEW c \in Chains, InitiateTick(c) PROVE OnTime
    BY <2>1 DEF InitiateTick, TypeOK
  <2>2. ASSUME NEW l \in Lambdas, NEW d \in Delays, ScheduleLambda(l, d) PROVE OnTime
    BY <2>2 DEF ScheduleLambda, TypeOK
  <2>3. ASSUME NEW n \in Runs, RunBegin(n) PROVE OnTime
    BY <2>3 DEF RunBegin, TypeOK
  <2>4. ASSUME NEW e \in event_queue, FireTick(e) PROVE OnTime
    <3>1. event_queue \ event_queue' \subseteq {e}
      BY <2>4 DEF FireTick, Handled
    <3>2. running /\ cur_cycle' = e.fire_time /\ e.fire_time < end_cycle
      BY <2>4 DEF FireTick, Due
    <3>3. QED
      BY <3>1, <3>2 DEF NoEventInThePast
  <2>5. ASSUME NEW e \in event_queue, FireLambda(e) PROVE OnTime
    <3>1. event_queue \ event_queue' \subseteq {e}
      BY <2>5 DEF FireLambda, Handled
    <3>2. running /\ cur_cycle' = e.fire_time /\ e.fire_time < end_cycle
      BY <2>5 DEF FireLambda, Due
    <3>3. QED
      BY <3>1, <3>2 DEF NoEventInThePast
  <2>6. CASE RunEnd
    BY <2>6 DEF RunEnd, RunBounds, TypeOK
  <2>7. QED
    BY <2>1, <2>2, <2>3, <2>4, <2>5, <2>6 DEF Next
<1>2. QED
  BY <1>1, Inductive, PTL DEF Spec, FireOnTime
=============================================================================
