--------------------------- MODULE SemaphoreProofs ---------------------------
(****************************************************************************)
(* Proofs about Semaphore, for any threads, semaphores and initial values:  *)
(* P and V use the scheduler as it allows, and no wakeup is lost.           *)
(****************************************************************************)
EXTENDS Semaphore, ThreadsProofs

\* The inductive invariant.  That a step is one the scheduler allows depends
\* on QueueExact (V wakes a thread that sleeps), and QueueExact on ThreadsInv
\* (no other step moves a sleeper).
SemaphoreInv == ThreadsInv /\ SemaphoreTypeOK /\ QueueExact /\ NoLostWakeup

\* QueueExact as the queue lemmas want it.
LEMMA QueueHolds ==
  ASSUME SemaphoreTypeOK, QueueExact, NEW s \in Semaphores
  PROVE  Holds(queue[s], AsleepIn(s))
BY HoldsRange DEF SemaphoreTypeOK, QueueExact

\* Any set of threads is finite.
LEMMA WokenFinite ==
  ASSUME NEW o
  PROVE  IsFiniteSet(WokenIn(o)) /\ Cardinality(WokenIn(o)) \in Nat
<1>1. WokenIn(o) \subseteq Thread
  BY DEF WokenIn
<1>2. IsFiniteSet(WokenIn(o))
  BY <1>1, ThreadAssumption, FS_Subset
<1> QED BY <1>2, FS_CardinalityType

\* A step that leaves one semaphore's queue, value and threads alone leaves
\* what the invariant says of that semaphore.
QueueExactOf(s) == Holds(queue[s], AsleepIn(s))
CoveredOf(s) == queue[s] # <<>> => value[s] <= Cardinality(WokenIn(s))

LEMMA SemaphoreFrame ==
  ASSUME SemaphoreInv, NEW s \in Semaphores,
         queue'[s] = queue[s], value'[s] = value[s],
         AsleepIn(s)' = AsleepIn(s), WokenIn(s)' = WokenIn(s)
  PROVE  QueueExactOf(s)' /\ CoveredOf(s)'
BY QueueHolds DEF SemaphoreInv, NoLostWakeup, QueueExactOf, CoveredOf

\* The invariant from its parts.
LEMMA SemaphoreParts ==
  ASSUME ThreadsInv', SemaphoreTypeOK',
         \A s \in Semaphores : QueueExactOf(s)' /\ CoveredOf(s)'
  PROVE  SemaphoreInv'
BY DEF SemaphoreInv, QueueExact, NoLostWakeup, QueueExactOf, CoveredOf, Holds

-----------------------------------------------------------------------------
\* Semaphore::P takes a step of the scheduler: Sleep, the return from a P
\* that slept, or none.
LEMMA PImplements ==
  ASSUME SemaphoreInv, NEW s \in Semaphores, P(s)
  PROVE  [ThreadsNext]_threadVars
<1>0. s \in Object /\ Running /\ at[currentThread] \in {"code", s}
  BY SemaphoreAssumption DEF P, InCode, Resumed
<1>1. CASE Sleep(s, <<>>)
  <2>1. <<>> \in WakeOrders
    BY HoldsNone, HoldsWakeOrder
  <2> QED BY <1>0, <1>1, <2>1 DEF ThreadsNext, Block
<1>2. CASE ReturnToCode /\ at[currentThread] = "code"
  BY <1>2 DEF ReturnToCode, threadVars, SemaphoreInv, ThreadsInv, ThreadsTypeOK
<1>3. CASE ReturnToCode /\ at[currentThread] = s
  BY <1>0, <1>3 DEF ThreadsNext, Resume
<1> QED BY <1>0, <1>1, <1>2, <1>3 DEF P

\* Semaphore::V wakes a thread that sleeps, or nobody.
LEMMA VImplements ==
  ASSUME SemaphoreInv, NEW s \in Semaphores, V(s) \/ IdleV(s)
  PROVE  [ThreadsNext]_threadVars
<1>1. First(queue[s]) \in WakeOrders
  <2>1. AsleepIn(s) \subseteq Asleep
    BY SemaphoreAssumption DEF Asleep
  <2>2. Holds(queue[s], AsleepIn(s))
    BY QueueHolds DEF SemaphoreInv
  <2>3. /\ Holds(First(queue[s]), Range(First(queue[s])))
        /\ Range(First(queue[s])) \subseteq Asleep
    BY <2>1, <2>2, HoldsFirst
  <2> QED BY <2>3, HoldsWakeOrder
<1>2. Wake
  BY <1>1 DEF V, IdleV, Wake
<1> QED BY <1>2 DEF ThreadsNext

\* Every step of a semaphore is a step of the scheduler, or leaves the
\* threads alone.
LEMMA SemaphoreStepImplements ==
  ASSUME SemaphoreInv, [SemaphoreNext]_semaphoreVars
  PROVE  [ThreadsNext]_threadVars
<1>1. ASSUME NEW s \in Semaphores, P(s) \/ V(s) \/ IdleV(s)
      PROVE  [ThreadsNext]_threadVars
  BY <1>1, PImplements, VImplements
<1>2. CASE ThreadStep \/ Finish
  BY <1>2 DEF ThreadsNext
<1>3. CASE UNCHANGED semaphoreVars
  BY <1>3 DEF semaphoreVars
<1> QED BY <1>1, <1>2, <1>3 DEF SemaphoreNext

-----------------------------------------------------------------------------
\* Semaphore::P keeps the invariant.  A thread goes to the queue only when the
\* value is zero; one that was woken takes itself and one unit away.
LEMMA PInv ==
  ASSUME SemaphoreInv, ThreadsInv', NEW s \in Semaphores, P(s)
  PROVE  SemaphoreInv'
<1>0. /\ s \in Object /\ Running /\ at[currentThread] \in {"code", s}
      /\ ThreadsTypeOK /\ SemaphoreTypeOK /\ currentThread \in Thread
      /\ status[currentThread] = "RUNNING"
  BY SemaphoreAssumption
  DEF P, InCode, Resumed, Running, SemaphoreInv, ThreadsInv, ThreadsTypeOK
<1>1. Holds(queue[s], AsleepIn(s))
  BY QueueHolds DEF SemaphoreInv
<1>2. CASE value[s] = 0
  <2>1. /\ queue' = [queue EXCEPT ![s] = Append(@, currentThread)]
        /\ Sleep(s, <<>>) /\ value' = value
    BY <1>2 DEF P
  <2>2. /\ AsleepIn(s)' = AsleepIn(s) \cup {currentThread}
        /\ \A p \in Object : p # s =>
             AsleepIn(p)' = AsleepIn(p) /\ WokenIn(p)' = WokenIn(p)
    BY <1>0, <2>1, SleepMoves
  <2>3. SemaphoreTypeOK'
    BY <1>0, <2>1 DEF SemaphoreTypeOK
  <2>4. QueueExactOf(s)'
    <3>1. currentThread \notin AsleepIn(s)
      BY <1>0 DEF AsleepIn
    <3>2. Holds(Append(queue[s], currentThread), AsleepIn(s) \cup {currentThread})
      BY <1>1, <3>1, HoldsAppend
    <3> QED BY <1>0, <2>1, <2>2, <3>2 DEF QueueExactOf, SemaphoreTypeOK
  <2>5. CoveredOf(s)'
    <3>1. Cardinality(WokenIn(s)') \in Nat
      <4>1. WokenIn(s)' \subseteq Thread
        BY DEF WokenIn
      <4> QED BY <4>1, ThreadAssumption, FS_Subset, FS_CardinalityType
    <3> QED BY <1>2, <2>1, <3>1 DEF CoveredOf
  <2>6. ASSUME NEW p \in Semaphores, p # s
        PROVE  QueueExactOf(p)' /\ CoveredOf(p)'
    <3>1. queue'[p] = queue[p] /\ value'[p] = value[p]
      BY <1>0, <2>1, <2>6 DEF SemaphoreTypeOK
    <3>2. AsleepIn(p)' = AsleepIn(p) /\ WokenIn(p)' = WokenIn(p)
      BY <2>2, <2>6, SemaphoreAssumption
    <3> QED BY <3>1, <3>2, SemaphoreFrame
  <2> QED BY <2>3, <2>4, <2>5, <2>6, SemaphoreParts
<1>3. CASE value[s] # 0
  <2>1. /\ value' = [value EXCEPT ![s] = @ - 1]
        /\ ReturnToCode /\ queue' = queue
    BY <1>3 DEF P
  <2>2. /\ WokenIn(s)' = WokenIn(s) \ {currentThread}
        /\ \A p \in Object : AsleepIn(p)' = AsleepIn(p)
        /\ \A p \in Object : p # s => WokenIn(p)' = WokenIn(p)
    BY <1>0, <2>1, ReturnMoves
  <2>3. value[s] \in 1 .. MaxValue /\ value'[s] = value[s] - 1
    BY <1>0, <1>3, <2>1, SemaphoreAssumption DEF SemaphoreTypeOK
  <2>4. SemaphoreTypeOK'
    BY <1>0, <2>1, <2>3, SemaphoreAssumption DEF SemaphoreTypeOK
  <2>5. QueueExactOf(s)'
    BY <1>0, <1>1, <2>1, <2>2 DEF QueueExactOf
  <2>6. CoveredOf(s)'
    <3>1. Cardinality(WokenIn(s)) - 1 <= Cardinality(WokenIn(s) \ {currentThread})
      BY WokenFinite, FS_RemoveElement
    <3>2. /\ Cardinality(WokenIn(s)) \in Nat
          /\ Cardinality(WokenIn(s) \ {currentThread}) \in Nat
      BY WokenFinite, FS_RemoveElement, FS_CardinalityType
    <3>3. queue[s] # <<>> => value[s] <= Cardinality(WokenIn(s))
      BY DEF SemaphoreInv, NoLostWakeup
    <3>4. queue'[s] # <<>> =>
            value'[s] <= Cardinality(WokenIn(s) \ {currentThread})
      BY <2>1, <2>3, <3>1, <3>2, <3>3
    <3> QED BY <2>2, <3>4 DEF CoveredOf
  <2>7. ASSUME NEW p \in Semaphores, p # s
        PROVE  QueueExactOf(p)' /\ CoveredOf(p)'
    <3>1. queue'[p] = queue[p] /\ value'[p] = value[p]
      BY <1>0, <2>1, <2>7 DEF SemaphoreTypeOK
    <3>2. AsleepIn(p)' = AsleepIn(p) /\ WokenIn(p)' = WokenIn(p)
      BY <2>2, <2>7, SemaphoreAssumption
    <3> QED BY <3>1, <3>2, SemaphoreFrame
  <2> QED BY <2>4, <2>5, <2>6, <2>7, SemaphoreParts
<1> QED BY <1>2, <1>3

\* Semaphore::V keeps the invariant.  With threads on the queue it adds one to
\* the value and one to the woken threads.
LEMMA VInv ==
  ASSUME SemaphoreInv, ThreadsInv', NEW s \in Semaphores, V(s) \/ IdleV(s)
  PROVE  SemaphoreInv'
<1> DEFINE q == First(queue[s])
<1>0. /\ ThreadsTypeOK /\ SemaphoreTypeOK
      /\ Up(s) /\ status' = Readied(q) /\ at' = at
  BY DEF V, IdleV, IdleWake, ReadyToRun, SemaphoreInv, ThreadsInv
<1>1. /\ Holds(queue[s], AsleepIn(s))
      /\ Range(q) \subseteq AsleepIn(s)
      /\ Holds(Rest(queue[s]), AsleepIn(s) \ Range(q))
  BY QueueHolds, HoldsFirst DEF SemaphoreInv
<1>2. /\ AsleepIn(s)' = AsleepIn(s) \ Range(q)
      /\ WokenIn(s)' = WokenIn(s) \cup Range(q)
      /\ \A p : p # s => AsleepIn(p)' = AsleepIn(p) /\ WokenIn(p)' = WokenIn(p)
  BY <1>0, <1>1, WakeMoves
<1>3. /\ queue' = [queue EXCEPT ![s] = Rest(@)]
      /\ value' = [value EXCEPT ![s] = @ + 1]
      /\ value[s] < MaxValue
  BY <1>0 DEF Up
<1>4. queue'[s] = Rest(queue[s])
  BY <1>0, <1>3 DEF SemaphoreTypeOK
<1>5. QueueExactOf(s)'
  BY <1>1, <1>2, <1>4 DEF QueueExactOf
<1>6. SemaphoreTypeOK'
  <2>1. Rest(queue[s]) \in Seq(Thread)
    <3>1. AsleepIn(s) \ Range(q) \subseteq Thread
      BY DEF AsleepIn
    <3>2. Rest(queue[s]) \in Seq(AsleepIn(s) \ Range(q))
      BY <1>1 DEF Holds
    <3> HIDE DEF q
    <3> QED BY <3>1, <3>2, SMT
  <2>2. value' \in [Semaphores -> 0 .. MaxValue]
    BY <1>0, <1>3, SemaphoreAssumption DEF SemaphoreTypeOK
  <2> QED BY <1>0, <1>3, <2>1, <2>2 DEF SemaphoreTypeOK
<1>7. CoveredOf(s)'
  <2>1. CASE queue[s] = <<>>
    BY <1>4, <2>1 DEF CoveredOf, Rest
  <2>2. CASE queue[s] # <<>>
    <3>1. Range(q) = {Head(queue[s])}
      BY <2>2, HoldsOne DEF Holds, First
    <3>2. Head(queue[s]) \notin WokenIn(s)
      BY <1>1, <3>1 DEF AsleepIn, WokenIn
    <3>3. Cardinality(WokenIn(s)') = Cardinality(WokenIn(s)) + 1
      <4>1. WokenIn(s)' = WokenIn(s) \cup {Head(queue[s])}
        BY <1>2, <3>1
      <4>2. Cardinality(WokenIn(s) \cup {Head(queue[s])}) = Cardinality(WokenIn(s)) + 1
        BY <3>2, WokenFinite, FS_AddElement
      <4> QED BY <4>1, <4>2
    <3>4. value[s] <= Cardinality(WokenIn(s)) /\ Cardinality(WokenIn(s)) \in Nat
      BY <2>2, WokenFinite DEF SemaphoreInv, NoLostWakeup
    <3>5. value'[s] = value[s] + 1 /\ value[s] \in Nat
      BY <1>0, <1>3, SemaphoreAssumption DEF SemaphoreTypeOK
    <3>6. value'[s] <= Cardinality(WokenIn(s)')
      BY <3>3, <3>4, <3>5
    <3> QED BY <3>6 DEF CoveredOf
  <2> QED BY <2>1, <2>2
<1>8. ASSUME NEW p \in Semaphores, p # s
      PROVE  QueueExactOf(p)' /\ CoveredOf(p)'
  <2>1. queue'[p] = queue[p] /\ value'[p] = value[p]
    BY <1>0, <1>3, <1>8 DEF SemaphoreTypeOK
  <2> QED BY <1>2, <1>8, <2>1, SemaphoreFrame
<1> QED BY <1>5, <1>6, <1>7, <1>8, SemaphoreParts

\* Every step keeps the invariant.
LEMMA SemaphoreStep ==
  ASSUME SemaphoreInv, [SemaphoreNext]_semaphoreVars
  PROVE  SemaphoreInv'
<1>0. ThreadsInv'
  BY SemaphoreStepImplements, ThreadsStep DEF SemaphoreInv
<1>1. ASSUME NEW s \in Semaphores, P(s) \/ V(s) \/ IdleV(s)
      PROVE  SemaphoreInv'
  BY <1>0, <1>1, PInv, VInv
<1>2. CASE (ThreadStep \/ Finish) /\ UNCHANGED semVars
  <2>1. value' = value /\ queue' = queue
    BY <1>2 DEF semVars
  <2>2. \A s \in Semaphores : AsleepIn(s)' = AsleepIn(s) /\ WokenIn(s)' = WokenIn(s)
    BY <1>2, ThreadStepMoves, SemaphoreAssumption DEF SemaphoreInv
  <2>3. SemaphoreTypeOK'
    BY <2>1 DEF SemaphoreInv, SemaphoreTypeOK
  <2> QED BY <1>0, <2>1, <2>2, <2>3, SemaphoreFrame, SemaphoreParts
<1>3. CASE UNCHANGED semaphoreVars
  <2>1. UNCHANGED <<threadVars, value, queue>>
    BY <1>3 DEF semaphoreVars, semVars
  <2>2. \A s \in Semaphores : AsleepIn(s)' = AsleepIn(s) /\ WokenIn(s)' = WokenIn(s)
    BY <2>1 DEF threadVars, AsleepIn, WokenIn
  <2>3. SemaphoreTypeOK'
    BY <2>1 DEF SemaphoreInv, SemaphoreTypeOK
  <2> QED BY <1>0, <2>1, <2>2, <2>3, SemaphoreFrame, SemaphoreParts
<1> QED BY <1>1, <1>2, <1>3 DEF SemaphoreNext

\* The constructors make the invariant true: nobody waits.
LEMMA SemaphoreStart == SemaphoreInit => SemaphoreInv
<1> SUFFICES ASSUME SemaphoreInit PROVE SemaphoreInv
  OBVIOUS
<1>1. ThreadsInv
  BY ThreadsStart DEF SemaphoreInit
<1>2. SemaphoreTypeOK
  <2>1. <<>> \in Seq(Thread)
    OBVIOUS
  <2> QED BY <2>1, SemaphoreAssumption DEF SemaphoreInit, SemInit, SemaphoreTypeOK
<1>3. QueueExact
  <2>1. \A s \in Semaphores : AsleepIn(s) = {}
    BY DEF SemaphoreInit, ThreadsInit, AsleepIn
  <2> QED BY <2>1, HoldsNone DEF SemaphoreInit, SemInit, QueueExact, Holds
<1>4. NoLostWakeup
  BY DEF SemaphoreInit, SemInit, NoLostWakeup
<1> QED BY <1>1, <1>2, <1>3, <1>4 DEF SemaphoreInv

\* The invariant holds of every use of semaphores.
THEOREM SemaphoreSafe == SemaphoreSpec => []SemaphoreInv
BY SemaphoreStart, SemaphoreStep, PTL DEF SemaphoreSpec

\* The value of a semaphore is never negative, whoever overtakes whom in P.
THEOREM SemaphoreTyped == SemaphoreSpec => []SemaphoreTypeOK
BY SemaphoreSafe, PTL DEF SemaphoreInv

\* The queue of a semaphore and the threads asleep in its P always agree.
THEOREM SemaphoreQueueExact == SemaphoreSpec => []QueueExact
BY SemaphoreSafe, PTL DEF SemaphoreInv

\* No wakeup is lost: while threads wait in P, each unit of the value is
\* covered by a woken thread that will test it.
THEOREM SemaphoreNoLostWakeup == SemaphoreSpec => []NoLostWakeup
BY SemaphoreSafe, PTL DEF SemaphoreInv

\* P and V use the scheduler as it allows: V makes only sleeping threads
\* ready, and P puts only the current thread to sleep.
THEOREM SemaphoreImplementsThreads == SemaphoreSpec => ImplementsThreads
<1>1. SemaphoreInit => ThreadsInit
  BY DEF SemaphoreInit
<1> QED BY <1>1, SemaphoreSafe, SemaphoreStepImplements, PTL
  DEF SemaphoreSpec, ImplementsThreads, ThreadsSpec

=============================================================================
