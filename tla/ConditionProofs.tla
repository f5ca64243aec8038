--------------------------- MODULE ConditionProofs ---------------------------
(****************************************************************************)
(* Proofs about Condition, for any threads, locks and condition variables,  *)
(* whatever the constructors left in owner and waitingLock: Wait, Signal    *)
(* and Broadcast use the scheduler as it allows, all waiters of a condition *)
(* gave the same lock, and no thread is left waiting for that lock.         *)
(****************************************************************************)
EXTENDS Condition, LockProofs

\* What the invariant says of one condition.
WaitersOf(c) == Holds(waitQueue[c], AsleepIn(c))
LockOf(c) == \A t \in Thread : at[t] = c =>
               conditionLock[t] = waitingLock[c] /\ conditionLock[t] \in Locks

\* A thread in a Wait has a lock to acquire when it goes on.
WaiterHasLock ==
  \A c \in Conditions, t \in Thread : at[t] = c => conditionLock[t] \in Locks

\* The inductive invariant.  SameLock is kept by Wait's test of waitingLock
\* only together with WaiterHasLock: a waitingLock of NULL means no waiters.
ConditionInv ==
  LockInv /\ ConditionTypeOK /\ WaitQueueExact /\ SameLock /\ WaiterHasLock

\* WaitQueueExact as the queue lemmas want it.
LEMMA WaitQueueHolds ==
  ASSUME ConditionTypeOK, WaitQueueExact, NEW c \in Conditions
  PROVE  WaitersOf(c)
BY HoldsRange DEF ConditionTypeOK, WaitQueueExact, WaitersOf

\* The threads in an operation of o are those asleep in it and those woken.
LEMMA InOperation ==
  ASSUME NEW o, NEW t \in Thread
  PROVE  /\ at[t] = o <=> t \in AsleepIn(o) \cup WokenIn(o)
         /\ (at[t] = o)' <=> t \in AsleepIn(o)' \cup WokenIn(o)'
BY DEF AsleepIn, WokenIn

\* Conditions are no locks and no places of the thread system.
LEMMA ConditionObject ==
  ASSUME NEW c \in Conditions
  PROVE  c \in Object /\ c \notin Locks /\ c # "code"
BY ConditionAssumption, ThreadAssumption DEF Place

\* A step that leaves a condition alone, where no thread comes to it, leaves
\* what the invariant says of it.
LEMMA ConditionFrame ==
  ASSUME ConditionInv, NEW c \in Conditions,
         waitQueue'[c] = waitQueue[c], waitingLock'[c] = waitingLock[c],
         AsleepIn(c)' = AsleepIn(c), WokenIn(c)' \subseteq WokenIn(c),
         \A t \in AsleepIn(c)' \cup WokenIn(c)' : conditionLock'[t] = conditionLock[t]
  PROVE  WaitersOf(c)' /\ LockOf(c)'
<1>1. WaitersOf(c)'
  BY WaitQueueHolds DEF ConditionInv, WaitersOf
<1>2. \A t \in Thread : at'[t] = c => at[t] = c /\ conditionLock'[t] = conditionLock[t]
  BY InOperation
<1>3. LockOf(c)'
  BY <1>2 DEF ConditionInv, SameLock, WaiterHasLock, LockOf
<1> QED BY <1>1, <1>3

\* The invariant from its parts.
LEMMA ConditionParts ==
  ASSUME LockInv', ConditionTypeOK',
         \A c \in Conditions : WaitersOf(c)' /\ LockOf(c)'
  PROVE  ConditionInv'
BY DEF ConditionInv, WaitQueueExact, SameLock, WaiterHasLock, WaitersOf, LockOf, Holds

-----------------------------------------------------------------------------
\* Condition::Wait as far as its Sleep is one step of the scheduler: the
\* thread it wakes sleeps in the lock's Acquire.
LEMMA WaitImplements ==
  ASSUME ConditionInv, NEW c \in Conditions, NEW l \in Locks, Wait(c, l)
  PROVE  [ThreadsNext]_threadVars
<1>1. CASE UNCHANGED conditionVars
  BY <1>1 DEF conditionVars
<1>2. CASE Sleep(c, First(lockQueue[l]))
  <2>1. c \in Object /\ First(lockQueue[l]) \in WakeOrders
    BY ConditionObject, FirstWaiterSleeps DEF ConditionInv
  <2> QED BY <1>2, <2>1 DEF Wait, InCode, ThreadsNext, Block
<1> QED BY <1>1, <1>2 DEF Wait

\* The lock that a resumed Wait acquires, and where that thread is.
LEMMA ResumedLock ==
  ASSUME ConditionInv, NEW c \in Conditions, WaitResumed(c)
  PROVE  /\ conditionLock[currentThread] \in Locks
         /\ currentThread \in Thread /\ Running /\ at[currentThread] = c
BY DEF WaitResumed, Resumed, ConditionInv, WaiterHasLock, LockInv, ThreadsInv,
       ThreadsTypeOK

\* The threads that Signal and Broadcast wake sleep in Wait.
LEMMA WaitersSleep ==
  ASSUME ConditionInv, NEW c \in Conditions
  PROVE  /\ Range(First(waitQueue[c])) \subseteq AsleepIn(c)
         /\ Range(waitQueue[c]) = AsleepIn(c)
         /\ Holds(Rest(waitQueue[c]), AsleepIn(c) \ Range(First(waitQueue[c])))
         /\ First(waitQueue[c]) \in WakeOrders
         /\ waitQueue[c] \in WakeOrders
<1>1. Holds(waitQueue[c], AsleepIn(c))
  BY WaitQueueHolds DEF ConditionInv, WaitersOf
<1>2. AsleepIn(c) \subseteq Asleep
  BY ConditionObject DEF Asleep
<1>3. /\ Range(First(waitQueue[c])) \subseteq AsleepIn(c)
      /\ Holds(First(waitQueue[c]), Range(First(waitQueue[c])))
      /\ Holds(Rest(waitQueue[c]), AsleepIn(c) \ Range(First(waitQueue[c])))
  BY <1>1, HoldsFirst
<1>4. Range(waitQueue[c]) = AsleepIn(c)
  BY <1>1 DEF Holds
<1>5. waitQueue[c] \in WakeOrders
  BY <1>1, <1>2, HoldsWakeOrder
<1>6. Range(First(waitQueue[c])) \subseteq Asleep
  BY <1>2, <1>3
<1>7. First(waitQueue[c]) \in WakeOrders
  BY <1>3, <1>6, HoldsWakeOrder
<1> QED BY <1>3, <1>4, <1>5, <1>7

\* Every step of a condition is a step of the scheduler, or leaves the threads
\* alone.
LEMMA ConditionStepImplements ==
  ASSUME ConditionInv, [ConditionNext]_conditionVars
  PROVE  [ThreadsNext]_threadVars
<1>0. LockInv
  BY DEF ConditionInv
<1>1. ASSUME NEW c \in Conditions, ConditionStep(c)
      PROVE  [ThreadsNext]_threadVars
  <2>1. ASSUME NEW l \in Locks, Wait(c, l)
        PROVE  [ThreadsNext]_threadVars
    BY <2>1, WaitImplements
  <2>2. ASSUME NEW l \in Locks, Signal(c, l)
        PROVE  [ThreadsNext]_threadVars
    <3>1. CASE UNCHANGED threadVars
      BY <3>1
    <3>2. CASE ReadyToRun(First(waitQueue[c])) /\ UNCHANGED idling
      BY <2>2, <3>2, WaitersSleep DEF Signal, ThreadsNext, Wake
    <3> QED BY <2>2, <3>1, <3>2 DEF Signal
  <2>3. CASE Broadcast(c)
    BY <2>3, WaitersSleep DEF Broadcast, ThreadsNext, Wake
  <2>4. CASE WaitResumed(c)
    BY <1>0, <2>4, ResumedLock, ConditionObject, AcquireImplements DEF WaitResumed
  <2> QED BY <1>1, <2>1, <2>2, <2>3, <2>4 DEF ConditionStep
<1>2. CASE LockNext
  BY <1>0, <1>2, LockStepImplements
<1>3. CASE UNCHANGED conditionVars
  BY <1>3 DEF conditionVars
<1> QED BY <1>1, <1>2, <1>3 DEF ConditionNext

-----------------------------------------------------------------------------
\* Condition::Wait as far as its Sleep: it releases the lock, wakes the first
\* that waits there, and sleeps as the last of the condition's queue.
LEMMA WaitInv ==
  ASSUME ConditionInv, ThreadsInv', NEW c \in Conditions, NEW l \in Locks, InCode,
         ~WaitRefused(c, l), waitingLock' = [waitingLock EXCEPT ![c] = l],
         Free(l), waitQueue' = [waitQueue EXCEPT ![c] = Append(@, currentThread)],
         conditionLock' = [conditionLock EXCEPT ![currentThread] = l],
         Sleep(c, First(lockQueue[l]))
  PROVE  ConditionInv'
<1> DEFINE q == First(lockQueue[l])
<1>0. /\ LockInv /\ ConditionTypeOK /\ ThreadsTypeOK /\ Running
      /\ currentThread \in Thread /\ status[currentThread] = "RUNNING"
      /\ at[currentThread] = "code"
      /\ c \in Object /\ l \in Object /\ c # l
  BY ConditionObject, LockAssumption
  DEF ConditionInv, LockInv, ThreadsInv, ThreadsTypeOK, InCode, Running
<1>1. /\ Range(q) \subseteq AsleepIn(l) /\ Range(q) \subseteq Asleep
  BY <1>0, FirstWaiterSleeps
<1>2. \A p \in Object :
        /\ AsleepIn(p)' = (AsleepIn(p) \ Range(q))
                            \cup (IF p = c THEN {currentThread} ELSE {})
        /\ WokenIn(p)' = (WokenIn(p) \cup (AsleepIn(p) \cap Range(q))) \ {currentThread}
  BY <1>0, <1>1, SleepWakeMoves
<1>3. \A p \in Object : currentThread \notin WokenIn(p) \cup AsleepIn(p)
  BY <1>0, ThreadAssumption DEF WokenIn, AsleepIn, Place
<1>4. \A p \in Object : p # l => AsleepIn(p) \cap Range(q) = {}
  BY <1>1 DEF AsleepIn
<1> HIDE DEF q
<1>5. AsleepIn(l)' = AsleepIn(l) \ Range(q) /\ WokenIn(l)' = WokenIn(l) \cup Range(q)
  BY <1>0, <1>1, <1>2, <1>3
<1>6. \A p \in Object : p # l /\ p # c =>
        AsleepIn(p)' = AsleepIn(p) /\ WokenIn(p)' = WokenIn(p)
  <2> SUFFICES ASSUME NEW p \in Object, p # l, p # c
               PROVE  AsleepIn(p)' = AsleepIn(p) /\ WokenIn(p)' = WokenIn(p)
    OBVIOUS
  <2>1. /\ AsleepIn(p)' = (AsleepIn(p) \ Range(q)) \cup {}
        /\ WokenIn(p)' = (WokenIn(p) \cup (AsleepIn(p) \cap Range(q))) \ {currentThread}
    BY <1>2
  <2> QED BY <1>3, <1>4, <2>1
<1>7. AsleepIn(c)' = AsleepIn(c) \cup {currentThread} /\ WokenIn(c)' = WokenIn(c)
  <2>1. /\ AsleepIn(c)' = (AsleepIn(c) \ Range(q)) \cup {currentThread}
        /\ WokenIn(c)' = (WokenIn(c) \cup (AsleepIn(c) \cap Range(q))) \ {currentThread}
    BY <1>0, <1>2
  <2>2. AsleepIn(c) \cap Range(q) = {} /\ currentThread \notin WokenIn(c)
    BY <1>0, <1>3, <1>4
  <2> QED BY <2>1, <2>2
<1>8. LockInv'
  <2>1. \A p \in Locks : p # l =>
          AsleepIn(p)' = AsleepIn(p) /\ WokenIn(p)' = WokenIn(p)
    BY <1>6, ConditionObject, LockAssumption
  <2> QED BY <1>0, <1>5, <2>1, FreeInv DEF q
<1>9. ConditionTypeOK'
  BY <1>0 DEF ConditionTypeOK
<1>10. WaitersOf(c)'
  <2>1. Holds(waitQueue[c], AsleepIn(c)) /\ currentThread \notin AsleepIn(c)
    BY <1>0, <1>3, WaitQueueHolds DEF ConditionInv, WaitersOf
  <2>2. Holds(Append(waitQueue[c], currentThread), AsleepIn(c) \cup {currentThread})
    BY <2>1, HoldsAppend
  <2> QED BY <1>0, <1>7, <2>2 DEF WaitersOf, ConditionTypeOK
<1>11. LockOf(c)'
  <2>1. waitingLock'[c] = l /\ waitingLock[c] \in {NULL, l}
    BY <1>0 DEF ConditionTypeOK, WaitRefused
  <2>2. ASSUME NEW t \in Thread, at'[t] = c, t # currentThread
        PROVE  conditionLock'[t] = l
    <3>1. at[t] = c
      BY <1>0, <2>2 DEF Sleep, ThreadsTypeOK
    <3>2. conditionLock[t] = waitingLock[c] /\ conditionLock[t] \in Locks
      BY <3>1 DEF ConditionInv, SameLock, WaiterHasLock
    <3>3. conditionLock'[t] = conditionLock[t]
      BY <1>0, <2>2 DEF ConditionTypeOK
    <3> QED BY <2>1, <3>2, <3>3, ConditionAssumption
  <2>3. conditionLock'[currentThread] = l
    BY <1>0 DEF ConditionTypeOK
  <2> QED BY <2>1, <2>2, <2>3 DEF LockOf
<1>12. ASSUME NEW d \in Conditions, d # c
       PROVE  WaitersOf(d)' /\ LockOf(d)'
  <2>1. waitQueue'[d] = waitQueue[d] /\ waitingLock'[d] = waitingLock[d]
    BY <1>0, <1>12 DEF ConditionTypeOK
  <2>2. AsleepIn(d)' = AsleepIn(d) /\ WokenIn(d)' = WokenIn(d)
    BY <1>6, <1>12, ConditionObject
  <2>3. \A t \in AsleepIn(d)' \cup WokenIn(d)' : conditionLock'[t] = conditionLock[t]
    <3>1. currentThread \notin AsleepIn(d) \cup WokenIn(d)
      BY <1>3, ConditionObject
    <3>2. AsleepIn(d) \cup WokenIn(d) \subseteq Thread
      BY DEF AsleepIn, WokenIn
    <3> QED BY <1>0, <2>2, <3>1, <3>2 DEF ConditionTypeOK
  <2> QED BY <2>1, <2>2, <2>3, ConditionFrame
<1> QED BY <1>8, <1>9, <1>10, <1>11, <1>12, ConditionParts

\* Lock::Acquire, and its return, take the current thread out of the operation
\* it was in, and otherwise change only who is at the lock.
LEMMA AcquireMoves ==
  ASSUME ThreadsTypeOK, Running, NEW l \in Locks, AcquireCall(l) \/ ReturnToCode,
         NEW c \in Conditions
  PROVE  AsleepIn(c)' = AsleepIn(c) /\ WokenIn(c)' = WokenIn(c) \ {currentThread}
<1>0. /\ c \in Object /\ c # l /\ c # "code" /\ l \in Object
      /\ currentThread \in Thread /\ status[currentThread] = "RUNNING"
  BY ConditionObject, LockAssumption DEF Running, ThreadsTypeOK
<1>1. CASE Sleep(l, <<>>)
  <2>1. Range(<<>>) = {}
    BY HoldsNone DEF Holds
  <2>2. /\ AsleepIn(c)' = (AsleepIn(c) \ {}) \cup (IF c = l THEN {currentThread} ELSE {})
        /\ WokenIn(c)' = (WokenIn(c) \cup (AsleepIn(c) \cap {})) \ {currentThread}
    BY <1>0, <1>1, <2>1, SleepWakeMoves
  <2> QED BY <1>0, <2>2
<1>2. CASE ReturnToCode
  BY <1>0, <1>2 DEF ReturnToCode, AsleepIn, WokenIn, ThreadsTypeOK
<1> QED BY <1>1, <1>2 DEF AcquireCall

\* A step that brings nobody into a Wait and changes the record of no thread
\* that stays in one keeps what the invariant says of the conditions.
LEMMA ConditionsKept ==
  ASSUME ConditionInv, LockInv', UNCHANGED <<waitQueue, waitingLock>>,
         \/ UNCHANGED conditionLock
         \/ conditionLock' = [conditionLock EXCEPT ![currentThread] = NULL],
         conditionLock' # conditionLock => Running,
         \A c \in Conditions :
           /\ AsleepIn(c)' = AsleepIn(c)
           /\ WokenIn(c)' \subseteq WokenIn(c)
           /\ conditionLock' # conditionLock => currentThread \notin WokenIn(c)'
  PROVE  ConditionInv'
<1>0. ConditionTypeOK
  BY DEF ConditionInv
<1>1. ConditionTypeOK'
  BY <1>0 DEF ConditionTypeOK
<1>2. ASSUME NEW c \in Conditions
      PROVE  WaitersOf(c)' /\ LockOf(c)'
  <2>1. ASSUME NEW t \in AsleepIn(c)' \cup WokenIn(c)'
        PROVE  conditionLock'[t] = conditionLock[t]
    <3>1. CASE UNCHANGED conditionLock
      BY <3>1
    <3>2. CASE conditionLock' # conditionLock
      <4>1. t # currentThread
        BY <1>2, <2>1, <3>2 DEF AsleepIn, Running
      <4>2. t \in Thread
        BY <2>1 DEF AsleepIn, WokenIn
      <4> QED BY <1>0, <3>2, <4>1, <4>2 DEF ConditionTypeOK
    <3> QED BY <3>1, <3>2
  <2> QED BY <1>2, <2>1, ConditionFrame
<1> QED BY <1>1, <1>2, ConditionParts

\* Condition::Wait after its Sleep.
LEMMA WaitResumedInv ==
  ASSUME ConditionInv, ThreadsInv', NEW c \in Conditions, WaitResumed(c)
  PROVE  ConditionInv'
<1> DEFINE l == conditionLock[currentThread]
<1>1. /\ l \in Locks /\ AcquireCall(l) /\ Running /\ at[currentThread] = c
      /\ LockInv /\ ThreadsTypeOK /\ c \in Object /\ c \notin Locks \ {l}
  BY ResumedLock, ConditionObject DEF WaitResumed, ConditionInv, LockInv, ThreadsInv
<1> HIDE DEF l
<1>2. LockInv'
  BY <1>1, AcquireCallInv
<1>3. \A d \in Conditions :
        AsleepIn(d)' = AsleepIn(d) /\ WokenIn(d)' = WokenIn(d) \ {currentThread}
  BY <1>1, AcquireMoves
<1>4. /\ UNCHANGED <<waitQueue, waitingLock>>
      /\ conditionLock' = [conditionLock EXCEPT ![currentThread] = NULL]
  BY DEF WaitResumed
<1> QED BY <1>1, <1>2, <1>3, <1>4, ConditionsKept

\* Condition::Signal and Condition::Broadcast wake a part of the queue and
\* keep the rest.
LEMMA WakeWaitersInv ==
  ASSUME ConditionInv, ThreadsInv', NEW c \in Conditions, NEW q, NEW rest,
         Range(q) \subseteq AsleepIn(c), Holds(rest, AsleepIn(c) \ Range(q)),
         waitQueue' = [waitQueue EXCEPT ![c] = rest], ReadyToRun(q),
         UNCHANGED <<lockVars, waitingLock, conditionLock>>
  PROVE  ConditionInv'
<1>0. /\ LockInv /\ ThreadsTypeOK /\ ConditionTypeOK
      /\ status' = Readied(q) /\ at' = at
  BY DEF ConditionInv, LockInv, ThreadsInv, ReadyToRun
<1>1. /\ AsleepIn(c)' = AsleepIn(c) \ Range(q)
      /\ \A p : p # c => AsleepIn(p)' = AsleepIn(p) /\ WokenIn(p)' = WokenIn(p)
  BY <1>0, WakeMoves
<1>2. LockInv'
  BY <1>0, <1>1, ConditionObject, LockUntouched
<1>3. ConditionTypeOK'
  <2>1. AsleepIn(c) \ Range(q) \subseteq Thread
    BY DEF AsleepIn
  <2>2. rest \in Seq(Thread)
    BY <2>1, SMT DEF Holds
  <2> QED BY <1>0, <2>2 DEF ConditionTypeOK
<1>4. WaitersOf(c)'
  BY <1>0, <1>1 DEF WaitersOf, ConditionTypeOK
<1>5. LockOf(c)'
  BY <1>0 DEF ConditionInv, SameLock, WaiterHasLock, LockOf
<1>6. ASSUME NEW d \in Conditions, d # c
      PROVE  WaitersOf(d)' /\ LockOf(d)'
  <2>1. waitQueue'[d] = waitQueue[d]
    BY <1>0, <1>6 DEF ConditionTypeOK
  <2>2. AsleepIn(d)' = AsleepIn(d) /\ WokenIn(d)' = WokenIn(d)
    BY <1>1, <1>6
  <2> QED BY <2>1, <2>2, ConditionFrame
<1> QED BY <1>2, <1>3, <1>4, <1>5, <1>6, ConditionParts

\* Condition::Signal keeps the invariant.
LEMMA SignalInv ==
  ASSUME ConditionInv, ThreadsInv', NEW c \in Conditions, NEW l \in Locks, Signal(c, l),
         ~UNCHANGED conditionVars
  PROVE  ConditionInv'
<1>1. /\ waitQueue' = [waitQueue EXCEPT ![c] = Rest(waitQueue[c])]
      /\ ReadyToRun(First(waitQueue[c]))
      /\ UNCHANGED <<lockVars, waitingLock, conditionLock>>
  BY DEF Signal, conditionVars, condVars
<1> QED BY <1>1, WaitersSleep, WakeWaitersInv

\* Condition::Broadcast keeps the invariant.
LEMMA BroadcastInv ==
  ASSUME ConditionInv, ThreadsInv', NEW c \in Conditions, Broadcast(c)
  PROVE  ConditionInv'
<1>1. Range(waitQueue[c]) = AsleepIn(c)
  BY WaitersSleep
<1>2. AsleepIn(c) \ Range(waitQueue[c]) = {}
  BY <1>1
<1>3. Holds(<<>>, AsleepIn(c) \ Range(waitQueue[c]))
  BY <1>2, HoldsNone
<1> QED BY <1>1, <1>3, WakeWaitersInv DEF Broadcast

\* A step of a lock or of the scheduler keeps the invariant.
LEMMA LockNextInv ==
  ASSUME ConditionInv, ThreadsInv', LockNext, UNCHANGED condVars
  PROVE  ConditionInv'
<1>0. LockInv /\ ThreadsInv /\ ThreadsTypeOK
  BY DEF ConditionInv, LockInv, ThreadsInv
<1>1. LockInv'
  BY <1>0, LockStepInv
<1>2. \A c \in Conditions : AsleepIn(c)' = AsleepIn(c) /\ WokenIn(c)' \subseteq WokenIn(c)
  <2>1. ASSUME NEW l \in Locks, LockStep(l), NEW c \in Conditions
        PROVE  AsleepIn(c)' = AsleepIn(c) /\ WokenIn(c)' \subseteq WokenIn(c)
    <3>1. CASE Acquire(l) \/ AcquireResumed(l)
      <4>1. Running /\ (AcquireCall(l) \/ ReturnToCode)
        BY <3>1 DEF Acquire, InCode, AcquireResumed, Resumed
      <4> QED BY <1>0, <2>1, <4>1, AcquireMoves
    <3>2. CASE Release(l)
      <4>1. status' = Readied(First(lockQueue[l])) /\ at' = at
        BY <3>2 DEF Release, ReadyToRun
      <4>2. c # l
        BY <2>1, ConditionObject
      <4> QED BY <1>0, <2>1, <4>1, <4>2, FirstWaiterSleeps, WakeMoves
    <3> QED BY <2>1, <3>1, <3>2 DEF LockStep
  <2>2. ASSUME ThreadStep \/ Finish, NEW c \in Conditions
        PROVE  AsleepIn(c)' = AsleepIn(c) /\ WokenIn(c)' \subseteq WokenIn(c)
    BY <1>0, <2>2, ThreadStepMoves, ConditionObject
  <2> QED BY <2>1, <2>2 DEF LockNext
<1> QED BY <1>1, <1>2, ConditionsKept DEF condVars

-----------------------------------------------------------------------------
\* Every step keeps the invariant.
LEMMA ConditionStepInv ==
  ASSUME ConditionInv, [ConditionNext]_conditionVars
  PROVE  ConditionInv'
<1>0. ThreadsInv'
  BY ConditionStepImplements, ThreadsStep DEF ConditionInv, LockInv
<1>1. CASE UNCHANGED conditionVars
  <2>1. UNCHANGED lockSpecVars /\ UNCHANGED condVars /\ at' = at /\ status' = status
    BY <1>1 DEF conditionVars, lockSpecVars, threadVars
  <2>2. LockInv'
    BY <2>1, LockStepInv DEF ConditionInv
  <2>3. \A c \in Conditions : AsleepIn(c)' = AsleepIn(c) /\ WokenIn(c)' = WokenIn(c)
    BY <2>1 DEF AsleepIn, WokenIn
  <2> QED BY <2>1, <2>2, <2>3, ConditionsKept DEF condVars
<1>2. ASSUME NEW c \in Conditions, NEW l \in Locks, Wait(c, l)
      PROVE  ConditionInv'
  <2>1. CASE WaitRefused(c, l)
    BY <1>1, <1>2, <2>1 DEF Wait
  <2>2. CASE ~WaitRefused(c, l)
    BY <1>0, <1>2, <2>2, WaitInv DEF Wait
  <2> QED BY <2>1, <2>2
<1>3. ASSUME NEW c \in Conditions, NEW l \in Locks, Signal(c, l)
      PROVE  ConditionInv'
  BY <1>0, <1>1, <1>3, SignalInv
<1>4. ASSUME NEW c \in Conditions, Broadcast(c) \/ WaitResumed(c)
      PROVE  ConditionInv'
  BY <1>0, <1>4, BroadcastInv, WaitResumedInv
<1>5. CASE LockNext /\ UNCHANGED condVars
  BY <1>0, <1>5, LockNextInv
<1> QED BY <1>1, <1>2, <1>3, <1>4, <1>5 DEF ConditionNext, ConditionStep

\* The constructors make the invariant true, whatever waitingLock holds.
LEMMA ConditionStart == ConditionInit => ConditionInv
<1> SUFFICES ASSUME ConditionInit PROVE ConditionInv
  OBVIOUS
<1>1. LockInv
  BY LockStart DEF ConditionInit, LockInit
<1>2. ConditionTypeOK
  <2>1. <<>> \in Seq(Thread)
    OBVIOUS
  <2> QED BY <2>1 DEF ConditionInit, ConditionsInit, ConditionTypeOK
<1>3. \A c \in Conditions, t \in Thread : at[t] # c
  BY ConditionAssumption, ThreadAssumption
  DEF ConditionInit, ThreadsInit, Place
<1>4. WaitQueueExact
  <2>1. \A c \in Conditions : AsleepIn(c) = {}
    BY <1>3 DEF AsleepIn
  <2> QED BY <2>1, HoldsNone DEF ConditionInit, ConditionsInit, WaitQueueExact, Holds
<1> QED BY <1>1, <1>2, <1>3, <1>4 DEF ConditionInv, SameLock, WaiterHasLock

\* The invariant holds of every use of conditions that keeps the convention of
\* synch.h.
THEOREM ConditionSafe == ConditionSpec => []ConditionInv
BY ConditionStart, ConditionStepInv, PTL DEF ConditionSpec

\* All the threads in a Wait on one condition gave the lock that the condition
\* remembers, whatever the constructor left there: Signal's test never refuses
\* the lock of a waiter.
THEOREM ConditionSameLock == ConditionSpec => []SameLock
BY ConditionSafe, PTL DEF ConditionInv

\* Wait, which releases the lock and later calls Acquire from inside its own
\* operation, strands nobody in Acquire either.
THEOREM ConditionNoStrandedWaiter == ConditionSpec => []NoStrandedWaiter
BY ConditionSafe, PTL DEF ConditionInv, LockInv

\* Monitors use the scheduler as it allows: what they wake sleeps, on the lock
\* or on the condition, and only the current thread goes to sleep.
THEOREM ConditionImplementsThreads == ConditionSpec => ImplementsThreads
<1>1. ConditionInit => ThreadsInit
  BY DEF ConditionInit
<1> QED BY <1>1, ConditionSafe, ConditionStepImplements, PTL
  DEF ConditionSpec, ImplementsThreads, ThreadsSpec

=============================================================================
