---------------------------- MODULE ClientsProofs ----------------------------
(****************************************************************************)
(* Proofs about programs that use semaphores, locks and conditions side by  *)
(* side, for any number of threads and objects: no step of one object       *)
(* disturbs another.                                                        *)
(****************************************************************************)
EXTENDS Clients, SemaphoreProofs, ConditionProofs

\* The inductive invariant: what is proved of each kind of object.
ClientsInv == SemaphoreInv /\ ConditionInv

\* Initialize and the constructors make it true.
LEMMA ClientsStart == ClientsInit => ClientsInv
BY SemaphoreStart, ConditionStart
DEF ClientsInit, SemaphoreInit, ConditionInit, ClientsInv

-----------------------------------------------------------------------------
\* A step of one semaphore moves nobody in or out of another object.
LEMMA SemaphoreMoves ==
  ASSUME SemaphoreInv, NEW s \in Semaphores, P(s) \/ V(s) \/ IdleV(s),
         NEW o \in Object, o # s
  PROVE  AsleepIn(o)' = AsleepIn(o) /\ WokenIn(o)' = WokenIn(o)
<1>0. ThreadsTypeOK /\ s \in Object
  BY SemaphoreAssumption DEF SemaphoreInv, ThreadsInv
<1>1. CASE P(s)
  <2>1. Running /\ at[currentThread] \in {"code", s}
    BY <1>1 DEF P, InCode, Resumed
  <2> QED BY <1>0, <1>1, <2>1, SleepMoves, ReturnMoves DEF P
<1>2. CASE V(s) \/ IdleV(s)
  <2>1. status' = Readied(First(queue[s])) /\ at' = at
    BY <1>2 DEF V, IdleV, IdleWake, ReadyToRun
  <2>2. Range(First(queue[s])) \subseteq AsleepIn(s)
    BY QueueHolds, HoldsFirst DEF SemaphoreInv
  <2> QED BY <1>0, <2>1, <2>2, WakeMoves
<1> QED BY <1>1, <1>2

\* A step of a lock moves nobody in or out of a semaphore.
LEMMA LockMoves ==
  ASSUME LockInv, NEW l \in Locks, LockStep(l), NEW s \in Semaphores
  PROVE  AsleepIn(s)' = AsleepIn(s) /\ WokenIn(s)' = WokenIn(s)
<1>0. /\ ThreadsTypeOK /\ s \in Object /\ l \in Object /\ s # l
  BY SemaphoreAssumption, LockAssumption, ClientsAssumption DEF LockInv, ThreadsInv
<1>1. CASE Acquire(l) \/ AcquireResumed(l)
  <2>1. /\ Running /\ at[currentThread] \in {"code", l}
        /\ Sleep(l, <<>>) \/ ReturnToCode
    BY <1>1 DEF Acquire, AcquireCall, InCode, AcquireResumed, Resumed
  <2> QED BY <1>0, <2>1, SleepMoves, ReturnMoves
<1>2. CASE Release(l)
  <2>1. status' = Readied(First(lockQueue[l])) /\ at' = at
    BY <1>2 DEF Release, ReadyToRun
  <2> QED BY <1>0, <2>1, FirstWaiterSleeps, WakeMoves
<1> QED BY <1>1, <1>2 DEF LockStep

\* A step of a condition moves nobody in or out of a semaphore.
LEMMA ConditionMoves ==
  ASSUME ConditionInv, NEW c \in Conditions, ConditionStep(c), NEW s \in Semaphores
  PROVE  AsleepIn(s)' = AsleepIn(s) /\ WokenIn(s)' = WokenIn(s)
<1>0. /\ LockInv /\ ThreadsTypeOK /\ s \in Object /\ c \in Object
      /\ s # c /\ s \notin Locks /\ currentThread \in Thread
  BY SemaphoreAssumption, ConditionObject, ClientsAssumption
  DEF ConditionInv, LockInv, ThreadsInv, ThreadsTypeOK
<1>1. ASSUME NEW o \in Object, o # s, NEW q, Range(q) \subseteq Asleep,
             AsleepIn(s) \cap Range(q) = {}, Running, at[currentThread] # s, Sleep(o, q)
      PROVE  AsleepIn(s)' = AsleepIn(s) /\ WokenIn(s)' = WokenIn(s)
  <2>1. /\ AsleepIn(s)' = (AsleepIn(s) \ Range(q)) \cup {}
        /\ WokenIn(s)' = (WokenIn(s) \cup (AsleepIn(s) \cap Range(q))) \ {currentThread}
    BY <1>0, <1>1, SleepWakeMoves
  <2>2. currentThread \notin WokenIn(s)
    BY <1>1 DEF WokenIn
  <2> QED BY <1>1, <2>1, <2>2
<1>2. ASSUME NEW q, Range(q) \subseteq AsleepIn(c), ReadyToRun(q)
      PROVE  AsleepIn(s)' = AsleepIn(s) /\ WokenIn(s)' = WokenIn(s)
  BY <1>0, <1>2, WakeMoves DEF ReadyToRun
<1>3. CASE UNCHANGED threadVars
  BY <1>3 DEF threadVars, AsleepIn, WokenIn
<1>4. ASSUME NEW l \in Locks, Wait(c, l)
      PROVE  AsleepIn(s)' = AsleepIn(s) /\ WokenIn(s)' = WokenIn(s)
  <2>1. CASE UNCHANGED conditionVars
    BY <1>3, <2>1 DEF conditionVars
  <2>2. CASE Sleep(c, First(lockQueue[l]))
    <3>1. Range(First(lockQueue[l])) \subseteq Asleep
      BY <1>0, FirstWaiterSleeps
    <3>2. AsleepIn(s) \cap Range(First(lockQueue[l])) = {}
      <4>1. Range(First(lockQueue[l])) \subseteq AsleepIn(l) /\ s # l
        BY <1>0, FirstWaiterSleeps
      <4> QED BY <4>1 DEF AsleepIn
    <3>3. Running /\ at[currentThread] # s
      BY <1>0, <1>4, ThreadAssumption DEF Wait, InCode, Place
    <3> QED BY <1>0, <1>1, <2>2, <3>1, <3>2, <3>3
  <2> QED BY <1>4, <2>1, <2>2 DEF Wait
<1>5. ASSUME NEW l \in Locks, Signal(c, l)
      PROVE  AsleepIn(s)' = AsleepIn(s) /\ WokenIn(s)' = WokenIn(s)
  <2>1. UNCHANGED threadVars \/ ReadyToRun(First(waitQueue[c]))
    BY <1>5 DEF Signal
  <2> QED BY <1>2, <1>3, <2>1, WaitersSleep
<1>6. CASE Broadcast(c)
  BY <1>2, <1>6, WaitersSleep DEF Broadcast
<1>7. CASE WaitResumed(c)
  <2> DEFINE l == conditionLock[currentThread]
  <2>1. /\ l \in Locks /\ l \in Object /\ l # s /\ Running /\ at[currentThread] = c
        /\ Sleep(l, <<>>) \/ ReturnToCode
    BY <1>0, <1>7, ResumedLock, LockAssumption DEF WaitResumed, AcquireCall
  <2> HIDE DEF l
  <2>2. CASE Sleep(l, <<>>)
    <3>1. Range(<<>>) = {}
      BY HoldsNone DEF Holds
    <3> QED BY <1>0, <1>1, <2>1, <2>2, <3>1
  <2>3. CASE ReturnToCode
    BY <1>0, <2>1, <2>3, ReturnMoves
  <2> QED BY <2>1, <2>2, <2>3
<1> QED BY <1>4, <1>5, <1>6, <1>7 DEF ConditionStep

\* A step that changes no semaphore, and moves nobody in or out of one.
LEMMA SemaphoresUntouched ==
  ASSUME SemaphoreInv, ThreadsInv', UNCHANGED semVars,
         \A s \in Semaphores : AsleepIn(s)' = AsleepIn(s) /\ WokenIn(s)' = WokenIn(s)
  PROVE  SemaphoreInv'
<1>1. SemaphoreTypeOK'
  BY DEF SemaphoreInv, SemaphoreTypeOK, semVars
<1> QED BY <1>1, SemaphoreFrame, SemaphoreParts DEF semVars

\* A step that changes no lock or condition, and moves nobody in or out of one.
LEMMA MonitorsUntouched ==
  ASSUME ConditionInv, ThreadsInv', UNCHANGED <<lockVars, condVars>>,
         \A o \in Locks \cup Conditions :
           AsleepIn(o)' = AsleepIn(o) /\ WokenIn(o)' = WokenIn(o)
  PROVE  ConditionInv'
<1>1. LockInv'
  BY LockUntouched DEF ConditionInv
<1> QED BY <1>1, ConditionsKept DEF condVars

-----------------------------------------------------------------------------
\* Every step is one the scheduler allows.
LEMMA ClientsStepImplements ==
  ASSUME ClientsInv, [ClientsNext]_clientVars
  PROVE  [ThreadsNext]_threadVars
<1> USE DEF ClientsInv
<1>1. ASSUME NEW s \in Semaphores, P(s) \/ V(s) \/ IdleV(s)
      PROVE  [ThreadsNext]_threadVars
  BY <1>1, PImplements, VImplements
<1>2. ASSUME NEW l \in Locks, LockStep(l), UNCHANGED condVars
      PROVE  [ThreadsNext]_threadVars
  BY <1>2, ConditionStepImplements DEF ConditionNext, LockNext
<1>3. ASSUME NEW c \in Conditions, ConditionStep(c)
      PROVE  [ThreadsNext]_threadVars
  BY <1>3, ConditionStepImplements DEF ConditionNext
<1>4. CASE ThreadStep \/ Finish
  BY <1>4 DEF ThreadsNext
<1>5. CASE UNCHANGED clientVars
  BY <1>5 DEF clientVars
<1> QED BY <1>1, <1>2, <1>3, <1>4, <1>5 DEF ClientsNext

\* Every step keeps the invariant.
LEMMA ClientsStep ==
  ASSUME ClientsInv, [ClientsNext]_clientVars
  PROVE  ClientsInv'
<1> USE DEF ClientsInv
<1>0. ThreadsInv'
  BY ClientsStepImplements, ThreadsStep DEF SemaphoreInv
<1>1. ASSUME NEW s \in Semaphores, P(s) \/ V(s) \/ IdleV(s),
             UNCHANGED <<lockVars, condVars>>
      PROVE  ClientsInv'
  <2>1. SemaphoreInv'
    BY <1>1, SemaphoreStep DEF SemaphoreNext
  <2>2. \A o \in Locks \cup Conditions :
          AsleepIn(o)' = AsleepIn(o) /\ WokenIn(o)' = WokenIn(o)
    BY <1>1, SemaphoreMoves, ClientsAssumption, LockAssumption, ConditionAssumption
  <2> QED BY <1>0, <1>1, <2>1, <2>2, MonitorsUntouched
<1>2. ASSUME NEW l \in Locks, LockStep(l), UNCHANGED <<semVars, condVars>>
      PROVE  ClientsInv'
  <2>1. ConditionInv'
    BY <1>2, ConditionStepInv DEF ConditionNext, LockNext
  <2> QED BY <1>0, <1>2, <2>1, LockMoves, SemaphoresUntouched DEF ConditionInv
<1>3. ASSUME NEW c \in Conditions, ConditionStep(c), UNCHANGED semVars
      PROVE  ClientsInv'
  <2>1. ConditionInv'
    BY <1>3, ConditionStepInv DEF ConditionNext
  <2> QED BY <1>0, <1>3, <2>1, ConditionMoves, SemaphoresUntouched
<1>4. ASSUME UNCHANGED <<semVars, lockVars, condVars>>,
             \A o \in Object : AsleepIn(o)' = AsleepIn(o) /\ WokenIn(o)' = WokenIn(o)
      PROVE  ClientsInv'
  BY <1>0, <1>4, SemaphoresUntouched, MonitorsUntouched, SemaphoreAssumption,
     LockAssumption, ConditionAssumption
<1>5. CASE (ThreadStep \/ Finish) /\ UNCHANGED <<semVars, lockVars, condVars>>
  BY <1>4, <1>5, ThreadStepMoves DEF SemaphoreInv
<1>6. CASE UNCHANGED clientVars
  BY <1>4, <1>6 DEF clientVars, threadVars, AsleepIn, WokenIn
<1> QED BY <1>1, <1>2, <1>3, <1>5, <1>6 DEF ClientsNext

-----------------------------------------------------------------------------
\* The invariant holds of every program over synch.cc.
THEOREM ClientsSafe == ClientsSpec => []ClientsInv
BY ClientsStart, ClientsStep, PTL DEF ClientsSpec

\* What the objects record of the threads is true in every program: queues,
\* owners and sleepers agree.
THEOREM ClientsBooksRight == ClientsSpec => []BooksRight
<1>1. ClientsInv => BooksRight
  BY DEF ClientsInv, SemaphoreInv, ConditionInv, LockInv, BooksRight
<1> QED BY <1>1, ClientsSafe, PTL

\* No wakeup of a semaphore is lost in any program.
THEOREM ClientsNoLostWakeup == ClientsSpec => []NoLostWakeup
<1>1. ClientsInv => NoLostWakeup
  BY DEF ClientsInv, SemaphoreInv
<1> QED BY <1>1, ClientsSafe, PTL

\* Nobody is stranded in Lock::Acquire in any program.
THEOREM ClientsNoStrandedWaiter == ClientsSpec => []NoStrandedWaiter
<1>1. ClientsInv => NoStrandedWaiter
  BY DEF ClientsInv, ConditionInv, LockInv
<1> QED BY <1>1, ClientsSafe, PTL

\* All the threads in a Wait on one condition gave the same lock.
THEOREM ClientsSameLock == ClientsSpec => []SameLock
<1>1. ClientsInv => SameLock
  BY DEF ClientsInv, ConditionInv
<1> QED BY <1>1, ClientsSafe, PTL

\* The synchronization routines use the scheduler only as it allows.
THEOREM ClientsImplementsThreads == ClientsSpec => ImplementsThreads
<1>1. ClientsInit => ThreadsInit
  BY DEF ClientsInit
<1> QED BY <1>1, ClientsSafe, ClientsStepImplements, PTL
  DEF ClientsSpec, ImplementsThreads, ThreadsSpec

=============================================================================
