----------------------------- MODULE SynchProofs -----------------------------
(****************************************************************************)
(* The routines of threads/synch.cc on the CPU, under the scheduler and its *)
(* time slices, implement the operations of Synch, for any number of        *)
(* threads and objects.                                                     *)
(****************************************************************************)
EXTENDS ClientsProofs

\* A thread that goes to sleep in an object is the only one that moves.
LEMMA SleepGoes ==
  ASSUME ThreadsTypeOK, NEW o \in Object, NEW q, Sleep(o, q)
  PROVE  In' = [In EXCEPT ![currentThread] = o]
BY DEF Sleep, In, ThreadsTypeOK

\* So is one that returns to its code.
LEMMA ReturnGoes ==
  ASSUME ThreadsTypeOK, ReturnToCode
  PROVE  In' = [In EXCEPT ![currentThread] = NULL]
<1>1. "code" \notin Object
  BY ThreadAssumption DEF Place
<1> QED BY <1>1 DEF ReturnToCode, In, ThreadsTypeOK

\* The scheduler's own steps do not show.
LEMMA SchedulingHidden ==
  ASSUME ThreadsInv, ThreadStep \/ Finish
  PROVE  In' = In
<1>1. ASSUME NEW t \in Thread, NEW o \in Object
      PROVE  at'[t] = o <=> at[t] = o
  BY <1>1, ThreadStepMoves, InOperation
<1> QED BY <1>1 DEF In

\* Where a thread that runs is.
LEMMA Whereabouts ==
  ASSUME ThreadsTypeOK
  PROVE  /\ currentThread \in Thread
         /\ InCode => In[currentThread] = NULL
         /\ \A o \in Object : Resumed(o) =>
              In[currentThread] = o /\ currentThread \notin AsleepIn(o)
<1>1. "code" \notin Object
  BY ThreadAssumption DEF Place
<1> QED BY <1>1 DEF InCode, Resumed, Running, In, AsleepIn, ThreadsTypeOK

-----------------------------------------------------------------------------
\* The helpers of Synch are those of Threads.
LEMMA SameOperators ==
  ASSUME NEW q
  PROVE  OffCPU!Range(q) = Range(q) /\ OffCPU!Rest(q) = Rest(q)
BY DEF OffCPU!Range, Range, OffCPU!Rest, Rest

\* Semaphore::P, called or resumed, is P of Synch.
LEMMA PIsP ==
  ASSUME SemaphoreInv, NEW s \in Semaphores, P(s), UNCHANGED <<lockVars, condVars>>
  PROVE  OffCPU!P(currentThread, s)
<1>0. /\ ThreadsTypeOK /\ SemaphoreTypeOK /\ s \in Object
      /\ Range(queue[s]) = AsleepIn(s)
  BY SemaphoreAssumption DEF SemaphoreInv, ThreadsInv, QueueExact
<1>1. \/ In[currentThread] = NULL
      \/ In[currentThread] = s /\ currentThread \notin Range(queue[s])
  BY <1>0, Whereabouts DEF P
<1>2. CASE value[s] = 0
  <2>1. /\ queue' = [queue EXCEPT ![s] = Append(@, currentThread)]
        /\ In' = [In EXCEPT ![currentThread] = s] /\ value' = value
    BY <1>0, <1>2, SleepGoes DEF P
  <2> QED BY <1>1, <1>2, <2>1, SameOperators
    DEF OffCPU!P, OffCPU!InCode, OffCPU!Goto, OffCPU!lockState,
        OffCPU!conditionState, lockVars, condVars
<1>3. CASE value[s] # 0
  <2>1. /\ value' = [value EXCEPT ![s] = @ - 1]
        /\ In' = [In EXCEPT ![currentThread] = NULL] /\ queue' = queue
    BY <1>0, <1>3, ReturnGoes DEF P
  <2> QED BY <1>1, <1>3, <2>1, SameOperators
    DEF OffCPU!P, OffCPU!InCode, OffCPU!Goto, OffCPU!lockState,
        OffCPU!conditionState, lockVars, condVars
<1> QED BY <1>2, <1>3

\* Semaphore::V, from a thread or from a handler, is V of Synch.
LEMMA VIsV ==
  ASSUME NEW s \in Semaphores, V(s) \/ IdleV(s), UNCHANGED <<lockVars, condVars>>
  PROVE  OffCPU!V(s)
<1>1. Up(s) /\ In' = In
  BY DEF V, IdleV, IdleWake, ReadyToRun, In
<1> QED BY <1>1, SameOperators
  DEF Up, OffCPU!V, OffCPU!lockState, OffCPU!conditionState, lockVars, condVars

-----------------------------------------------------------------------------
\* Lock::Acquire up to its Sleep or its return is AcquireCall of Synch.
LEMMA AcquireIsAcquire ==
  ASSUME LockInv, NEW l \in Locks, AcquireCall(l)
  PROVE  OffCPU!AcquireCall(currentThread, l)
<1>0. ThreadsTypeOK /\ LockTypeOK /\ l \in Object /\ currentThread \in Thread
  BY LockAssumption DEF LockInv, ThreadsInv, ThreadsTypeOK
<1>1. CASE owner[l] = currentThread
  <2>1. /\ inside' = [inside EXCEPT ![l] = @ \cup {currentThread}]
        /\ In' = [In EXCEPT ![currentThread] = NULL]
        /\ UNCHANGED <<acquired, owner, lockQueue>>
    BY <1>0, <1>1, ReturnGoes DEF AcquireCall, isHeldByCurrentThread, Enter
  <2>2. acquired' = [acquired EXCEPT ![l] = @ \/ owner[l] # currentThread]
    <3>1. acquired[l] = (acquired[l] \/ owner[l] # currentThread)
      BY <1>0, <1>1 DEF LockTypeOK
    <3> QED BY <1>0, <2>1, <3>1 DEF LockTypeOK
  <2>3. owner' = [owner EXCEPT ![l] = currentThread]
    BY <1>0, <1>1, <2>1 DEF LockTypeOK
  <2> QED BY <1>1, <2>1, <2>2, <2>3 DEF OffCPU!AcquireCall, OffCPU!Goto
<1>2. CASE owner[l] # currentThread /\ acquired[l]
  <2>1. /\ lockQueue' = [lockQueue EXCEPT ![l] = Append(@, currentThread)]
        /\ In' = [In EXCEPT ![currentThread] = l]
        /\ UNCHANGED <<acquired, owner, inside>>
    BY <1>0, <1>2, SleepGoes DEF AcquireCall, isHeldByCurrentThread
  <2> QED BY <1>2, <2>1 DEF OffCPU!AcquireCall, OffCPU!Goto
<1>3. CASE owner[l] # currentThread /\ ~acquired[l]
  <2>1. /\ owner' = [owner EXCEPT ![l] = currentThread]
        /\ acquired' = [acquired EXCEPT ![l] = TRUE]
        /\ inside' = [inside EXCEPT ![l] = @ \cup {currentThread}]
        /\ In' = [In EXCEPT ![currentThread] = NULL]
        /\ lockQueue' = lockQueue
    BY <1>0, <1>3, ReturnGoes DEF AcquireCall, isHeldByCurrentThread, Enter
  <2>2. (acquired[l] \/ owner[l] # currentThread) = TRUE
    BY <1>3
  <2> QED BY <1>3, <2>1, <2>2 DEF OffCPU!AcquireCall, OffCPU!Goto
<1> QED BY <1>1, <1>2, <1>3

\* The change that Lock::Release makes is Free of Synch.
LEMMA FreeIsFree ==
  ASSUME LockInv, NEW l \in Locks, Free(l)
  PROVE  OffCPU!Free(currentThread, l)
BY SameOperators DEF Free, OffCPU!Free, isHeldByCurrentThread

\* A step of a lock is a step of Synch.
LEMMA LockStepIsSynch ==
  ASSUME LockInv, NEW l \in Locks, LockStep(l), UNCHANGED <<semVars, condVars>>
  PROVE  OffCPU!SynchNext
<1>0. /\ ThreadsTypeOK /\ l \in Object /\ currentThread \in Thread
      /\ Range(lockQueue[l]) = AsleepIn(l)
      /\ UNCHANGED <<OffCPU!semaphoreState, OffCPU!conditionState>>
  BY LockAssumption DEF LockInv, ThreadsInv, ThreadsTypeOK, LockQueueExact,
     semVars, condVars, OffCPU!semaphoreState, OffCPU!conditionState
<1>1. CASE currentThread \notin inside[l] /\ Acquire(l)
  <2>1. In[currentThread] = NULL /\ OffCPU!AcquireCall(currentThread, l)
    BY <1>0, <1>1, Whereabouts, AcquireIsAcquire DEF Acquire
  <2>2. OffCPU!Acquire(currentThread, l)
    BY <1>0, <2>1 DEF OffCPU!Acquire, OffCPU!InCode
  <2> QED BY <1>0, <1>1, <2>2 DEF OffCPU!SynchNext, OffCPU!Call
<1>2. CASE AcquireResumed(l)
  <2>1. /\ In[currentThread] = l /\ currentThread \notin OffCPU!Range(lockQueue[l])
        /\ In' = [In EXCEPT ![currentThread] = NULL]
        /\ inside' = [inside EXCEPT ![l] = @ \cup {currentThread}]
        /\ UNCHANGED <<acquired, owner, lockQueue>>
    BY <1>0, <1>2, Whereabouts, ReturnGoes, SameOperators DEF AcquireResumed, Enter
  <2>2. OffCPU!AcquireResumed(currentThread, l)
    BY <1>0, <2>1 DEF OffCPU!AcquireResumed, OffCPU!Goto
  <2> QED BY <1>0, <2>2 DEF OffCPU!SynchNext, OffCPU!Resume
<1>3. CASE currentThread \in inside[l] /\ Release(l)
  <2>1. /\ In[currentThread] = NULL /\ OffCPU!Free(currentThread, l)
        /\ In' = In
    BY <1>0, <1>3, Whereabouts, FreeIsFree DEF Release, ReadyToRun, In
  <2>2. OffCPU!Release(currentThread, l)
    BY <1>0, <2>1 DEF OffCPU!Release, OffCPU!InCode
  <2> QED BY <1>0, <1>3, <2>2 DEF OffCPU!SynchNext, OffCPU!Call
<1> QED BY <1>1, <1>2, <1>3 DEF LockStep

\* A step of a condition is a step of Synch.
LEMMA ConditionStepIsSynch ==
  ASSUME ConditionInv, NEW c \in Conditions, ConditionStep(c), UNCHANGED semVars
  PROVE  OffCPU!SynchNext
<1>0. /\ LockInv /\ ThreadsTypeOK /\ ConditionTypeOK /\ c \in Object
      /\ currentThread \in Thread /\ Range(waitQueue[c]) = AsleepIn(c)
      /\ UNCHANGED OffCPU!semaphoreState
  BY ConditionObject DEF ConditionInv, LockInv, ThreadsInv, ThreadsTypeOK,
     WaitQueueExact, semVars, OffCPU!semaphoreState
<1>1. ASSUME NEW l \in Locks, currentThread \in inside[l], Wait(c, l)
      PROVE  OffCPU!SynchNext
  <2>0. In[currentThread] = NULL /\ (WaitRefused(c, l) <=> OffCPU!WaitRefused(c, l))
    BY <1>0, <1>1, Whereabouts, ConditionAssumption
    DEF Wait, WaitRefused, OffCPU!WaitRefused
  <2>1. OffCPU!Wait(currentThread, c, l)
    <3>1. CASE WaitRefused(c, l)
      <4>1. UNCHANGED <<OffCPU!lockState, OffCPU!conditionState, In>>
        BY <1>1, <3>1 DEF Wait, conditionVars, threadVars, lockVars, condVars, In,
           OffCPU!lockState, OffCPU!conditionState
      <4> QED BY <1>0, <2>0, <3>1, <4>1 DEF OffCPU!Wait, OffCPU!InCode
    <3>2. CASE ~WaitRefused(c, l)
      <4>1. OffCPU!Free(currentThread, l) /\ In' = [In EXCEPT ![currentThread] = c]
        BY <1>0, <1>1, <3>2, FreeIsFree, SleepGoes DEF Wait
      <4> QED BY <1>0, <1>1, <2>0, <3>2, <4>1
        DEF Wait, OffCPU!Wait, OffCPU!InCode, OffCPU!Goto
    <3> QED BY <3>1, <3>2
  <2> QED BY <1>0, <1>1, <2>1 DEF OffCPU!SynchNext, OffCPU!Call
<1>2. ASSUME NEW l \in Locks, currentThread \in inside[l], Signal(c, l)
      PROVE  OffCPU!SynchNext
  <2>1. /\ In[currentThread] = NULL /\ In' = In
        /\ UNCHANGED <<OffCPU!lockState, waitingLock, conditionLock>>
    BY <1>0, <1>2, Whereabouts
    DEF Signal, ReadyToRun, threadVars, lockVars, In, OffCPU!lockState
  <2>2. waitQueue' = [waitQueue EXCEPT ![c] =
                        IF waitingLock[c] = l THEN OffCPU!Rest(@) ELSE @]
    <3>1. CASE waitQueue[c] = <<>> \/ waitingLock[c] # l
      <4>1. waitQueue' = waitQueue
        BY <1>2, <3>1 DEF Signal
      <4>2. (IF waitingLock[c] = l THEN OffCPU!Rest(waitQueue[c]) ELSE waitQueue[c])
              = waitQueue[c]
        BY <3>1 DEF OffCPU!Rest
      <4> QED BY <1>0, <4>1, <4>2 DEF ConditionTypeOK
    <3>2. CASE ~(waitQueue[c] = <<>> \/ waitingLock[c] # l)
      BY <1>2, <3>2, SameOperators DEF Signal
    <3> QED BY <3>1, <3>2
  <2>3. OffCPU!Signal(currentThread, c, l)
    BY <1>0, <2>1, <2>2 DEF OffCPU!Signal, OffCPU!InCode
  <2> QED BY <1>0, <1>2, <2>3 DEF OffCPU!SynchNext, OffCPU!Call
<1>3. ASSUME NEW l \in Locks, currentThread \in inside[l], Broadcast(c)
      PROVE  OffCPU!SynchNext
  <2>1. /\ In[currentThread] = NULL /\ In' = In
        /\ waitQueue' = [waitQueue EXCEPT ![c] = <<>>]
        /\ UNCHANGED <<OffCPU!lockState, waitingLock, conditionLock>>
    BY <1>0, <1>3, Whereabouts
    DEF Broadcast, ReadyToRun, lockVars, In, OffCPU!lockState
  <2>2. OffCPU!Broadcast(currentThread, c)
    BY <1>0, <2>1 DEF OffCPU!Broadcast, OffCPU!InCode
  <2> QED BY <1>0, <1>3, <2>2 DEF OffCPU!SynchNext, OffCPU!Call
<1>4. CASE WaitResumed(c)
  <2>1. /\ In[currentThread] = c /\ currentThread \notin OffCPU!Range(waitQueue[c])
    BY <1>0, <1>4, Whereabouts, SameOperators DEF WaitResumed
  <2>2. OffCPU!AcquireCall(currentThread, conditionLock[currentThread])
    BY <1>0, <1>4, ResumedLock, AcquireIsAcquire DEF WaitResumed
  <2>3. OffCPU!WaitResumed(currentThread, c)
    BY <1>0, <1>4, <2>1, <2>2 DEF WaitResumed, OffCPU!WaitResumed
  <2> QED BY <1>0, <2>3 DEF OffCPU!SynchNext, OffCPU!Resume
<1> QED BY <1>1, <1>2, <1>3, <1>4 DEF ConditionStep

\* Every step is a step of Synch, or invisible.
LEMMA ClientsStepIsSynch ==
  ASSUME ClientsInv, [ClientsNext]_clientVars
  PROVE  [OffCPU!SynchNext]_(OffCPU!synchVars)
<1>0. /\ SemaphoreInv /\ ConditionInv /\ LockInv /\ ThreadsInv
      /\ MainThread \in Thread /\ currentThread \in Thread
  BY ThreadAssumption
  DEF ClientsInv, SemaphoreInv, ConditionInv, LockInv, ThreadsInv, ThreadsTypeOK
<1>1. ASSUME NEW s \in Semaphores, P(s), UNCHANGED <<lockVars, condVars>>
      PROVE  OffCPU!SynchNext
  BY <1>0, <1>1, PIsP DEF OffCPU!SynchNext, OffCPU!Call
<1>2. ASSUME NEW s \in Semaphores, V(s) \/ IdleV(s), UNCHANGED <<lockVars, condVars>>
      PROVE  OffCPU!SynchNext
  BY <1>0, <1>2, VIsV DEF OffCPU!SynchNext, OffCPU!Call
<1>3. ASSUME NEW l \in Locks, LockStep(l), UNCHANGED <<semVars, condVars>>
      PROVE  OffCPU!SynchNext
  BY <1>0, <1>3, LockStepIsSynch
<1>4. ASSUME NEW c \in Conditions, ConditionStep(c), UNCHANGED semVars
      PROVE  OffCPU!SynchNext
  BY <1>0, <1>4, ConditionStepIsSynch
<1>5. ASSUME In' = In, UNCHANGED <<semVars, lockVars, condVars>>
      PROVE  UNCHANGED OffCPU!synchVars
  BY <1>5 DEF OffCPU!synchVars, OffCPU!semaphoreState, OffCPU!lockState,
              OffCPU!conditionState, semVars, lockVars, condVars
<1>6. CASE (ThreadStep \/ Finish) /\ UNCHANGED <<semVars, lockVars, condVars>>
  BY <1>0, <1>5, <1>6, SchedulingHidden
<1>7. CASE UNCHANGED clientVars
  BY <1>5, <1>7 DEF clientVars, threadVars, In
<1> QED BY <1>1, <1>2, <1>3, <1>4, <1>6, <1>7 DEF ClientsNext

\* Initialize and the constructors start Synch, with every thread in its code.
LEMMA ClientsStartSynch == ClientsInit => OffCPU!SynchInit
<1> SUFFICES ASSUME ClientsInit PROVE OffCPU!SynchInit
  OBVIOUS
<1>1. In = [t \in Thread |-> NULL]
  BY ThreadAssumption DEF ClientsInit, ThreadsInit, In, Place
<1> QED BY <1>1
  DEF ClientsInit, SemInit, LocksInit, ConditionsInit, OffCPU!SynchInit

-----------------------------------------------------------------------------
\* The routines of synch.cc on the CPU implement Synch, on which the office,
\* the disk, the console and the post office are built: whatever the scheduler
\* and the time slices do, each step is one operation of one thread, or
\* invisible.
THEOREM ClientsImplementsSynch == ClientsSpec => ImplementsSynch
BY ClientsStartSynch, ClientsStepIsSynch, ClientsSafe, PTL
DEF ClientsSpec, ImplementsSynch, OffCPU!SynchSpec

=============================================================================
