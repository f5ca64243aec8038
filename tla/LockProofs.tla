----------------------------- MODULE LockProofs -----------------------------
(****************************************************************************)
(* Proofs about Lock, for any threads, locks and initial owners: Acquire    *)
(* and Release use the scheduler as it allows, and although a thread that   *)
(* waited never becomes the owner, no thread is left waiting.               *)
(****************************************************************************)
EXTENDS Lock, ThreadsProofs

\* What the invariant says of one lock.
QueueOf(l) == Holds(lockQueue[l], AsleepIn(l))
OwnedOf(l) == acquired[l] => owner[l] \in inside[l]
ServedOf(l) == lockQueue[l] # <<>> => inside[l] \cup WokenIn(l) # {}

\* The inductive invariant.  That nobody is stranded when a thread starts to
\* wait depends on OwnerInside (a busy lock has somebody inside), and that
\* Release wakes a thread that sleeps on LockQueueExact.
LockInv == ThreadsInv /\ LockTypeOK /\ LockQueueExact /\ OwnerInside /\ NoStrandedWaiter

\* LockQueueExact as the queue lemmas want it.
LEMMA LockQueueHolds ==
  ASSUME LockTypeOK, LockQueueExact, NEW l \in Locks
  PROVE  QueueOf(l)
BY HoldsRange DEF LockTypeOK, LockQueueExact, QueueOf

\* A step that leaves one lock and its threads alone leaves what the invariant
\* says of that lock.
LEMMA LockFrame ==
  ASSUME LockInv, NEW l \in Locks,
         acquired'[l] = acquired[l], owner'[l] = owner[l],
         lockQueue'[l] = lockQueue[l], inside'[l] = inside[l],
         AsleepIn(l)' = AsleepIn(l), WokenIn(l)' = WokenIn(l)
  PROVE  QueueOf(l)' /\ OwnedOf(l)' /\ ServedOf(l)'
BY LockQueueHolds
DEF LockInv, OwnerInside, NoStrandedWaiter, QueueOf, OwnedOf, ServedOf

\* The invariant from its parts.
LEMMA LockParts ==
  ASSUME ThreadsInv', LockTypeOK',
         \A l \in Locks : QueueOf(l)' /\ OwnedOf(l)' /\ ServedOf(l)'
  PROVE  LockInv'
BY DEF LockInv, LockQueueExact, OwnerInside, NoStrandedWaiter,
       QueueOf, OwnedOf, ServedOf, Holds

-----------------------------------------------------------------------------
\* Lock::Acquire, called from a thread's code or from inside an operation,
\* takes a step of the scheduler: Sleep, a return, or none.
LEMMA AcquireImplements ==
  ASSUME LockInv, NEW l \in Locks, Running,
         at[currentThread] \in {"code"} \cup Object,
         AcquireCall(l) \/ ReturnToCode
  PROVE  [ThreadsNext]_threadVars
<1>1. CASE Sleep(l, <<>>)
  <2>1. <<>> \in WakeOrders
    BY HoldsNone, HoldsWakeOrder
  <2> QED BY <1>1, <2>1, LockAssumption DEF ThreadsNext, Block
<1>2. CASE ReturnToCode /\ at[currentThread] = "code"
  BY <1>2 DEF ReturnToCode, threadVars, LockInv, ThreadsInv, ThreadsTypeOK
<1>3. CASE ReturnToCode /\ at[currentThread] \in Object
  BY <1>3 DEF ThreadsNext, Resume
<1> QED BY <1>1, <1>2, <1>3 DEF AcquireCall

\* The thread that Release takes off the queue sleeps.
LEMMA FirstWaiterSleeps ==
  ASSUME LockInv, NEW l \in Locks
  PROVE  /\ Range(First(lockQueue[l])) \subseteq AsleepIn(l)
         /\ Range(First(lockQueue[l])) \subseteq Asleep
         /\ First(lockQueue[l]) \in WakeOrders
<1>1. AsleepIn(l) \subseteq Asleep
  BY LockAssumption DEF Asleep
<1>2. Holds(lockQueue[l], AsleepIn(l))
  BY LockQueueHolds DEF LockInv, QueueOf
<1> QED BY <1>1, <1>2, HoldsFirst, HoldsWakeOrder

\* Lock::Release wakes a thread that sleeps, or nobody.
LEMMA ReleaseImplements ==
  ASSUME LockInv, NEW l \in Locks, Release(l)
  PROVE  [ThreadsNext]_threadVars
<1>1. Wake
  BY FirstWaiterSleeps DEF Release, Wake
<1> QED BY <1>1 DEF ThreadsNext

\* Every step of a lock is a step of the scheduler, or leaves the threads
\* alone.
LEMMA LockStepImplements ==
  ASSUME LockInv, [LockNext]_lockSpecVars
  PROVE  [ThreadsNext]_threadVars
<1>1. ASSUME NEW l \in Locks, LockStep(l)
      PROVE  [ThreadsNext]_threadVars
  BY <1>1, AcquireImplements, ReleaseImplements, LockAssumption
  DEF LockStep, Acquire, InCode, AcquireResumed, Resumed
<1>2. CASE ThreadStep \/ Finish
  BY <1>2 DEF ThreadsNext
<1>3. CASE UNCHANGED lockSpecVars
  BY <1>3 DEF lockSpecVars
<1> QED BY <1>1, <1>2, <1>3 DEF LockNext

-----------------------------------------------------------------------------
\* Lock::Acquire when it returns, at once or after its Sleep: the thread is
\* inside, which is all that those who wait need.  The caller may be inside an
\* operation of an object o that is not another lock (Condition::Wait is).
LEMMA EnterInv ==
  ASSUME LockInv, ThreadsInv', NEW l \in Locks,
         NEW o \in Object, o \notin Locks \ {l},
         Running, at[currentThread] \in {"code", o}, Enter(l), ReturnToCode,
         lockQueue' = lockQueue,
         \/ UNCHANGED <<acquired, owner>>
         \/ /\ owner' = [owner EXCEPT ![l] = currentThread]
            /\ acquired' = [acquired EXCEPT ![l] = TRUE]
  PROVE  LockInv'
<1>0. /\ l \in Object /\ ThreadsTypeOK /\ LockTypeOK /\ currentThread \in Thread
  BY LockAssumption DEF LockInv, ThreadsInv, ThreadsTypeOK
<1>1. inside' = [inside EXCEPT ![l] = @ \cup {currentThread}]
  BY DEF Enter
<1>2. /\ \A p \in Object : AsleepIn(p)' = AsleepIn(p)
      /\ \A p \in Object : p # o => WokenIn(p)' = WokenIn(p)
  BY <1>0, ReturnMoves
<1>3. LockTypeOK'
  BY <1>0, <1>1 DEF LockTypeOK
<1>4. inside'[l] = inside[l] \cup {currentThread}
  BY <1>0, <1>1 DEF LockTypeOK
<1>5. QueueOf(l)'
  BY <1>0, <1>2, LockQueueHolds DEF LockInv, QueueOf
<1>6. OwnedOf(l)'
  BY <1>0, <1>4 DEF LockInv, LockTypeOK, OwnerInside, OwnedOf
<1>7. ServedOf(l)'
  BY <1>4 DEF ServedOf
<1>8. ASSUME NEW p \in Locks, p # l
      PROVE  QueueOf(p)' /\ OwnedOf(p)' /\ ServedOf(p)'
  <2>1. /\ acquired'[p] = acquired[p] /\ owner'[p] = owner[p]
        /\ lockQueue'[p] = lockQueue[p] /\ inside'[p] = inside[p]
    BY <1>0, <1>1, <1>8 DEF LockTypeOK
  <2>2. AsleepIn(p)' = AsleepIn(p) /\ WokenIn(p)' = WokenIn(p)
    BY <1>2, <1>8, LockAssumption
  <2> QED BY <2>1, <2>2, LockFrame
<1> QED BY <1>3, <1>5, <1>6, <1>7, <1>8, LockParts

\* Lock::Acquire when it has to wait: the lock is busy, so its owner is
\* inside.
LEMMA AcquireWaitInv ==
  ASSUME LockInv, ThreadsInv', NEW l \in Locks,
         NEW o \in Object, o \notin Locks \ {l},
         Running, at[currentThread] \in {"code", o}, acquired[l],
         lockQueue' = [lockQueue EXCEPT ![l] = Append(@, currentThread)],
         Sleep(l, <<>>), UNCHANGED <<acquired, owner, inside>>
  PROVE  LockInv'
<1>0. /\ l \in Object /\ ThreadsTypeOK /\ LockTypeOK /\ currentThread \in Thread
      /\ status[currentThread] = "RUNNING"
  BY LockAssumption DEF Running, LockInv, ThreadsInv, ThreadsTypeOK
<1>1. /\ AsleepIn(l)' = AsleepIn(l) \cup {currentThread}
      /\ \A p \in Locks : p # l =>
           AsleepIn(p)' = AsleepIn(p) /\ WokenIn(p)' = WokenIn(p)
  <2>1. Range(<<>>) = {}
    BY HoldsNone DEF Holds
  <2>2. \A p \in Locks : p # l => currentThread \notin WokenIn(p)
    BY ThreadAssumption, LockAssumption DEF WokenIn, Place
  <2>3. \A p \in Object :
          /\ AsleepIn(p)' = AsleepIn(p) \cup (IF p = l THEN {currentThread} ELSE {})
          /\ WokenIn(p)' = WokenIn(p) \ {currentThread}
    BY <1>0, <2>1, SleepWakeMoves
  <2>4. AsleepIn(l)' = AsleepIn(l) \cup {currentThread}
    BY <1>0, <2>3
  <2>5. ASSUME NEW p \in Locks, p # l
        PROVE  AsleepIn(p)' = AsleepIn(p) /\ WokenIn(p)' = WokenIn(p)
    <3>1. /\ AsleepIn(p)' = AsleepIn(p) \cup {}
          /\ WokenIn(p)' = WokenIn(p) \ {currentThread}
          /\ currentThread \notin WokenIn(p)
      BY <2>2, <2>3, <2>5, LockAssumption
    <3> QED BY <3>1
  <2> QED BY <2>4, <2>5
<1>2. LockTypeOK'
  BY <1>0 DEF LockTypeOK
<1>3. QueueOf(l)'
  <2>1. currentThread \notin AsleepIn(l) /\ Holds(lockQueue[l], AsleepIn(l))
    BY <1>0, LockQueueHolds DEF AsleepIn, LockInv, QueueOf
  <2>2. Holds(Append(lockQueue[l], currentThread), AsleepIn(l) \cup {currentThread})
    BY <2>1, HoldsAppend
  <2> QED BY <1>0, <1>1, <2>2 DEF QueueOf, LockTypeOK
<1>4. OwnedOf(l)' /\ ServedOf(l)'
  BY DEF LockInv, OwnerInside, OwnedOf, ServedOf
<1>5. ASSUME NEW p \in Locks, p # l
      PROVE  QueueOf(p)' /\ OwnedOf(p)' /\ ServedOf(p)'
  <2>1. lockQueue'[p] = lockQueue[p]
    BY <1>0, <1>5 DEF LockTypeOK
  <2>2. AsleepIn(p)' = AsleepIn(p) /\ WokenIn(p)' = WokenIn(p)
    BY <1>1, <1>5
  <2> QED BY <2>1, <2>2, LockFrame
<1> QED BY <1>2, <1>3, <1>4, <1>5, LockParts

\* Lock::Acquire keeps the invariant.
LEMMA AcquireCallInv ==
  ASSUME LockInv, ThreadsInv', NEW l \in Locks,
         NEW o \in Object, o \notin Locks \ {l},
         Running, at[currentThread] \in {"code", o}, AcquireCall(l)
  PROVE  LockInv'
<1>1. CASE Sleep(l, <<>>) /\ acquired[l] /\ UNCHANGED <<acquired, owner, inside>>
           /\ lockQueue' = [lockQueue EXCEPT ![l] = Append(@, currentThread)]
  BY <1>1, AcquireWaitInv
<1>2. CASE Enter(l) /\ ReturnToCode /\ UNCHANGED <<acquired, owner, lockQueue>>
  BY <1>2, EnterInv
<1>3. CASE /\ Enter(l) /\ ReturnToCode /\ UNCHANGED lockQueue
           /\ owner' = [owner EXCEPT ![l] = currentThread]
           /\ acquired' = [acquired EXCEPT ![l] = TRUE]
  BY <1>3, EnterInv
<1> QED BY <1>1, <1>2, <1>3 DEF AcquireCall

\* Lock::Release, called from a thread's code or by Condition::Wait: whoever
\* leaves wakes the first waiter, who is then on its way in.
LEMMA FreeInv ==
  ASSUME LockInv, ThreadsInv', NEW l \in Locks, Free(l),
         AsleepIn(l)' = AsleepIn(l) \ Range(First(lockQueue[l])),
         WokenIn(l)' = WokenIn(l) \cup Range(First(lockQueue[l])),
         \A p \in Locks : p # l =>
           AsleepIn(p)' = AsleepIn(p) /\ WokenIn(p)' = WokenIn(p)
  PROVE  LockInv'
<1> DEFINE q == First(lockQueue[l])
<1>0. LockTypeOK /\ currentThread \in Thread
  BY DEF LockInv, ThreadsInv, ThreadsTypeOK
<1>1. /\ Holds(lockQueue[l], AsleepIn(l))
      /\ Range(q) \subseteq AsleepIn(l)
      /\ Holds(Rest(lockQueue[l]), AsleepIn(l) \ Range(q))
  BY LockQueueHolds, HoldsFirst DEF LockInv, QueueOf
<1>2. /\ lockQueue'[l] = Rest(lockQueue[l])
      /\ inside'[l] = inside[l] \ {currentThread}
      /\ acquired'[l] = (acquired[l] /\ ~isHeldByCurrentThread(l))
      /\ owner'[l] = IF isHeldByCurrentThread(l) THEN NULL ELSE owner[l]
  BY <1>0 DEF Free, LockTypeOK
<1>3. LockTypeOK'
  <2>1. Rest(lockQueue[l]) \in Seq(Thread)
    <3>1. AsleepIn(l) \ Range(q) \subseteq Thread
      BY DEF AsleepIn
    <3>2. Rest(lockQueue[l]) \in Seq(AsleepIn(l) \ Range(q))
      BY <1>1 DEF Holds
    <3> HIDE DEF q
    <3> QED BY <3>1, <3>2, SMT
  <2>2. acquired' \in [Locks -> BOOLEAN]
    BY <1>0, Zenon DEF Free, LockTypeOK
  <2>3. owner' \in [Locks -> Thread \cup {NULL} \cup OwnerInit]
    BY <1>0 DEF Free, LockTypeOK
  <2>4. /\ lockQueue' \in [Locks -> Seq(Thread)]
        /\ inside' \in [Locks -> SUBSET Thread]
    BY <1>0, <2>1 DEF Free, LockTypeOK
  <2> QED BY <2>2, <2>3, <2>4 DEF LockTypeOK
<1>4. QueueOf(l)'
  BY <1>1, <1>2 DEF QueueOf
<1>5. OwnedOf(l)'
  BY <1>2 DEF OwnedOf, LockInv, OwnerInside, isHeldByCurrentThread
<1>6. ServedOf(l)'
  <2>1. CASE lockQueue[l] = <<>>
    BY <1>2, <2>1 DEF ServedOf, Rest
  <2>2. CASE lockQueue[l] # <<>>
    <3>1. Range(q) = {Head(lockQueue[l])}
      BY <2>2, HoldsOne DEF Holds, First
    <3> QED BY <3>1 DEF ServedOf
  <2> QED BY <2>1, <2>2
<1>7. ASSUME NEW p \in Locks, p # l
      PROVE  QueueOf(p)' /\ OwnedOf(p)' /\ ServedOf(p)'
  <2>1. /\ acquired'[p] = acquired[p] /\ owner'[p] = owner[p]
        /\ lockQueue'[p] = lockQueue[p] /\ inside'[p] = inside[p]
    BY <1>0, <1>7 DEF Free, LockTypeOK
  <2> QED BY <1>7, <2>1, LockFrame
<1> QED BY <1>3, <1>4, <1>5, <1>6, <1>7, LockParts

\* Lock::Release keeps the invariant.
LEMMA ReleaseInv ==
  ASSUME LockInv, ThreadsInv', NEW l \in Locks, Release(l)
  PROVE  LockInv'
<1>1. /\ ThreadsTypeOK /\ Free(l)
      /\ status' = Readied(First(lockQueue[l])) /\ at' = at
  BY DEF Release, ReadyToRun, LockInv, ThreadsInv
<1> QED BY <1>1, FirstWaiterSleeps, WakeMoves, FreeInv

\* A step that changes no lock, and moves nobody in or out of one.
LEMMA LockUntouched ==
  ASSUME LockInv, ThreadsInv', UNCHANGED lockVars,
         \A l \in Locks : AsleepIn(l)' = AsleepIn(l) /\ WokenIn(l)' = WokenIn(l)
  PROVE  LockInv'
<1>1. LockTypeOK'
  BY DEF LockInv, LockTypeOK, lockVars
<1> QED BY <1>1, LockFrame, LockParts DEF lockVars

-----------------------------------------------------------------------------
\* Every step keeps the invariant.
LEMMA LockStepInv ==
  ASSUME LockInv, [LockNext]_lockSpecVars
  PROVE  LockInv'
<1>0. ThreadsInv'
  BY LockStepImplements, ThreadsStep DEF LockInv
<1>1. ASSUME NEW l \in Locks, AcquireResumed(l)
      PROVE  LockInv'
  BY <1>0, <1>1, EnterInv, LockAssumption DEF AcquireResumed, Resumed
<1>2. ASSUME NEW l \in Locks, Acquire(l)
      PROVE  LockInv'
  BY <1>0, <1>2, AcquireCallInv, LockAssumption DEF Acquire, InCode
<1>3. ASSUME NEW l \in Locks, Release(l)
      PROVE  LockInv'
  BY <1>0, <1>3, ReleaseInv
<1>4. CASE (ThreadStep \/ Finish) /\ UNCHANGED lockVars
  BY <1>0, <1>4, LockUntouched, ThreadStepMoves, LockAssumption DEF LockInv
<1>5. CASE UNCHANGED lockSpecVars
  BY <1>0, <1>5, LockUntouched DEF lockSpecVars, threadVars, AsleepIn, WokenIn
<1> QED BY <1>1, <1>2, <1>3, <1>4, <1>5 DEF LockNext, LockStep

\* The constructors make the invariant true: every lock is free, whatever its
\* owner field holds.
LEMMA LockStart == LockInit => LockInv
<1> SUFFICES ASSUME LockInit PROVE LockInv
  OBVIOUS
<1>1. ThreadsInv
  BY ThreadsStart DEF LockInit
<1>2. LockTypeOK
  <2>1. <<>> \in Seq(Thread)
    OBVIOUS
  <2> QED BY <2>1 DEF LockInit, LocksInit, LockTypeOK
<1>3. LockQueueExact
  <2>1. \A l \in Locks : AsleepIn(l) = {}
    BY DEF LockInit, ThreadsInit, AsleepIn
  <2> QED BY <2>1, HoldsNone DEF LockInit, LocksInit, LockQueueExact, Holds
<1>4. OwnerInside /\ NoStrandedWaiter
  BY DEF LockInit, LocksInit, OwnerInside, NoStrandedWaiter
<1> QED BY <1>1, <1>2, <1>3, <1>4 DEF LockInv

\* The invariant holds of every use of locks that keeps the convention of
\* synch.h.
THEOREM LockSafe == LockSpec => []LockInv
BY LockStart, LockStepInv, PTL DEF LockSpec

\* A busy lock has an owner, who is inside, whatever Lock::Lock left in owner.
THEOREM LockOwnerInside == LockSpec => []OwnerInside
BY LockSafe, PTL DEF LockInv

\* Nobody is stranded in Lock::Acquire: behind every waiting thread there is
\* one inside the lock or on its way in, whose Release will wake the next.
THEOREM LockNoStrandedWaiter == LockSpec => []NoStrandedWaiter
BY LockSafe, PTL DEF LockInv

\* Acquire and Release use the scheduler as it allows: Release makes only
\* sleeping threads ready, and Acquire puts only the current thread to sleep.
THEOREM LockImplementsThreads == LockSpec => ImplementsThreads
<1>1. LockInit => ThreadsInit
  BY DEF LockInit
<1> QED BY <1>1, LockSafe, LockStepImplements, PTL
  DEF LockSpec, ImplementsThreads, ThreadsSpec

=============================================================================
