--------------------------------- MODULE Lock ---------------------------------
(****************************************************************************)
(* Locks (threads/synch.cc).  A thread is inside a lock from the return of  *)
(* Acquire to its call of Release: that is what a caller believes, and the  *)
(* code keeps no record of it (acquired and owner are something else).      *)
(****************************************************************************)
EXTENDS Threads

CONSTANTS
  Locks,      \* the locks of the program
  OwnerInit   \* what owner may hold after the constructor, which does not
              \* set it: NULL in a lock with static storage, any stale
              \* pointer in one that new allocated

ASSUME LockAssumption ==
  /\ Locks \subseteq Object
  /\ OwnerInit # {}

VARIABLES
  acquired,   \* Lock::acquired
  owner,      \* Lock::owner
  lockQueue,  \* Lock::queue, the threads waiting in Acquire
  inside      \* auxiliary: the threads between Acquire and Release

lockVars == <<acquired, owner, lockQueue, inside>>
lockSpecVars == <<threadVars, lockVars>>

\* The values the fields take, whatever the constructor left in owner.
LockTypeOK ==
  /\ acquired \in [Locks -> BOOLEAN]
  /\ owner \in [Locks -> Thread \cup {NULL} \cup OwnerInit]
  /\ lockQueue \in [Locks -> Seq(Thread)]
  /\ inside \in [Locks -> SUBSET Thread]

\* Lock::Lock.
LocksInit ==
  /\ acquired = [l \in Locks |-> FALSE]
  /\ owner \in [Locks -> OwnerInit]
  /\ lockQueue = [l \in Locks |-> <<>>]
  /\ inside = [l \in Locks |-> {}]

LockInit == ThreadsInit /\ LocksInit

-----------------------------------------------------------------------------
\* Lock::isHeldByCurrentThread.
isHeldByCurrentThread(l) == currentThread = owner[l]

Enter(l) == inside' = [inside EXCEPT ![l] = @ \cup {currentThread}]

\* Lock::Acquire up to its Sleep or its return.
AcquireCall(l) ==
  \/ /\ isHeldByCurrentThread(l)
     /\ Enter(l)
     /\ ReturnToCode
     /\ UNCHANGED <<acquired, owner, lockQueue>>
  \/ /\ ~isHeldByCurrentThread(l)
     /\ acquired[l]
     /\ lockQueue' = [lockQueue EXCEPT ![l] = Append(@, currentThread)]
     /\ Sleep(l, <<>>)
     /\ UNCHANGED <<acquired, owner, inside>>
  \/ /\ ~isHeldByCurrentThread(l)
     /\ ~acquired[l]
     /\ owner' = [owner EXCEPT ![l] = currentThread]
     /\ acquired' = [acquired EXCEPT ![l] = TRUE]
     /\ Enter(l)
     /\ ReturnToCode
     /\ UNCHANGED lockQueue

Acquire(l) == InCode /\ AcquireCall(l)

\* Lock::Acquire after its Sleep: it returns, and neither tests acquired
\* again nor sets acquired and owner.
AcquireResumed(l) ==
  /\ Resumed(l)
  /\ Enter(l)
  /\ ReturnToCode
  /\ UNCHANGED <<acquired, owner, lockQueue>>

\* The part of Lock::Release that changes the lock.  A caller that is not the
\* owner leaves acquired and owner alone, but still removes a waiter.
Free(l) ==
  /\ acquired' = [acquired EXCEPT ![l] = @ /\ ~isHeldByCurrentThread(l)]
  /\ owner' = [owner EXCEPT ![l] = IF isHeldByCurrentThread(l) THEN NULL ELSE @]
  /\ lockQueue' = [lockQueue EXCEPT ![l] = Rest(@)]
  /\ inside' = [inside EXCEPT ![l] = @ \ {currentThread}]

\* Mutant: only the owner wakes a waiter.
Release_OwnerOnly(l) ==
  /\ InCode
  /\ IF isHeldByCurrentThread(l)
       THEN Free(l) /\ ReadyToRun(First(lockQueue[l])) /\ UNCHANGED idling
       ELSE /\ inside' = [inside EXCEPT ![l] = @ \ {currentThread}]
            /\ UNCHANGED <<threadVars, acquired, owner, lockQueue>>

\* Lock::Release.
Release(l) ==
  /\ InCode
  /\ Free(l)
  /\ ReadyToRun(First(lockQueue[l]))
  /\ UNCHANGED idling

\* The convention of synch.h: only a thread that acquired the lock releases
\* it, and no thread finishes inside a lock.
LockStep(l) ==
  \/ currentThread \notin inside[l] /\ Acquire(l)
  \/ AcquireResumed(l)
  \/ currentThread \in inside[l] /\ Release(l)

OutsideLocks == \A l \in Locks : currentThread \notin inside[l]

LockNext ==
  \/ \E l \in Locks : LockStep(l)
  \/ (ThreadStep \/ (OutsideLocks /\ Finish)) /\ UNCHANGED lockVars

LockSpec == LockInit /\ [][LockNext]_lockSpecVars

-----------------------------------------------------------------------------
\* The queue of a lock holds exactly the threads asleep in its Acquire, each
\* of them once.
LockQueueExact ==
  \A l \in Locks :
    IsInjective(lockQueue[l]) /\ Range(lockQueue[l]) = AsleepIn(l)

\* A busy lock has an owner, and the owner is inside it.
OwnerInside == \A l \in Locks : acquired[l] => owner[l] \in inside[l]

\* No stranded waiter: while a thread waits in Acquire, some thread is inside
\* the lock or on its way in, and its Release will wake the next one.  It is
\* Release's waking of a waiter even for a caller that is not the owner that
\* keeps the chain going: a thread that had to wait never becomes owner.
NoStrandedWaiter ==
  \A l \in Locks : lockQueue[l] # <<>> => inside[l] \cup WokenIn(l) # {}

\* Mutual exclusion: "Acquire -- wait until the lock is FREE, then set it to
\* BUSY" (synch.h): at most one thread is inside a lock.
MutualExclusion == \A l \in Locks : Cardinality(inside[l]) <= 1

=============================================================================
