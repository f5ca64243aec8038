------------------------------ MODULE Condition ------------------------------
(****************************************************************************)
(* Condition variables (threads/synch.cc), used as synch.h asks: by threads *)
(* inside the lock they pass.                                               *)
(****************************************************************************)
EXTENDS Lock

CONSTANTS
  Conditions,      \* the condition variables of the program
  WaitingLockInit  \* what waitingLock may hold after the constructor, which
                   \* does not set it

ASSUME ConditionAssumption ==
  /\ Conditions \subseteq Object
  /\ Conditions \cap Locks = {}
  /\ WaitingLockInit # {}
  /\ NULL \notin Locks

VARIABLES
  waitQueue,     \* Condition::waitQueue
  waitingLock,   \* Condition::waitingLock
  conditionLock  \* the argument of the Wait each thread is in, or NULL

condVars == <<waitQueue, waitingLock, conditionLock>>
conditionVars == <<threadVars, lockVars, condVars>>

\* The values the fields take: no Wait stores anything but a lock.
ConditionTypeOK ==
  /\ waitQueue \in [Conditions -> Seq(Thread)]
  /\ waitingLock \in [Conditions -> Locks \cup {NULL} \cup WaitingLockInit]
  /\ conditionLock \in [Thread -> Locks \cup {NULL}]

\* Condition::Condition.
ConditionsInit ==
  /\ waitQueue = [c \in Conditions |-> <<>>]
  /\ waitingLock \in [Conditions -> WaitingLockInit]
  /\ conditionLock = [t \in Thread |-> NULL]

ConditionInit == ThreadsInit /\ LocksInit /\ ConditionsInit

-----------------------------------------------------------------------------
\* Mutant: Wait takes any lock.
WaitRefused_AnyLock(c, l) == l = NULL

\* Condition::Wait returns at once: no lock, or not the lock of the first
\* Wait there was on this condition.
WaitRefused(c, l) == l = NULL \/ waitingLock[c] \notin {NULL, l}

\* Mutant: Release takes a waiter off the lock's queue, and nobody runs it.
Wait_NoReady(c, l) ==
  /\ InCode
  /\ ~WaitRefused(c, l)
  /\ waitingLock' = [waitingLock EXCEPT ![c] = l]
  /\ Free(l)
  /\ waitQueue' = [waitQueue EXCEPT ![c] = Append(@, currentThread)]
  /\ conditionLock' = [conditionLock EXCEPT ![currentThread] = l]
  /\ Sleep(c, <<>>)

\* Condition::Wait up to its Sleep, or its early return.
Wait(c, l) ==
  /\ InCode
  /\ \/ /\ WaitRefused(c, l)
        /\ UNCHANGED conditionVars
     \/ /\ ~WaitRefused(c, l)
        /\ waitingLock' = [waitingLock EXCEPT ![c] = l]
        /\ Free(l)
        /\ waitQueue' = [waitQueue EXCEPT ![c] = Append(@, currentThread)]
        /\ conditionLock' = [conditionLock EXCEPT ![currentThread] = l]
        /\ Sleep(c, First(lockQueue[l]))

\* Condition::Wait after its Sleep: it calls Acquire, which may sleep again.
WaitResumed(c) ==
  /\ Resumed(c)
  /\ AcquireCall(conditionLock[currentThread])
  /\ conditionLock' = [conditionLock EXCEPT ![currentThread] = NULL]
  /\ UNCHANGED <<waitQueue, waitingLock>>

\* Mutant: Signal wakes every waiter.
Signal_All(c, l) ==
  /\ InCode
  /\ waitQueue' = [waitQueue EXCEPT ![c] = <<>>]
  /\ ReadyToRun(waitQueue[c])
  /\ UNCHANGED <<idling, lockVars, waitingLock, conditionLock>>

\* Condition::Signal.
Signal(c, l) ==
  /\ InCode
  /\ LET refused == waitQueue[c] = <<>> \/ waitingLock[c] # l
     IN  IF refused
           THEN UNCHANGED <<threadVars, waitQueue>>
           ELSE /\ waitQueue' = [waitQueue EXCEPT ![c] = Rest(@)]
                /\ ReadyToRun(First(waitQueue[c]))
                /\ UNCHANGED idling
  /\ UNCHANGED <<lockVars, waitingLock, conditionLock>>

\* Condition::Broadcast, which does not look at its argument.
Broadcast(c) ==
  /\ InCode
  /\ waitQueue' = [waitQueue EXCEPT ![c] = <<>>]
  /\ ReadyToRun(waitQueue[c])
  /\ UNCHANGED <<idling, lockVars, waitingLock, conditionLock>>

ConditionStep(c) ==
  \/ \E l \in Locks :
       currentThread \in inside[l] /\ (Wait(c, l) \/ Signal(c, l) \/ Broadcast(c))
  \/ WaitResumed(c)

ConditionNext ==
  \/ \E c \in Conditions : ConditionStep(c)
  \/ LockNext /\ UNCHANGED condVars

ConditionSpec == ConditionInit /\ [][ConditionNext]_conditionVars

-----------------------------------------------------------------------------
\* The queue of a condition holds exactly the threads asleep in its Wait,
\* each of them once.
WaitQueueExact ==
  \A c \in Conditions :
    IsInjective(waitQueue[c]) /\ Range(waitQueue[c]) = AsleepIn(c)

\* Every thread in a Wait gave the lock that the condition remembers, so that
\* the lock Signal compares with its argument is the lock of each waiter.
SameLock ==
  \A c \in Conditions, t \in Thread :
    at[t] = c => conditionLock[t] = waitingLock[c]

=============================================================================
