-------------------------------- MODULE Synch --------------------------------
(****************************************************************************)
(* What threads/synch.cc promises the threads that use it, without the CPU: *)
(* semaphores, locks and conditions, each operation a step of the process   *)
(* that calls it.  Every process that is not in a queue may take its next   *)
(* step, so the order in which the scheduler runs ready threads is left     *)
(* open; Clients shows that the operations on the CPU implement these.  The *)
(* passport office, the devices and the post office are built on it.        *)
(****************************************************************************)
EXTENDS Integers, Sequences, FiniteSets, Functions

CONSTANTS
  Process,          \* the threads
  Semaphores, Locks, Conditions,
  InitialValue,     \* of each semaphore
  MaxValue,         \* bound: V is not called on a semaphore of this value
  OwnerInit,        \* what Lock::owner may hold after the constructor
  WaitingLockInit,  \* what Condition::waitingLock may hold after it
  NULL

ASSUME SynchAssumption ==
  /\ MaxValue \in Nat
  /\ InitialValue \in [Semaphores -> 0..MaxValue]
  /\ NULL \notin Process \cup Semaphores \cup Locks \cup Conditions

VARIABLES
  value, queue,                          \* of the semaphores
  acquired, owner, lockQueue, inside,    \* of the locks
  waitQueue, waitingLock, conditionLock, \* of the conditions
  where                                  \* the object each process is in an
                                         \* operation of, or NULL

semaphoreState == <<value, queue>>
lockState == <<acquired, owner, lockQueue, inside>>
conditionState == <<waitQueue, waitingLock, conditionLock>>
synchVars == <<semaphoreState, lockState, conditionState, where>>

SynchInit ==
  /\ value = InitialValue
  /\ queue = [s \in Semaphores |-> <<>>]
  /\ acquired = [l \in Locks |-> FALSE]
  /\ owner \in [Locks -> OwnerInit]
  /\ lockQueue = [l \in Locks |-> <<>>]
  /\ inside = [l \in Locks |-> {}]
  /\ waitQueue = [c \in Conditions |-> <<>>]
  /\ waitingLock \in [Conditions -> WaitingLockInit]
  /\ conditionLock = [p \in Process |-> NULL]
  /\ where = [p \in Process |-> NULL]

-----------------------------------------------------------------------------
InCode(p) == where[p] = NULL
Goto(p, o) == where' = [where EXCEPT ![p] = o]

\* List::Remove: what is left of a queue.
Rest(q) == IF q = <<>> THEN <<>> ELSE Tail(q)

\* Semaphore::P, from the call or from the test after Sleep.
P(p, s) ==
  /\ InCode(p) \/ (where[p] = s /\ p \notin Range(queue[s]))
  /\ IF value[s] = 0
       THEN /\ queue' = [queue EXCEPT ![s] = Append(@, p)]
            /\ Goto(p, s)
            /\ UNCHANGED value
       ELSE /\ value' = [value EXCEPT ![s] = @ - 1]
            /\ Goto(p, NULL)
            /\ UNCHANGED queue
  /\ UNCHANGED <<lockState, conditionState>>

\* Mutant: V does not wake a sleeper.
V_NoWake(s) ==
  /\ value[s] < MaxValue
  /\ value' = [value EXCEPT ![s] = @ + 1]
  /\ UNCHANGED <<queue, lockState, conditionState, where>>

\* Semaphore::V, by a thread or by an interrupt handler.
V(s) ==
  /\ value[s] < MaxValue
  /\ value' = [value EXCEPT ![s] = @ + 1]
  /\ queue' = [queue EXCEPT ![s] = Rest(@)]
  /\ UNCHANGED <<lockState, conditionState, where>>

\* Lock::Acquire up to its Sleep or its return.
AcquireCall(p, l) ==
  IF acquired[l] /\ owner[l] # p
    THEN /\ lockQueue' = [lockQueue EXCEPT ![l] = Append(@, p)]
         /\ Goto(p, l)
         /\ UNCHANGED <<acquired, owner, inside>>
    ELSE /\ acquired' = [acquired EXCEPT ![l] = @ \/ owner[l] # p]
         /\ owner' = [owner EXCEPT ![l] = p]
         /\ inside' = [inside EXCEPT ![l] = @ \cup {p}]
         /\ Goto(p, NULL)
         /\ UNCHANGED lockQueue

Acquire(p, l) ==
  InCode(p) /\ AcquireCall(p, l) /\ UNCHANGED <<semaphoreState, conditionState>>

\* Lock::Acquire after its Sleep.
AcquireResumed(p, l) ==
  /\ where[p] = l /\ p \notin Range(lockQueue[l])
  /\ inside' = [inside EXCEPT ![l] = @ \cup {p}]
  /\ Goto(p, NULL)
  /\ UNCHANGED <<semaphoreState, acquired, owner, lockQueue, conditionState>>

Free(p, l) ==
  /\ acquired' = [acquired EXCEPT ![l] = @ /\ owner[l] # p]
  /\ owner' = [owner EXCEPT ![l] = IF @ = p THEN NULL ELSE @]
  /\ lockQueue' = [lockQueue EXCEPT ![l] = Rest(@)]
  /\ inside' = [inside EXCEPT ![l] = @ \ {p}]

\* Lock::Release.
Release(p, l) ==
  InCode(p) /\ Free(p, l) /\ UNCHANGED <<semaphoreState, conditionState, where>>

\* Mutant: Wait takes any lock.
WaitRefused_AnyLock(c, l) == FALSE

\* Condition::Wait returns at once when the condition has another lock.
WaitRefused(c, l) == waitingLock[c] \notin {NULL, l}

\* Condition::Wait up to its Sleep, or its early return.
Wait(p, c, l) ==
  /\ InCode(p)
  /\ IF WaitRefused(c, l)
       THEN UNCHANGED <<lockState, conditionState, where>>
       ELSE /\ waitingLock' = [waitingLock EXCEPT ![c] = l]
            /\ Free(p, l)
            /\ waitQueue' = [waitQueue EXCEPT ![c] = Append(@, p)]
            /\ conditionLock' = [conditionLock EXCEPT ![p] = l]
            /\ Goto(p, c)
  /\ UNCHANGED semaphoreState

\* Condition::Wait after its Sleep: it calls Acquire.
WaitResumed(p, c) ==
  /\ where[p] = c /\ p \notin Range(waitQueue[c])
  /\ AcquireCall(p, conditionLock[p])
  /\ conditionLock' = [conditionLock EXCEPT ![p] = NULL]
  /\ UNCHANGED <<semaphoreState, waitQueue, waitingLock>>

\* Condition::Signal.
Signal(p, c, l) ==
  /\ InCode(p)
  /\ waitQueue' = [waitQueue EXCEPT ![c] =
                     IF waitingLock[c] = l THEN Rest(@) ELSE @]
  /\ UNCHANGED <<semaphoreState, lockState, waitingLock, conditionLock, where>>

\* Condition::Broadcast.
Broadcast(p, c) ==
  /\ InCode(p)
  /\ waitQueue' = [waitQueue EXCEPT ![c] = <<>>]
  /\ UNCHANGED <<semaphoreState, lockState, waitingLock, conditionLock, where>>

\* A process that was woken inside Acquire or Wait goes on there.
Resume(p) ==
  \/ \E l \in Locks : AcquireResumed(p, l)
  \/ \E c \in Conditions : WaitResumed(p, c)

\* Every call a process may make that keeps to the convention of synch.h.
Call(p) ==
  \/ \E s \in Semaphores : P(p, s) \/ V(s)
  \/ \E l \in Locks :
       \/ p \notin inside[l] /\ Acquire(p, l)
       \/ /\ p \in inside[l]
          /\ \/ Release(p, l)
             \/ \E c \in Conditions :
                  Wait(p, c, l) \/ Signal(p, c, l) \/ Broadcast(p, c)

SynchNext == \E p \in Process : Call(p) \/ Resume(p)

SynchSpec == SynchInit /\ [][SynchNext]_synchVars

=============================================================================
