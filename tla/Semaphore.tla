------------------------------ MODULE Semaphore ------------------------------
(****************************************************************************)
(* Semaphores (threads/synch.cc) under their most general use: any thread   *)
(* may call P or V at any time, and interrupt handlers call V.              *)
(****************************************************************************)
EXTENDS Threads

CONSTANTS
  Semaphores,    \* the semaphores of the program
  InitialValue,  \* the constructor's second argument, for each semaphore
  MaxValue       \* bound: V is not called on a semaphore of this value

ASSUME SemaphoreAssumption ==
  /\ Semaphores \subseteq Object
  /\ MaxValue \in Nat
  /\ InitialValue \in [Semaphores -> 0..MaxValue]

VARIABLES
  value,  \* Semaphore::value
  queue   \* Semaphore::queue, the threads waiting in P

semVars == <<value, queue>>
semaphoreVars == <<threadVars, semVars>>

\* "semaphore value, always >= 0" (synch.h), and the values of the queues.
SemaphoreTypeOK ==
  /\ value \in [Semaphores -> 0..MaxValue]
  /\ queue \in [Semaphores -> Seq(Thread)]

\* Semaphore::Semaphore.
SemInit ==
  /\ value = InitialValue
  /\ queue = [s \in Semaphores |-> <<>>]

SemaphoreInit == ThreadsInit /\ SemInit

-----------------------------------------------------------------------------
\* Mutant: an if instead of the while: a thread that comes back from Sleep
\* takes the value without testing it.
P_If(s) ==
  /\ InCode \/ Resumed(s)
  /\ \/ /\ InCode /\ value[s] = 0
        /\ queue' = [queue EXCEPT ![s] = Append(@, currentThread)]
        /\ Sleep(s, <<>>)
        /\ UNCHANGED value
     \/ /\ Resumed(s) \/ value[s] # 0
        /\ value' = [value EXCEPT ![s] = @ - 1]
        /\ ReturnToCode
        /\ UNCHANGED queue

\* Semaphore::P, from the call or, for a thread that comes back from Sleep,
\* from the test of the loop.
P(s) ==
  /\ InCode \/ Resumed(s)
  /\ \/ /\ value[s] = 0
        /\ queue' = [queue EXCEPT ![s] = Append(@, currentThread)]
        /\ Sleep(s, <<>>)
        /\ UNCHANGED value
     \/ /\ value[s] # 0
        /\ value' = [value EXCEPT ![s] = @ - 1]
        /\ ReturnToCode
        /\ UNCHANGED queue

\* Mutant: V looks at the first waiter and leaves it on the queue.
Up_NoRemove(s) ==
  /\ value[s] < MaxValue
  /\ value' = [value EXCEPT ![s] = @ + 1]
  /\ UNCHANGED queue

\* The part of Semaphore::V that changes the semaphore.
Up(s) ==
  /\ value[s] < MaxValue
  /\ queue' = [queue EXCEPT ![s] = Rest(@)]
  /\ value' = [value EXCEPT ![s] = @ + 1]

\* Mutant: V wakes a waiter only when the value was zero.
V_OnlyFromZero(s) ==
  /\ InCode
  /\ value[s] < MaxValue
  /\ value' = [value EXCEPT ![s] = @ + 1]
  /\ IF value[s] = 0
       THEN /\ queue' = [queue EXCEPT ![s] = Rest(@)]
            /\ ReadyToRun(First(queue[s]))
            /\ UNCHANGED idling
       ELSE UNCHANGED <<threadVars, queue>>

\* Mutant: V wakes nobody.
V_NoWake(s) ==
  /\ InCode
  /\ value[s] < MaxValue
  /\ value' = [value EXCEPT ![s] = @ + 1]
  /\ UNCHANGED <<threadVars, queue>>

\* Semaphore::V called by the current thread, or by the handler of an
\* interrupt that is due when the current thread turns interrupts back on.
V(s) ==
  /\ InCode
  /\ Up(s)
  /\ ReadyToRun(First(queue[s]))
  /\ UNCHANGED idling

\* Semaphore::V called by a handler while the machine idles.
IdleV(s) ==
  /\ Up(s)
  /\ IdleWake(First(queue[s]))

SemaphoreNext ==
  \/ \E s \in Semaphores : P(s) \/ V(s) \/ IdleV(s)
  \/ (ThreadStep \/ Finish) /\ UNCHANGED semVars

SemaphoreSpec == SemaphoreInit /\ [][SemaphoreNext]_semaphoreVars

-----------------------------------------------------------------------------
\* The queue of a semaphore holds exactly the threads asleep in its P, each
\* of them once.
QueueExact ==
  \A s \in Semaphores :
    IsInjective(queue[s]) /\ Range(queue[s]) = AsleepIn(s)

\* No lost wakeup: while threads wait in P, the value is covered by woken
\* threads that will test it.  V wakes one thread and adds one to the value,
\* but P can be overtaken: a thread that was never queued may take the value
\* first, and the woken thread goes back to the queue.
NoLostWakeup ==
  \A s \in Semaphores :
    queue[s] # <<>> => value[s] <= Cardinality(WokenIn(s))

=============================================================================
