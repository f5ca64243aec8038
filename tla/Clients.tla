------------------------------- MODULE Clients -------------------------------
(****************************************************************************)
(* The most general programs over threads/synch.cc: threads that use        *)
(* semaphores in any order, and locks and conditions as synch.h asks, and   *)
(* interrupt handlers that call V.  A program with semaphores and monitors  *)
(* is what SynchDisk, the console and the post office are.                  *)
(****************************************************************************)
EXTENDS Semaphore, Condition

CONSTANT Programs  \* for each program, the set of the objects it uses

ASSUME ClientsAssumption ==
  /\ Programs \subseteq SUBSET Object
  /\ Semaphores \cap (Locks \cup Conditions) = {}

VARIABLE uses  \* the objects this program uses

clientVars == <<threadVars, semVars, lockVars, condVars, uses>>

ClientsInit ==
  /\ ThreadsInit /\ SemInit /\ LocksInit /\ ConditionsInit
  /\ uses \in Programs

ClientsNext ==
  /\ \/ /\ \E s \in Semaphores \cap uses : P(s) \/ V(s) \/ IdleV(s)
        /\ UNCHANGED <<lockVars, condVars>>
     \/ /\ \E l \in Locks \cap uses : LockStep(l)
        /\ UNCHANGED <<semVars, condVars>>
     \/ /\ \E c \in Conditions \cap uses : ConditionStep(c)
        /\ UNCHANGED semVars
     \/ /\ ThreadStep \/ (OutsideLocks /\ Finish)
        /\ UNCHANGED <<semVars, lockVars, condVars>>
  /\ UNCHANGED uses

ClientsSpec == ClientsInit /\ [][ClientsNext]_clientVars

-----------------------------------------------------------------------------
\* The operations seen without the CPU: a thread is in an operation of an
\* object or in code of its own, and scheduling changes nothing.
In == [t \in Thread |-> IF at[t] \in Object THEN at[t] ELSE NULL]

OffCPU == INSTANCE Synch WITH Process <- Thread, where <- In

\* Every step of synch.cc on the CPU is a step of the calling thread alone, or
\* invisible: what Synch says of the processes holds of the threads, whatever
\* the scheduler and the time slices do.
ImplementsSynch == OffCPU!SynchSpec

\* What the objects record of the threads is true at every moment: the types,
\* the queues of semaphores, locks and conditions, which hold exactly the
\* threads asleep in them, and the owners of the locks.
BooksRight ==
  /\ SemaphoreTypeOK /\ LockTypeOK /\ ConditionTypeOK
  /\ QueueExact /\ LockQueueExact /\ WaitQueueExact /\ OwnerInside

=============================================================================
