------------------------------ MODULE SynchList ------------------------------
(****************************************************************************)
(* The synchronized list (threads/synchlist.cc): a list behind a lock, with *)
(* a condition to wait for an element.  Any thread may call any operation.  *)
(****************************************************************************)
EXTENDS Condition

CONSTANTS
  lock,       \* SynchList::lock
  listEmpty,  \* SynchList::listEmpty
  MaxCalls    \* bound: how many operations each thread calls

ASSUME SynchListAssumption ==
  /\ lock \in Locks
  /\ listEmpty \in Conditions
  /\ MaxCalls \in Nat

VARIABLES
  list,  \* SynchList::list; an item is the thread that appended it
  pc,    \* what each thread does next in the operation it is in
  calls  \* how many operations each thread has called

clientVars == <<pc, calls>>
synchListVars == <<conditionVars, list, clientVars>>

\* The values the variables take: the list holds items only.
SynchListTypeOK ==
  /\ list \in Seq(Thread)
  /\ pc \in [Thread -> {"outside", "append", "appended", "remove", "mapcar"}]
  /\ calls \in [Thread -> 0..MaxCalls]

\* SynchList::SynchList.
SynchListInit ==
  /\ ConditionInit
  /\ list = <<>>
  /\ pc = [t \in Thread |-> "outside"]
  /\ calls = [t \in Thread |-> 0]

-----------------------------------------------------------------------------
Goto(label) ==
  /\ pc' = [pc EXCEPT ![currentThread] = label]
  /\ UNCHANGED calls

\* Every operation starts with lock->Acquire.
Call(op) ==
  /\ pc[currentThread] = "outside"
  /\ calls[currentThread] < MaxCalls
  /\ calls' = [calls EXCEPT ![currentThread] = @ + 1]
  /\ pc' = [pc EXCEPT ![currentThread] = op]
  /\ Acquire(lock)
  /\ UNCHANGED <<condVars, list>>

\* Mutant: Append does not signal.
Append1_NoSignal ==
  /\ InCode
  /\ pc[currentThread] = "append"
  /\ list' = Append(list, currentThread)
  /\ Goto("appended")
  /\ UNCHANGED conditionVars

\* SynchList::Append, inside the lock: the new item and Signal, then Release.
Append1 ==
  /\ pc[currentThread] = "append"
  /\ Signal(listEmpty, lock)
  /\ list' = Append(list, currentThread)
  /\ Goto("appended")

\* Mutant: the lock is not released.
Leave_NoRelease ==
  /\ InCode
  /\ pc[currentThread] \in {"appended", "mapcar"}
  /\ Goto("outside")
  /\ UNCHANGED <<conditionVars, list>>

\* The last call of Append and, Mapcar changing nothing itself, of Mapcar.
Leave ==
  /\ pc[currentThread] \in {"appended", "mapcar"}
  /\ Release(lock)
  /\ Goto("outside")
  /\ UNCHANGED <<condVars, list>>

\* SynchList::Remove, inside the lock: the test of its loop and what follows.
\* Nothing turns interrupts on between the test and Wait's Sleep, or between
\* the test and the removal.
RemoveLoop ==
  /\ pc[currentThread] = "remove"
  /\ \/ /\ list = <<>>
        /\ Wait(listEmpty, lock)
        /\ UNCHANGED <<list, clientVars>>
     \/ /\ list # <<>>
        /\ list' = Tail(list)
        /\ Release(lock)
        /\ Goto("outside")
        /\ UNCHANGED condVars

\* The rest of a Wait or an Acquire that slept.
Wakeup ==
  /\ \/ WaitResumed(listEmpty)
     \/ AcquireResumed(lock) /\ UNCHANGED condVars
  /\ UNCHANGED <<list, clientVars>>

Body == Append1 \/ Leave \/ RemoveLoop \/ Wakeup

SynchListNext ==
  \/ \E op \in {"append", "remove", "mapcar"} : Call(op)
  \/ Body
  \/ (ThreadStep \/ (pc[currentThread] = "outside" /\ Finish))
       /\ UNCHANGED <<lockVars, condVars, list, clientVars>>

SynchListSpec == SynchListInit /\ [][SynchListNext]_synchListVars

\* The CPU never stops, a thread that gets it infinitely often executes its
\* code, and time slices keep coming.
SynchListFairness ==
  /\ WF_synchListVars(Dispatch /\ UNCHANGED <<lockVars, condVars, list, clientVars>>)
  /\ SF_synchListVars(Yield /\ UNCHANGED <<lockVars, condVars, list, clientVars>>)
  /\ \A t \in Thread : SF_synchListVars(currentThread = t /\ Body)

SynchListFairSpec == SynchListSpec /\ SynchListFairness

-----------------------------------------------------------------------------
\* Threads in Remove that are not asleep in Wait: each will test the list.
Removing == {t \in Thread : pc[t] = "remove"} \ AsleepIn(listEmpty)

\* No lost wakeup: while threads wait for an element, the elements in the
\* list are covered by threads on their way to take one.  Append signals once
\* for each element, and a thread that calls Remove may take it first.
ItemCovered ==
  /\ SynchListTypeOK
  /\ waitQueue[listEmpty] # <<>> => Len(list) <= Cardinality(Removing)

\* Append returns: no other operation keeps the lock for ever.
AppendReturns == \A t \in Thread : pc[t] = "append" ~> pc[t] = "outside"

\* "Wait() -- release the lock, relinquish the CPU until signaled" (synch.h):
\* a Remove that finds the list empty does not stay inside the lock.
RemoveWaits ==
  \A t \in Thread :
    (pc[t] = "remove" /\ list = <<>> /\ t \in inside[lock]) ~> t \notin inside[lock]

\* "Threads trying to remove an item from a list will wait until the list has
\* an element on it": with an element there, someone in Remove takes it.
RemoveServed ==
  (list # <<>> /\ \E t \in Thread : pc[t] = "remove")
    ~> (list = <<>> \/ \A t \in Thread : pc[t] # "remove")

\* Append returns and Remove is served, although the lock does not exclude.
OperationsReturn == AppendReturns /\ RemoveServed

=============================================================================
