------------------------------- MODULE Threads -------------------------------
(****************************************************************************)
(* Thread control blocks, the ready list and the CPU: threads/thread.cc,    *)
(* threads/scheduler.cc, and ThreadRoot of threads/switch.s.                *)
(*                                                                          *)
(* One CPU runs kernel code.  Interrupts are simulated: a thread loses the  *)
(* CPU only when it calls Yield, Sleep or Finish, or when it turns          *)
(* interrupts back on and the timer has asked for a time slice              *)
(* (Interrupt::OneTick).  Everything a kernel routine does between          *)
(* SetLevel(IntOff) and the matching re-enable is therefore one step.       *)
(*                                                                          *)
(* The synchronization routines of threads/synch.cc are the only callers of *)
(* Sleep and, Fork and Yield apart, of ReadyToRun.  This module says what   *)
(* they may do to threads; Semaphore, Lock and Condition say when.          *)
(****************************************************************************)
EXTENDS Naturals, Sequences, FiniteSets, Functions

CONSTANTS
  Thread,      \* every thread the program will ever create
  MainThread,  \* the thread Nachos starts in (Initialize, threads/system.cc)
  Object,      \* the synchronization objects a thread can sleep in
  NULL

Place == {"ThreadRoot", "code", "Finish"}

ASSUME ThreadAssumption ==
  /\ IsFiniteSet(Thread)
  /\ MainThread \in Thread
  /\ NULL \notin Thread \cup Object \cup Place
  /\ Object \cap Place = {}

VARIABLES
  currentThread,        \* the thread on the CPU
  status,               \* Thread::status, and DESTROYED once deleted
  readyList,            \* Scheduler::readyList
  threadToBeDestroyed,  \* a finished thread whose carcass is not yet deleted
  at,                   \* where each thread will continue: at the bottom of
                        \* its stack (ThreadRoot), in its own code, inside an
                        \* operation of an Object, or in Finish
  idling                \* Idle has run a handler since Sleep last looked for
                        \* a ready thread

threadVars ==
  <<currentThread, status, readyList, threadToBeDestroyed, at, idling>>

ThreadStatus == {"JUST_CREATED", "RUNNING", "READY", "BLOCKED", "DESTROYED"}

\* The values the variables take: there is always a current thread.
ThreadsTypeOK ==
  /\ currentThread \in Thread
  /\ status \in [Thread -> ThreadStatus]
  /\ readyList \in Seq(Thread)
  /\ threadToBeDestroyed \in Thread \cup {NULL}
  /\ at \in [Thread -> Place \cup Object]
  /\ idling \in BOOLEAN

ThreadsInit ==
  /\ currentThread = MainThread
  /\ status = [t \in Thread |->
                 IF t = MainThread THEN "RUNNING" ELSE "JUST_CREATED"]
  /\ readyList = <<>>
  /\ threadToBeDestroyed = NULL
  /\ at = [t \in Thread |-> IF t = MainThread THEN "code" ELSE "ThreadRoot"]
  /\ idling = FALSE

-----------------------------------------------------------------------------
\* The CPU executes a thread, and not the loop of Sleep that waits for one.
Running == status[currentThread] = "RUNNING"

\* The current thread runs code of its own, with interrupts on.
InCode == Running /\ at[currentThread] = "code"

\* The current thread has come back from Sleep inside an operation of o.
Resumed(o) == Running /\ at[currentThread] = o

\* Threads asleep in an operation of o, and threads that have been woken and
\* will go on in it.
AsleepIn(o) == {t \in Thread : at[t] = o /\ status[t] = "BLOCKED"}
WokenIn(o) == {t \in Thread : at[t] = o /\ status[t] # "BLOCKED"}

\* Threads asleep in some Object, and the orders in which a routine can wake
\* any of them.
Asleep == UNION {AsleepIn(o) : o \in Object}
WakeOrders == UNION {Injection(1..n, Asleep) : n \in 0..Cardinality(Asleep)}

Readied(q) == [t \in Thread |-> IF t \in Range(q) THEN "READY" ELSE status[t]]

\* Mutant: a thread goes on the ready list without becoming READY.
ReadyToRun_NoStatus(q) ==
  /\ readyList' = readyList \o q
  /\ UNCHANGED <<currentThread, status, threadToBeDestroyed, at>>

\* Scheduler::ReadyToRun on each thread of q in turn.
ReadyToRun(q) ==
  /\ readyList' = readyList \o q
  /\ status' = Readied(q)
  /\ UNCHANGED <<currentThread, threadToBeDestroyed, at>>

\* Mutant: the carcass is deleted and the pointer to it kept.
Run_KeepsCarcass(next, before) ==
  LET running == [before EXCEPT ![next] = "RUNNING"]
  IN  /\ currentThread' = next
      /\ at' = [at EXCEPT ![next] = IF @ = "ThreadRoot" THEN "code" ELSE @]
      /\ status' = IF threadToBeDestroyed = NULL \/ at[next] = "ThreadRoot"
                     THEN running
                     ELSE [running EXCEPT ![threadToBeDestroyed] = "DESTROYED"]
      /\ UNCHANGED threadToBeDestroyed

\* Scheduler::Run(next), when before gives every thread's status: next gets
\* the CPU.  A thread that has run before comes back from SWITCH and deletes
\* the carcass; a new one starts in ThreadRoot, which does not.
Run(next, before) ==
  LET running == [before EXCEPT ![next] = "RUNNING"]
  IN  /\ currentThread' = next
      /\ IF at[next] = "ThreadRoot"
           THEN /\ at' = [at EXCEPT ![next] = "code"]
                /\ status' = running
                /\ UNCHANGED threadToBeDestroyed
           ELSE /\ UNCHANGED at
                /\ status' = IF threadToBeDestroyed = NULL THEN running
                             ELSE [running EXCEPT
                                     ![threadToBeDestroyed] = "DESTROYED"]
                /\ threadToBeDestroyed' = NULL

\* List::Remove on a queue of threads: what it takes off, as a sequence of at
\* most one thread, and what it leaves.
First(q) == IF q = <<>> THEN <<>> ELSE <<Head(q)>>
Rest(q) == IF q = <<>> THEN <<>> ELSE Tail(q)

\* Thread::Thread and Thread::Fork.
Fork(t) ==
  /\ InCode
  /\ status[t] = "JUST_CREATED"
  /\ ReadyToRun(<<t>>)
  /\ UNCHANGED idling

\* Mutant: the thread goes back to the front of the ready list.
Yield_Front ==
  /\ InCode
  /\ readyList # <<>>
  /\ readyList' = <<currentThread>> \o Tail(readyList)
  /\ Run(Head(readyList), [status EXCEPT ![currentThread] = "READY"])
  /\ UNCHANGED idling

\* Thread::Yield, called by the thread or, for a time slice, by OneTick.
\* With no other thread ready it changes nothing.
Yield ==
  /\ InCode
  /\ readyList # <<>>
  /\ readyList' = Append(Tail(readyList), currentThread)
  /\ Run(Head(readyList), [status EXCEPT ![currentThread] = "READY"])
  /\ UNCHANGED idling

\* Thread::Sleep up to its loop, called inside an operation of o that has
\* just put the threads of q on the ready list.
Sleep(o, q) ==
  /\ readyList' = readyList \o q
  /\ status' = [Readied(q) EXCEPT ![currentThread] = "BLOCKED"]
  /\ at' = [at EXCEPT ![currentThread] = o]
  /\ UNCHANGED <<currentThread, threadToBeDestroyed, idling>>

\* The loop of Thread::Sleep finds a ready thread and runs it.
Dispatch ==
  /\ ~Running
  /\ readyList # <<>>
  /\ readyList' = Tail(readyList)
  /\ Run(Head(readyList), status)
  /\ idling' = FALSE

\* The loop of Thread::Sleep found no ready thread and called
\* Interrupt::Idle, whose handlers wake the threads of q.
IdleWake(q) ==
  /\ ~Running
  /\ idling \/ readyList = <<>>
  /\ ReadyToRun(q)
  /\ idling' = TRUE

\* An operation of an Object is over.
ReturnToCode ==
  /\ at' = [at EXCEPT ![currentThread] = "code"]
  /\ UNCHANGED <<currentThread, status, readyList, threadToBeDestroyed, idling>>

\* Thread::Finish.
Finish ==
  /\ InCode
  /\ threadToBeDestroyed' = currentThread
  /\ at' = [at EXCEPT ![currentThread] = "Finish"]
  /\ status' = [status EXCEPT ![currentThread] = "BLOCKED"]
  /\ UNCHANGED <<currentThread, readyList, idling>>

-----------------------------------------------------------------------------
\* What the synchronization routines may do: wake sleepers, from the current
\* thread or from an interrupt handler; sleep, from code or from inside an
\* operation; return.
Wake ==
  \E q \in WakeOrders :
    \/ InCode /\ ReadyToRun(q) /\ UNCHANGED idling
    \/ IdleWake(q)

Block ==
  \E o \in Object, q \in WakeOrders :
    /\ Running /\ at[currentThread] \in {"code"} \cup Object
    /\ Sleep(o, q)

Resume == Running /\ at[currentThread] \in Object /\ ReturnToCode

\* The operations that create threads and move them on and off the CPU.
ThreadStep == (\E t \in Thread : Fork(t)) \/ Yield \/ Dispatch

ThreadsNext ==
  \/ ThreadStep
  \/ Finish
  \/ Wake
  \/ Block
  \/ Resume

ThreadsSpec == ThreadsInit /\ [][ThreadsNext]_threadVars

\* The CPU never stops while it has something to do: it runs the next thread,
\* and an operation that was resumed returns or sleeps again.  With -rs, a
\* thread that keeps calling the kernel advances the clock, and the timer keeps
\* asking for time slices.
ThreadsFairness ==
  /\ WF_threadVars(Dispatch)
  /\ WF_threadVars(Resume \/ (~InCode /\ Block))
  /\ SF_threadVars(Yield)

ThreadsFairSpec == ThreadsSpec /\ ThreadsFairness

-----------------------------------------------------------------------------
\* Every thread is in one place: the ready list holds each READY thread once
\* and nothing else, and only the current thread can be RUNNING.
OnePlace ==
  /\ IsInjective(readyList)
  /\ Range(readyList) = {t \in Thread : status[t] = "READY"}
  /\ \A t \in Thread : status[t] = "RUNNING" => t = currentThread

\* The carcass that Scheduler::Run will delete belongs to a finished thread
\* that nothing can run again, and it is never the thread that runs
\* (ASSERT(this != currentThread) in ~Thread).
CarcassNotRunning ==
  threadToBeDestroyed # NULL =>
    /\ at[threadToBeDestroyed] = "Finish"
    /\ status[threadToBeDestroyed] = "BLOCKED"
    /\ Running => threadToBeDestroyed # currentThread

\* A deleted thread is not on the CPU, is not what Run will delete next, and
\* had finished.
NoUseAfterDestroy ==
  \A t \in Thread : status[t] = "DESTROYED" =>
    /\ at[t] = "Finish"
    /\ t # currentThread
    /\ t # threadToBeDestroyed

\* Thread::Finish: "we set threadToBeDestroyed, so that Scheduler::Run() will
\* call the destructor": every finished thread is deleted or is the one that
\* Run will delete next.
CarcassKept ==
  \A t \in Thread : at[t] = "Finish" =>
    status[t] = "DESTROYED" \/ t = threadToBeDestroyed

\* Every step of a synchronization object is one the scheduler allows: it
\* wakes only threads that sleep, and puts to sleep only the current thread.
ImplementsThreads == ThreadsSpec

\* Round-robin: a thread on the ready list gets the CPU.
ReadyRuns == \A t \in Thread : status[t] = "READY" ~> status[t] = "RUNNING"

=============================================================================
