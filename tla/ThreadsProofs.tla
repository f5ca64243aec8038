---------------------------- MODULE ThreadsProofs ----------------------------
(****************************************************************************)
(* Proofs about Threads, for any number of threads and of synchronization   *)
(* objects: every thread is in one place, and a finished thread is deleted  *)
(* once, by another thread.                                                 *)
(****************************************************************************)
EXTENDS Threads, QueueLemmas, FiniteSetTheorems

Ready == {t \in Thread : status[t] = "READY"}

\* The inductive invariant.
ThreadsInv == ThreadsTypeOK /\ OnePlace /\ CarcassNotRunning /\ NoUseAfterDestroy

\* An order in which sleepers are woken is a list that holds some of them.
LEMMA WakeOrderHolds ==
  ASSUME NEW q \in WakeOrders
  PROVE  Range(q) \subseteq Asleep /\ Holds(q, Range(q))
<1>1. PICK n \in 0 .. Cardinality(Asleep) : q \in [1 .. n -> Asleep] /\ IsInjective(q)
  BY DEF WakeOrders, Injection
<1>2. n \in Nat
  OBVIOUS
<1>3. q \in Seq(Asleep)
  BY <1>1, <1>2
<1>4. Range(q) \subseteq Asleep
  BY <1>1 DEF Range
<1> QED BY <1>1, <1>3, <1>4, SeqOfRange DEF Holds

-----------------------------------------------------------------------------
\* A thread that a routine may make ready: not on the ready list, not on the
\* CPU, not deleted and not finished.
Wakeable == {t \in Thread : \/ status[t] = "JUST_CREATED"
                            \/ status[t] = "BLOCKED" /\ at[t] # "Finish"}

\* Scheduler::ReadyToRun keeps the invariant.
LEMMA ReadyToRunInv ==
  ASSUME ThreadsInv, NEW q, Holds(q, Range(q)), Range(q) \subseteq Wakeable,
         ReadyToRun(q), idling' \in BOOLEAN
  PROVE  ThreadsInv'
<1> USE DEF ThreadsInv
<1>1. /\ status' = Readied(q) /\ readyList' = readyList \o q
      /\ UNCHANGED <<currentThread, threadToBeDestroyed, at>>
  BY DEF ReadyToRun
<1>2. Ready' = Ready \cup Range(q)
  BY <1>1 DEF Ready, Readied, Wakeable, ThreadsTypeOK
<1>3. Holds(readyList', Ready')
  <2>1. Holds(readyList, Ready)
    BY HoldsRange DEF ThreadsTypeOK, OnePlace, Ready
  <2>2. Ready \cap Range(q) = {}
    BY DEF Ready, Wakeable
  <2> QED BY <1>1, <1>2, <2>1, <2>2, HoldsConcat
<1>4. ThreadsTypeOK'
  <2>1. Ready' \subseteq Thread
    BY DEF Ready
  <2>2. readyList' \in Seq(Thread)
    BY <1>3, <2>1, SMT DEF Holds
  <2>3. status' \in [Thread -> ThreadStatus]
    BY <1>1 DEF Readied, ThreadsTypeOK, ThreadStatus
  <2> QED BY <1>1, <2>2, <2>3 DEF ThreadsTypeOK
<1>5. \A t \in Thread : status'[t] = "RUNNING" => t = currentThread'
  BY <1>1 DEF Readied, OnePlace
<1>6. OnePlace'
  BY <1>3, <1>5 DEF OnePlace, Holds, Ready
<1>7. CarcassNotRunning'
  BY <1>1 DEF CarcassNotRunning, Running, Readied, Wakeable, ThreadsTypeOK
<1>8. NoUseAfterDestroy'
  BY <1>1 DEF NoUseAfterDestroy, Readied, Wakeable, ThreadsTypeOK
<1> QED BY <1>4, <1>6, <1>7, <1>8

\* Scheduler::Run keeps the invariant, when the thread it takes off the ready
\* list is READY and gives up its place there: the other READY threads are M.
LEMMA RunInv ==
  ASSUME ThreadsInv, NEW next, NEW before \in [Thread -> ThreadStatus], NEW M,
         next \in Thread, before[next] = "READY",
         \A t \in Thread : before[t] # "RUNNING",
         \A t \in Thread : before[t] \in {"BLOCKED", "DESTROYED"}
                             => before[t] = status[t],
         threadToBeDestroyed # NULL => before[threadToBeDestroyed] = "BLOCKED",
         {t \in Thread : before[t] = "READY"} = M \cup {next}, next \notin M,
         Holds(readyList', M), Run(next, before), idling' \in BOOLEAN
  PROVE  ThreadsInv'
<1> USE DEF ThreadsInv
<1>1. /\ currentThread' = next
      /\ status' \in [Thread -> ThreadStatus]
      /\ threadToBeDestroyed' \in Thread \cup {NULL}
      /\ at' \in [Thread -> Place \cup Object]
  BY DEF Run, ThreadsTypeOK, ThreadStatus, Place
<1>2. /\ status'[next] = "RUNNING"
      /\ \A t \in Thread \ {next} :
           status'[t] = IF t = threadToBeDestroyed /\ at[next] # "ThreadRoot"
                          THEN "DESTROYED" ELSE before[t]
  BY ThreadAssumption DEF Run, ThreadsTypeOK
<1>3. Ready' = M
  <2>1. \A t \in Thread \ {next} : status'[t] = "READY" <=> before[t] = "READY"
    BY <1>2, ThreadAssumption
  <2> QED BY <1>2, <2>1 DEF Ready
<1>4. OnePlace'
  BY <1>1, <1>2, <1>3 DEF OnePlace, Holds, Ready
<1>5. readyList' \in Seq(Thread)
  <2>1. M \subseteq Thread
    OBVIOUS
  <2> QED BY <2>1, SMT DEF Holds
<1>6. ThreadsTypeOK'
  BY <1>1, <1>5 DEF ThreadsTypeOK
<1>7. CASE at[next] = "ThreadRoot"
  <2>1. /\ threadToBeDestroyed' = threadToBeDestroyed
        /\ \A t \in Thread \ {next} : at'[t] = at[t] /\ status'[t] = before[t]
    BY <1>2, <1>7 DEF Run, ThreadsTypeOK
  <2>2. CarcassNotRunning'
    BY <1>1, <1>2, <2>1 DEF CarcassNotRunning, Running, ThreadsTypeOK
  <2>3. NoUseAfterDestroy'
    BY <1>1, <1>2, <2>1 DEF NoUseAfterDestroy, ThreadsTypeOK
  <2> QED BY <1>4, <1>6, <2>2, <2>3
<1>8. CASE at[next] # "ThreadRoot"
  <2>1. threadToBeDestroyed' = NULL /\ at' = at
    BY <1>8 DEF Run
  <2>2. CarcassNotRunning'
    BY <2>1 DEF CarcassNotRunning
  <2>3. NoUseAfterDestroy'
    BY <1>1, <1>2, <2>1, ThreadAssumption
    DEF NoUseAfterDestroy, CarcassNotRunning, ThreadsTypeOK
  <2> QED BY <1>4, <1>6, <2>2, <2>3
<1> QED BY <1>7, <1>8

\* Thread::Sleep keeps the invariant: the current thread is RUNNING, so it is
\* neither on the ready list nor the carcass.
LEMMA SleepInv ==
  ASSUME ThreadsInv, Running, NEW o \in Object, NEW q,
         Holds(q, Range(q)), Range(q) \subseteq Asleep, Sleep(o, q)
  PROVE  ThreadsInv'
<1> USE DEF ThreadsInv
<1>1. /\ status' = [Readied(q) EXCEPT ![currentThread] = "BLOCKED"]
      /\ at' = [at EXCEPT ![currentThread] = o]
      /\ readyList' = readyList \o q
      /\ UNCHANGED <<currentThread, threadToBeDestroyed, idling>>
  BY DEF Sleep
<1>2. /\ currentThread \notin Range(q)
      /\ status'[currentThread] = "BLOCKED"
      /\ \A t \in Thread \ {currentThread} :
           status'[t] = IF t \in Range(q) THEN "READY" ELSE status[t]
  BY <1>1 DEF Running, Asleep, AsleepIn, Readied, ThreadsTypeOK
<1>3. Ready' = Ready \cup Range(q)
  BY <1>2 DEF Ready, Running, Asleep, AsleepIn, ThreadsTypeOK
<1>4. Holds(readyList', Ready')
  <2>1. Holds(readyList, Ready)
    BY HoldsRange DEF ThreadsTypeOK, OnePlace, Ready
  <2>2. Ready \cap Range(q) = {}
    BY DEF Ready, Asleep, AsleepIn
  <2> QED BY <1>1, <1>3, <2>1, <2>2, HoldsConcat
<1>5. ThreadsTypeOK'
  <2>1. Ready' \subseteq Thread
    BY DEF Ready
  <2>2. readyList' \in Seq(Thread)
    BY <1>4, <2>1, SMT DEF Holds
  <2> QED BY <1>1, <2>2 DEF Readied, ThreadsTypeOK, ThreadStatus
<1>6. \A t \in Thread : status'[t] = "RUNNING" => t = currentThread'
  BY <1>1, <1>2 DEF OnePlace
<1>7. OnePlace'
  BY <1>4, <1>6 DEF OnePlace, Holds, Ready
<1>8. CarcassNotRunning'
  BY <1>1, <1>2, ThreadAssumption
  DEF CarcassNotRunning, Running, Asleep, AsleepIn, ThreadsTypeOK, Place
<1>9. NoUseAfterDestroy'
  BY <1>1, <1>2 DEF NoUseAfterDestroy, ThreadsTypeOK
<1> QED BY <1>5, <1>7, <1>8, <1>9

\* Every step of the scheduler keeps the invariant.
LEMMA ThreadsStep ==
  ASSUME ThreadsInv, [ThreadsNext]_threadVars
  PROVE  ThreadsInv'
<1> USE DEF ThreadsInv
<1>0. Holds(readyList, Ready)
  BY HoldsRange DEF ThreadsTypeOK, OnePlace, Ready
<1>1. ASSUME NEW t \in Thread, Fork(t)
      PROVE  ThreadsInv'
  <2>1. Holds(<<t>>, {t}) /\ Range(<<t>>) = {t}
    BY HoldsOne DEF Holds
  <2>2. t \in Wakeable
    BY <1>1 DEF Fork, Wakeable, InCode, Running
  <2> QED BY <1>1, <2>1, <2>2, ReadyToRunInv DEF Fork, ThreadsTypeOK
<1>2. CASE Yield
  <2> DEFINE next == Head(readyList)
             before == [status EXCEPT ![currentThread] = "READY"]
             M == (Ready \ {next}) \cup {currentThread}
  <2>1. /\ currentThread \in Thread /\ status[currentThread] = "RUNNING"
        /\ readyList # <<>> /\ readyList' = Append(Tail(readyList), currentThread)
        /\ Run(next, before) /\ idling' = idling
    BY <1>2 DEF Yield, InCode, Running, ThreadsTypeOK
  <2>2. next \in Ready /\ Holds(Tail(readyList), Ready \ {next})
    BY <1>0, <2>1, HoldsTail
  <2>3. Holds(readyList', M)
    <3>1. currentThread \notin Ready \ {next}
      BY <2>1 DEF Ready
    <3> QED BY <2>1, <2>2, <3>1, HoldsAppend
  <2>4. /\ before \in [Thread -> ThreadStatus]
        /\ next \in Thread /\ before[next] = "READY" /\ next # currentThread
        /\ \A t \in Thread : before[t] # "RUNNING"
        /\ \A t \in Thread : before[t] \in {"BLOCKED", "DESTROYED"}
                               => before[t] = status[t]
    BY <2>1, <2>2 DEF ThreadsTypeOK, ThreadStatus, Ready, OnePlace
  <2>5. threadToBeDestroyed # NULL => before[threadToBeDestroyed] = "BLOCKED"
    BY <2>1 DEF CarcassNotRunning, Running, ThreadsTypeOK
  <2>6. {t \in Thread : before[t] = "READY"} = M \cup {next} /\ next \notin M
    BY <2>1, <2>2, <2>4 DEF ThreadsTypeOK, Ready
  <2>7. idling' \in BOOLEAN
    BY <2>1 DEF ThreadsTypeOK
  <2> HIDE DEF next, before, M
  <2> QED BY <2>1, <2>3, <2>4, <2>5, <2>6, <2>7, RunInv
<1>3. CASE Dispatch
  <2> DEFINE next == Head(readyList)
             M == Ready \ {next}
  <2>1. /\ status[currentThread] # "RUNNING"
        /\ readyList # <<>> /\ readyList' = Tail(readyList)
        /\ Run(next, status) /\ idling' \in BOOLEAN
    BY <1>3 DEF Dispatch, Running
  <2>2. next \in Ready /\ Holds(readyList', M)
    BY <1>0, <2>1, HoldsTail
  <2>3. /\ status \in [Thread -> ThreadStatus]
        /\ next \in Thread /\ status[next] = "READY"
        /\ \A t \in Thread : status[t] # "RUNNING"
    BY <2>1, <2>2 DEF ThreadsTypeOK, Ready, OnePlace
  <2>4. threadToBeDestroyed # NULL => status[threadToBeDestroyed] = "BLOCKED"
    BY DEF CarcassNotRunning
  <2>5. {t \in Thread : status[t] = "READY"} = M \cup {next} /\ next \notin M
    BY <2>2 DEF Ready
  <2> HIDE DEF next, M
  <2> QED BY <2>1, <2>2, <2>3, <2>4, <2>5, RunInv
<1>4. CASE Finish
  <2>1. /\ status[currentThread] = "RUNNING"
        /\ status' = [status EXCEPT ![currentThread] = "BLOCKED"]
        /\ at' = [at EXCEPT ![currentThread] = "Finish"]
        /\ threadToBeDestroyed' = currentThread
        /\ UNCHANGED <<currentThread, readyList, idling>>
    BY <1>4 DEF Finish, InCode, Running
  <2>2. ThreadsTypeOK'
    BY <2>1 DEF ThreadsTypeOK, ThreadStatus, Place
  <2>3. Ready' = Ready
    BY <2>1 DEF Ready, ThreadsTypeOK
  <2>4. \A t \in Thread : status'[t] # "RUNNING"
    BY <2>1 DEF OnePlace, ThreadsTypeOK
  <2>5. OnePlace'
    BY <1>0, <2>1, <2>3, <2>4 DEF OnePlace, Holds, Ready
  <2>6. CarcassNotRunning'
    BY <2>1 DEF CarcassNotRunning, Running, ThreadsTypeOK
  <2>7. NoUseAfterDestroy'
    BY <2>1 DEF NoUseAfterDestroy, ThreadsTypeOK
  <2> QED BY <2>2, <2>5, <2>6, <2>7
<1>5. CASE Wake
  <2>1. PICK q \in WakeOrders : ReadyToRun(q) /\ idling' \in BOOLEAN
    BY <1>5 DEF Wake, IdleWake, ThreadsTypeOK
  <2>2. Range(q) \subseteq Wakeable
    BY WakeOrderHolds, ThreadAssumption DEF Asleep, AsleepIn, Wakeable, Place
  <2> QED BY <2>1, <2>2, WakeOrderHolds, ReadyToRunInv
<1>6. CASE Block
  <2>1. PICK o \in Object, q \in WakeOrders : Running /\ Sleep(o, q)
    BY <1>6 DEF Block
  <2> QED BY <2>1, WakeOrderHolds, SleepInv
<1>7. CASE Resume
  <2>1. /\ status[currentThread] = "RUNNING"
        /\ at' = [at EXCEPT ![currentThread] = "code"]
        /\ UNCHANGED <<currentThread, status, readyList, threadToBeDestroyed, idling>>
    BY <1>7 DEF Resume, ReturnToCode, Running
  <2> QED BY <2>1
    DEF ThreadsTypeOK, OnePlace, CarcassNotRunning, NoUseAfterDestroy, Running, Place
<1>8. CASE UNCHANGED threadVars
  BY <1>8
  DEF threadVars, ThreadsTypeOK, OnePlace, CarcassNotRunning, NoUseAfterDestroy, Running
<1> QED
  BY <1>1, <1>2, <1>3, <1>4, <1>5, <1>6, <1>7, <1>8 DEF ThreadsNext, ThreadStep

\* Initialize leaves the invariant true.
LEMMA ThreadsStart == ThreadsInit => ThreadsInv
<1> SUFFICES ASSUME ThreadsInit PROVE ThreadsInv
  OBVIOUS
<1>1. ThreadsTypeOK
  <2>1. status \in [Thread -> ThreadStatus] /\ at \in [Thread -> Place \cup Object]
    BY DEF ThreadsInit, ThreadStatus, Place
  <2>2. <<>> \in Seq(Thread)
    OBVIOUS
  <2>3. readyList \in Seq(Thread)
    BY <2>2 DEF ThreadsInit
  <2>4. idling \in BOOLEAN
    BY DEF ThreadsInit
  <2> QED BY <2>1, <2>3, <2>4, ThreadAssumption DEF ThreadsInit, ThreadsTypeOK
<1>2. OnePlace
  <2>1. Ready = {}
    BY DEF ThreadsInit, Ready
  <2> QED BY <2>1, HoldsNone DEF ThreadsInit, OnePlace, Holds, Ready
<1>3. CarcassNotRunning /\ NoUseAfterDestroy
  BY DEF ThreadsInit, CarcassNotRunning, NoUseAfterDestroy
<1> QED BY <1>1, <1>2, <1>3 DEF ThreadsInv

\* The invariant holds of the thread system: no thread is on the ready list
\* twice, or there while it sleeps or runs, and Scheduler::Run never deletes
\* the thread that runs (the ASSERT of ~Thread) or deletes a thread twice.
THEOREM ThreadsSafe == ThreadsSpec => []ThreadsInv
BY ThreadsStart, ThreadsStep, PTL DEF ThreadsSpec

\* Every state of the thread system is well typed.
THEOREM ThreadsTyped == ThreadsSpec => []ThreadsTypeOK
BY ThreadsSafe, PTL DEF ThreadsInv

\* Each READY thread is on the ready list once, and only the current thread
\* is RUNNING.
THEOREM ThreadsOnePlace == ThreadsSpec => []OnePlace
BY ThreadsSafe, PTL DEF ThreadsInv

\* What Scheduler::Run will delete is a finished thread off the CPU.
THEOREM ThreadsCarcass == ThreadsSpec => []CarcassNotRunning
BY ThreadsSafe, PTL DEF ThreadsInv

\* A deleted thread is never used again.
THEOREM ThreadsNoUseAfterDestroy == ThreadsSpec => []NoUseAfterDestroy
BY ThreadsSafe, PTL DEF ThreadsInv

-----------------------------------------------------------------------------
(* What the proofs about the synchronization objects need of the threads.   *)

\* List::Remove on a list that holds M takes one of M off it, if it can.
LEMMA HoldsFirst ==
  ASSUME NEW M, NEW q, Holds(q, M)
  PROVE  /\ Range(First(q)) \subseteq M
         /\ Holds(First(q), Range(First(q)))
         /\ Holds(Rest(q), M \ Range(First(q)))
<1>1. CASE q = <<>>
  <2>1. First(q) = <<>> /\ Rest(q) = q /\ Range(<<>>) = {}
    BY <1>1, HoldsNone DEF First, Rest, Holds
  <2> QED BY <2>1, HoldsNone
<1>2. CASE q # <<>>
  <2>1. First(q) = <<Head(q)>> /\ Rest(q) = Tail(q)
    BY <1>2 DEF First, Rest
  <2>2. Holds(<<Head(q)>>, {Head(q)}) /\ Range(<<Head(q)>>) = {Head(q)}
    BY HoldsOne DEF Holds
  <2> QED BY <1>2, <2>1, <2>2, HoldsTail
<1> QED BY <1>1, <1>2

\* A list of sleepers that repeats none is one of the WakeOrders.
LEMMA HoldsWakeOrder ==
  ASSUME NEW M, NEW q, Holds(q, M), M \subseteq Asleep
  PROVE  q \in WakeOrders
<1>1. IsFiniteSet(Asleep)
  <2>1. Asleep \subseteq Thread
    BY DEF Asleep, AsleepIn
  <2> QED BY <2>1, ThreadAssumption, FS_Subset
<1>2. Len(q) \in Nat /\ q \in [1 .. Len(q) -> Asleep]
  BY SMT DEF Holds
<1>3. q \in Injection(1 .. Len(q), Asleep)
  BY <1>2 DEF Holds, Injection
<1>4. Cardinality(1 .. Len(q)) <= Cardinality(Asleep)
  BY <1>1, <1>3, FS_Injection
<1>5. Cardinality(1 .. Len(q)) = Len(q)
  <2>1. Cardinality(1 .. Len(q)) = IF 1 > Len(q) THEN 0 ELSE Len(q) - 1 + 1
    BY <1>2, FS_Interval, 1 \in Int, Len(q) \in Int
  <2> QED BY <1>2, <2>1
<1>6. Cardinality(Asleep) \in Nat
  BY <1>1, FS_CardinalityType
<1>7. Len(q) \in 0 .. Cardinality(Asleep)
  BY <1>2, <1>4, <1>5, <1>6
<1> QED BY <1>3, <1>7 DEF WakeOrders

\* Threads that are woken go from the sleepers of their object to its woken
\* threads, and nothing else changes.
LEMMA WakeMoves ==
  ASSUME ThreadsTypeOK, NEW o, NEW q,
         Range(q) \subseteq AsleepIn(o), status' = Readied(q), at' = at
  PROVE  /\ AsleepIn(o)' = AsleepIn(o) \ Range(q)
         /\ WokenIn(o)' = WokenIn(o) \cup Range(q)
         /\ \A p : p # o => AsleepIn(p)' = AsleepIn(p) /\ WokenIn(p)' = WokenIn(p)
BY DEF AsleepIn, WokenIn, Readied, ThreadsTypeOK

\* A thread that wakes the threads of q and goes to sleep in o leaves the
\* operation it was in.
LEMMA SleepWakeMoves ==
  ASSUME ThreadsTypeOK, Running, NEW o \in Object, NEW q,
         Range(q) \subseteq Asleep, Sleep(o, q)
  PROVE  \A p \in Object :
           /\ AsleepIn(p)' = (AsleepIn(p) \ Range(q))
                               \cup (IF p = o THEN {currentThread} ELSE {})
           /\ WokenIn(p)' = (WokenIn(p) \cup (AsleepIn(p) \cap Range(q)))
                              \ {currentThread}
<1>1. /\ status' = [Readied(q) EXCEPT ![currentThread] = "BLOCKED"]
      /\ at' = [at EXCEPT ![currentThread] = o]
      /\ currentThread \in Thread
  BY DEF Sleep, ThreadsTypeOK
<1>2. currentThread \notin Range(q) /\ \A t \in Range(q) : status[t] = "BLOCKED"
  BY DEF Asleep, AsleepIn, Running
<1>3. \A t \in Thread :
        /\ at'[t] = IF t = currentThread THEN o ELSE at[t]
        /\ status'[t] = IF t = currentThread THEN "BLOCKED"
                        ELSE IF t \in Range(q) THEN "READY" ELSE status[t]
  BY <1>1 DEF Readied, ThreadsTypeOK
<1> QED BY <1>1, <1>2, <1>3 DEF AsleepIn, WokenIn, Running

\* A thread that goes to sleep in o, from its code or from an operation of o.
LEMMA SleepMoves ==
  ASSUME ThreadsTypeOK, Running, NEW o \in Object, Sleep(o, <<>>),
         at[currentThread] \in {"code", o}
  PROVE  /\ AsleepIn(o)' = AsleepIn(o) \cup {currentThread}
         /\ WokenIn(o)' = WokenIn(o) \ {currentThread}
         /\ \A p \in Object : p # o =>
              AsleepIn(p)' = AsleepIn(p) /\ WokenIn(p)' = WokenIn(p)
<1>1. Range(<<>>) = {}
  BY HoldsNone DEF Holds
<1>2. \A p \in Object : p # o => currentThread \notin WokenIn(p)
  BY ThreadAssumption DEF WokenIn, Place
<1> QED BY <1>1, <1>2, SleepWakeMoves

\* A thread that returns from an operation of o to its code.
LEMMA ReturnMoves ==
  ASSUME ThreadsTypeOK, Running, ReturnToCode,
         NEW o \in Object, at[currentThread] \in {"code", o}
  PROVE  /\ WokenIn(o)' = WokenIn(o) \ {currentThread}
         /\ \A p \in Object : AsleepIn(p)' = AsleepIn(p)
         /\ \A p \in Object : p # o => WokenIn(p)' = WokenIn(p)
<1>1. "code" \notin Object
  BY ThreadAssumption DEF Place
<1>2. at' = [at EXCEPT ![currentThread] = "code"] /\ status' = status
  BY DEF ReturnToCode
<1> QED BY <1>1, <1>2 DEF AsleepIn, WokenIn, Running, ThreadsTypeOK

\* The first thread of the ready list is READY.
LEMMA HeadReady ==
  ASSUME ThreadsInv, readyList # <<>>
  PROVE  Head(readyList) \in Thread /\ status[Head(readyList)] = "READY"
<1>1. Holds(readyList, Ready)
  BY HoldsRange DEF ThreadsInv, ThreadsTypeOK, OnePlace, Ready
<1>2. Head(readyList) \in Ready
  BY <1>1, HoldsTail
<1> QED BY <1>2 DEF Ready

\* The operations of the scheduler itself move nobody in or out of an object.
LEMMA ThreadStepMoves ==
  ASSUME ThreadsInv, ThreadStep \/ Finish, NEW o \in Object
  PROVE  AsleepIn(o)' = AsleepIn(o) /\ WokenIn(o)' = WokenIn(o)
<1> USE DEF ThreadsInv
<1>0. o \notin Place
  BY ThreadAssumption
<1>1. ASSUME NEW t \in Thread, Fork(t)
      PROVE  AsleepIn(o)' = AsleepIn(o) /\ WokenIn(o)' = WokenIn(o)
  <2>1. Range(<<t>>) = {t}
    BY HoldsOne DEF Holds
  <2>2. status[t] = "JUST_CREATED" /\ status' = Readied(<<t>>) /\ at' = at
    BY <1>1 DEF Fork, ReadyToRun
  <2> QED BY <2>1, <2>2 DEF Readied, AsleepIn, WokenIn, ThreadsTypeOK
<1>2. CASE Yield
  <2>1. Head(readyList) \in Thread /\ status[Head(readyList)] = "READY"
    BY <1>2, HeadReady DEF Yield
  <2>2. /\ status[currentThread] = "RUNNING"
        /\ Run(Head(readyList), [status EXCEPT ![currentThread] = "READY"])
    BY <1>2 DEF Yield, InCode, Running
  <2> QED BY <1>0, <2>1, <2>2
    DEF Run, AsleepIn, WokenIn, ThreadsTypeOK, CarcassNotRunning, Running, Place
<1>3. CASE Dispatch
  <2>1. Head(readyList) \in Thread /\ status[Head(readyList)] = "READY"
    BY <1>3, HeadReady DEF Dispatch
  <2>2. Run(Head(readyList), status)
    BY <1>3 DEF Dispatch
  <2> QED BY <1>0, <2>1, <2>2
    DEF Run, AsleepIn, WokenIn, ThreadsTypeOK, CarcassNotRunning, Place
<1>4. CASE Finish
  BY <1>0, <1>4 DEF Finish, InCode, Running, AsleepIn, WokenIn, ThreadsTypeOK, Place
<1> QED BY <1>1, <1>2, <1>3, <1>4 DEF ThreadStep

=============================================================================
