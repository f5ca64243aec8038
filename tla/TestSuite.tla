------------------------------ MODULE TestSuite ------------------------------
(****************************************************************************)
(* The tests of locks and conditions in threads/threadtest.cc, run on the   *)
(* models of the objects they test.  A thread's procedure is a program: the *)
(* sequence of the synchronization calls it makes.  Printing and the loops  *)
(* that only spend time are left out.                                       *)
(****************************************************************************)
EXTENDS Semaphore, Condition

CONSTANTS
  Tests,   \* the tests to run, each by itself: a subset of 1..5
  Waiter   \* the waiters of Tests 3 and 4 in the order they are forked; the
           \* source has five

ASSUME TestAssumption == Tests \subseteq 1..5

VARIABLES
  test,  \* the test that runs
  pc     \* the next call of each thread's program

objectVars == <<semVars, lockVars, condVars>>
testVars == <<threadVars, objectVars, test, pc>>

-----------------------------------------------------------------------------
\* Test 1: t1_t1 holds t1_l1, t1_t2 waits for it, t1_t3 releases it.
t1_t1 == << <<"Acquire", "l1">>, <<"V", "s1">>, <<"P", "s3">>,
            <<"Release", "l1">>, <<"V", "done">> >>
t1_t2 == << <<"P", "s1">>, <<"V", "s2">>, <<"Acquire", "l1">>,
            <<"Release", "l1">>, <<"V", "done">> >>
t1_t3 == << <<"P", "s2">>, <<"V", "s3">>, <<"Release", "l1">>,
            <<"Release", "l1">>, <<"Release", "l1">> >>
t1_main == << <<"Fork", "t1_t1">>, <<"Fork", "t1_t2">>, <<"Fork", "t1_t3">>,
              <<"P", "done">>, <<"P", "done">> >>

\* Test 2: a Signal that nobody waits for, then a Wait.
t2_t1 == << <<"Acquire", "l1">>, <<"Signal", "c1", "l1">>, <<"Release", "l1">>,
            <<"V", "s1">>, <<"V", "done">> >>
t2_t2 == << <<"P", "s1">>, <<"Acquire", "l1">>, <<"Wait", "c1", "l1">>,
            <<"Release", "l1">> >>
t2_main == << <<"Fork", "t2_t1">>, <<"Fork", "t2_t2">>, <<"P", "done">> >>

\* Tests 3 and 4: every waiter waits, then one Signal or one Broadcast.
waiter == << <<"Acquire", "l1">>, <<"V", "s1">>, <<"Wait", "c1", "l1">>,
             <<"Release", "l1">>, <<"V", "done">> >>
AllReady == [i \in DOMAIN Waiter |-> <<"P", "s1">>]
t3_signaller == AllReady \o << <<"Acquire", "l1">>, <<"Signal", "c1", "l1">>,
                               <<"Release", "l1">>, <<"V", "done">> >>
t4_signaller == AllReady \o << <<"Acquire", "l1">>, <<"Broadcast", "c1">>,
                               <<"Release", "l1">>, <<"V", "done">> >>
ForkWaiters == [i \in DOMAIN Waiter |-> <<"Fork", Waiter[i]>>]
t3_main == ForkWaiters \o << <<"Fork", "signaller">>, <<"P", "done">>,
                             <<"P", "done">> >>
t4_main == ForkWaiters \o << <<"Fork", "signaller">>, <<"P", "done">> >>
             \o [i \in DOMAIN Waiter |-> <<"P", "done">>]

\* Test 5: a Wait under t5_l1, a Signal under t5_l2.
t5_t1 == << <<"Acquire", "l1">>, <<"V", "s1">>, <<"Wait", "c1", "l1">>,
            <<"Release", "l1">> >>
t5_t2 == << <<"P", "s1">>, <<"Acquire", "l1">>, <<"Acquire", "l2">>,
            <<"Signal", "c1", "l2">>, <<"Release", "l2">>, <<"Release", "l1">> >>
t5_main == << <<"Fork", "t5_t1">>, <<"Fork", "t5_t2">> >>

Test1 == [main |-> t1_main, t1_t1 |-> t1_t1, t1_t2 |-> t1_t2, t1_t3 |-> t1_t3]
Test2 == [main |-> t2_main, t2_t1 |-> t2_t1, t2_t2 |-> t2_t2]
Test3 == [t \in Range(Waiter) \cup {"main", "signaller"} |->
            CASE t = "main" -> t3_main
              [] t = "signaller" -> t3_signaller
              [] OTHER -> waiter]
Test4 == [t \in Range(Waiter) \cup {"main", "signaller"} |->
            CASE t = "main" -> t4_main
              [] t = "signaller" -> t4_signaller
              [] OTHER -> waiter]
Test5 == [main |-> t5_main, t5_t1 |-> t5_t1, t5_t2 |-> t5_t2]

\* What the current thread's program is.
Program == (CASE test = 1 -> Test1
              [] test = 2 -> Test2
              [] test = 3 -> Test3
              [] test = 4 -> Test4
              [] test = 5 -> Test5)[currentThread]

-----------------------------------------------------------------------------
TestInit ==
  /\ ThreadsInit /\ SemInit /\ LocksInit /\ ConditionsInit
  /\ test \in Tests
  /\ pc = [t \in Thread |-> 1]

\* The call c, made by the current thread.
Make(c) ==
  \/ c[1] = "Fork" /\ Fork(c[2]) /\ UNCHANGED objectVars
  \/ c[1] = "P" /\ InCode /\ P(c[2]) /\ UNCHANGED <<lockVars, condVars>>
  \/ c[1] = "V" /\ V(c[2]) /\ UNCHANGED <<lockVars, condVars>>
  \/ c[1] = "Acquire" /\ Acquire(c[2]) /\ UNCHANGED <<semVars, condVars>>
  \/ c[1] = "Release" /\ Release(c[2]) /\ UNCHANGED <<semVars, condVars>>
  \/ c[1] = "Wait" /\ Wait(c[2], c[3]) /\ UNCHANGED semVars
  \/ c[1] = "Signal" /\ Signal(c[2], c[3]) /\ UNCHANGED semVars
  \/ c[1] = "Broadcast" /\ Broadcast(c[2]) /\ UNCHANGED semVars

NextCall ==
  /\ InCode
  /\ pc[currentThread] <= Len(Program)
  /\ Make(Program[pc[currentThread]])
  /\ pc' = [pc EXCEPT ![currentThread] = @ + 1]
  /\ UNCHANGED test

\* The rest of a call that slept.
Continue ==
  /\ \/ \E s \in Semaphores :
          Resumed(s) /\ P(s) /\ UNCHANGED <<lockVars, condVars>>
     \/ \E l \in Locks : AcquireResumed(l) /\ UNCHANGED <<semVars, condVars>>
     \/ \E c \in Conditions : WaitResumed(c) /\ UNCHANGED semVars
  /\ UNCHANGED <<test, pc>>

\* ThreadRoot calls Finish when the procedure returns; main does so itself.
Done ==
  /\ InCode
  /\ pc[currentThread] > Len(Program)
  /\ Finish
  /\ UNCHANGED <<objectVars, test, pc>>

Switch == Dispatch /\ UNCHANGED <<objectVars, test, pc>>
Preempt == Yield /\ UNCHANGED <<objectVars, test, pc>>

TestNext == NextCall \/ Continue \/ Done \/ Switch \/ Preempt

TestSpec == TestInit /\ [][TestNext]_testVars

\* The CPU never stops, and is not taken by time slices alone.  Which thread
\* goes on does not matter: every program is finite.
TestFairSpec == TestSpec /\ WF_testVars(NextCall \/ Continue \/ Done \/ Switch)

-----------------------------------------------------------------------------
Completed(t) == at[t] = "Finish"

\* The machine halts: every thread sleeps and nothing will wake one.
Halted == ~Running /\ readyList = <<>>

\* Test 2: "Signals are not stored"; "it is an error if thread t2_t2
\* completes".
SignalNotStored == ~Completed("t2_t2")

\* Test 3: "Signal only wakes 1 thread": never two waiters, and one in the end.
OneReleased ==
  LET released == {t \in Range(Waiter) : Completed(t)}
  IN  test = 3 => /\ Cardinality(released) <= 1
                  /\ Halted => released # {}

\* Test 4, "Broadcast wakes all waiting threads", for the threads that are
\* waiting: in the end some waiter is released, and one that is not sleeps in
\* its Wait, none in Acquire.  "All t4_waiters will be released" does not hold:
\* a waiter that returned from Acquire without owning the lock announces
\* itself, and the signaller may broadcast before it calls Wait.
BroadcastReaches ==
  test = 4 /\ Halted =>
    /\ \E t \in Range(Waiter) : Completed(t)
    /\ \A t \in Range(Waiter) : Completed(t) \/ t \in Range(waitQueue["c1"])
    /\ Completed("signaller")

\* Test 5: "it is an error if thread t5_t1 completes": a Signal under another
\* lock than the waiter's wakes nobody.
WrongLockIgnored == ~Completed("t5_t1")

\* Tests 1, 2, 3 and 5 come to an end: every thread that they do not leave
\* waiting on purpose completes.
TestCompletes ==
  /\ test \in {1, 2, 3, 5} ~> Completed("main")
  /\ test = 1 ~> Completed("t1_t1") /\ Completed("t1_t2")
  /\ test = 3 ~> Completed("signaller")
  /\ test = 5 ~> Completed("t5_t2")

\* What the tests announce on the screen, under every interleaving: a signal
\* is not stored, Signal releases one waiter, Broadcast strands none of those
\* it finds waiting, and the wrong lock releases none.
TestVerdicts == SignalNotStored /\ OneReleased /\ BroadcastReaches /\ WrongLockIgnored

=============================================================================
