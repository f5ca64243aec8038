----------------------------- MODULE MCTestSuite -----------------------------
(* The semaphores of the test suite all start closed.  Tests 3 and 4 are run *)
(* with three of their five waiters.                                         *)
EXTENDS TestSuite

Closed == [s \in {"s1", "s2", "s3", "done"} |-> 0]
ThreeWaiters == <<"waiter0", "waiter1", "waiter2">>
=============================================================================
