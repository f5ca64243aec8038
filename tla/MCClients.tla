------------------------------ MODULE MCClients ------------------------------
(* One semaphore starts closed and one open, as those of SynchDisk and the  *)
(* test suite. A program has both; or two locks and a condition; or one     *)
(* object of each kind, as the mailboxes and devices have together.         *)
EXTENDS Clients

CONSTANTS s1, s2, l1, l2, c1

MCInitialValue == [s \in {s1, s2} |-> IF s = s1 THEN 0 ELSE 1]
MCPrograms == {{s1, s2}, {l1, l2, c1}, {s1, l1, c1}}
=============================================================================
