------------------------------- MODULE MCOffice -------------------------------
(* Two clients and the only application clerk.                                *)
EXTENDS Office

CONSTANTS c1, c2, a1, mgr

MCLines == [d \in Desk |-> 1]
MCWorksAt == [k \in {a1} |-> "Application"]
MCNumber == [k \in {a1} |-> 0]
NoSemaphore == <<>>
MCShifts == {[desks |-> {"Application"}, staff |-> {c1, c2, a1, mgr}, visits |-> 1]}
=============================================================================
