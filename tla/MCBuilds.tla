------------------------------- MODULE MCBuilds -------------------------------
(***************************************************************************)
(* An office with a picture clerk and a cashier, two application clerks and *)
(* four lines at the passport desk, of which the first and the last have a  *)
(* clerk that gets the CPU; two threads on a disk of two tracks of three    *)
(* sectors; readers, writers and the echo at one console; two machines with *)
(* a MailTest each, over a reliable and over a lossy network; two senders   *)
(* that contend for one machine's network, and two receivers for a mailbox. *)
(***************************************************************************)
EXTENDS Builds, TLC

CONSTANTS c1, c2, c3, a1, a2, p1, pp1, pp4, k1, mgr,
          d1, d2, r1, r2, r3, x1, x2, x3, e, w1, w2, u1, u2, s1, s2, g1, g2,
          m1, m2

MCLines ==
  [d \in Desk |-> IF d = "Application" THEN 2 ELSE IF d = "Passport" THEN 4 ELSE 1]
MCWorksAt == [k \in {a1, a2} |-> "Application"] @@ [k \in {pp1, pp4} |-> "Passport"]
               @@ p1 :> "Picture" @@ k1 :> "Cashier"
MCNumber == a2 :> 1 @@ pp4 :> 3 @@ [k \in {a1, p1, pp1, k1} |-> 0]
Shift(d, people, n) == [desks |-> d, staff |-> people, visits |-> n]
MCShifts ==
  {Shift({"Application"}, {c1, c2, a1}, 1), Shift({"Application"}, {c1, a1, a2}, 1),
   Shift({"Picture"}, {c1, c2, p1, mgr}, 1), Shift({"Passport"}, {c1, pp1, mgr}, 2),
   Shift({"Cashier"}, {c1, c2, k1}, 1), Shift(Desk, {c1}, 5),
   Shift(Desk, {c1, c2}, 2),
   Shift({"Passport"}, {c1, c2, c3}, 1), Shift({"Passport"}, {c1, pp4}, 1),
   Shift({"Picture", "Cashier"}, {c1, p1, k1, mgr}, 1),
   Shift({"Cashier"}, {}, 0)}

MCTyped == <<"a", "b", "newline", "quit">>
MCLine == <<"x", "y">>
MCCrews == {{}, {r1, r2, r3}, {x1, x2, x3}, {r1, x1, x2}, {e}}

MCWorker == m1 :> w1 @@ m2 :> w2
MCOn == [p \in {w1, u1, s1, s2} |-> m1] @@ [p \in {w2, u2, g1, g2} |-> m2]
MCFar == [p \in {u1, s1, s2} |-> m2] @@ [p \in {u2, g1, g2} |-> m1]
MailTest == <<"greet", "get0", "ack", "get1", "halt">>
MCProgram == [p \in {u1, u2} |-> MailTest]
               @@ s1 :> <<"greet">> @@ s2 :> <<"greet", "greet">>
               @@ [p \in {g1, g2} |-> <<"get0">>]
Post(users, loses) == [users |-> users, lossy |-> loses]
MCPosts == {Post({}, FALSE), Post({u1, u2}, FALSE), Post({u1, u2}, TRUE),
            Post({s1, s2}, FALSE), Post({s2, g1, g2}, FALSE)}

MCSemaphores ==
  {<<"diskSemaphore", 0, 0>>, <<"inputAvailable", 0, 0>>, <<"outputDone", 0, 0>>}
    \cup {<<s, m, 0>> : s \in {"messageAvailable", "messageSent"}, m \in {m1, m2}}
MCLocks ==
  {<<"diskLock", 0, 0>>, <<"inputMutex", 0, 0>>, <<"outputMutex", 0, 0>>}
    \cup {<<"sendLock", m, 0>> : m \in {m1, m2}}
    \cup {<<"boxLock", m, b>> : m \in {m1, m2}, b \in {0, 1}} \cup DeskLocks
MCConditions == {<<"listEmpty", m, b>> : m \in {m1, m2}, b \in {0, 1}} \cup DeskCVs
MCInitialValue == [s \in MCSemaphores |-> 0]
MCdiskLock == <<"diskLock", 0, 0>>
MCdiskSemaphore == <<"diskSemaphore", 0, 0>>
MCinputMutex == <<"inputMutex", 0, 0>>
MCoutputMutex == <<"outputMutex", 0, 0>>
MCinputAvailable == <<"inputAvailable", 0, 0>>
MCoutputDone == <<"outputDone", 0, 0>>
=============================================================================
