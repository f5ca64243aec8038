-------------------------------- MODULE Office --------------------------------
(****************************************************************************)
(* The passport office of threads/threadtest.cc: clients, four kinds of     *)
(* clerk, the manager and one monitor for each kind of desk.  A program is  *)
(* the list of the kernel calls its thread makes; what the thread does      *)
(* between two calls cannot be interrupted and is part of the later one.    *)
(*                                                                          *)
(* No client has ever bribed (nothing calls moveUpInLine), so the bribe     *)
(* lines are always empty.  The queues of SSNs, requirements and            *)
(* certifications are pushed and popped with clerkLineCount, and what is    *)
(* read from them is only printed, or decides how often a clerk yields.     *)
(* Senators come in and leave, and no clerk ever has money to count.        *)
(****************************************************************************)
EXTENDS Synch, FiniteSetsExt

CONSTANTS
  Client, Clerk, Manager,  \* the threads Problem2 forks
  Lines,                   \* how many clerks each kind of desk has
  WorksAt, Number,         \* of a clerk: its desk, and its place in the order
                           \* in which the clerks of the desk were created
  Shifts                   \* bounds: the desks that are visited, the threads
                           \* that take part, and how many lines a client
                           \* joins, for each instance to explore

Desk == {"Application", "Picture", "Passport", "Cashier"}
LinesOf(d) == 0..(Lines[d] - 1)

\* The objects each monitor allocates.
MonitorLock(d) == <<"MonitorLock", d, 0>>
LineLock(d, i) == <<"clerkLineLock", d, i>>
LineCV(d, i) == <<"clerkLineCV", d, i>>

LocksOf(d) == {MonitorLock(d)} \cup {LineLock(d, i) : i \in LinesOf(d)}
DeskLocks == UNION {LocksOf(d) : d \in Desk}
DeskCVs == UNION {{LineCV(d, i) : i \in LinesOf(d)} : d \in Desk}

Staff == Client \cup Clerk \cup {Manager}

\* The numbers that the menu of Problem2 takes: of clients, and of the clerks of
\* one desk.
MenuCustomers == 1..50
MenuClerks == 1..5

ASSUME OfficeAssumption ==
  /\ Staff \subseteq Process
  /\ Cardinality(Client) \in MenuCustomers
  /\ \A d \in Desk : Lines[d] \in MenuClerks
  /\ WorksAt \in [Clerk -> Desk]
  /\ Number \in [Clerk -> Nat]
  /\ \A k \in Clerk : Number[k] \in LinesOf(WorksAt[k])
  /\ \A s \in Shifts : /\ s.desks \subseteq Desk /\ s.desks # {}
                       /\ s.staff \subseteq Staff
                       /\ s.visits \in Nat
  /\ DeskLocks \subseteq Locks
  /\ DeskCVs \subseteq Conditions

VARIABLES
  shift,           \* the instance
  desk,            \* where each thread is
  myLine,          \* the thread's local variable
  pc,              \* the next call of its program
  progress,        \* of a client: the flags of class Client that are set
  visits,          \* of a client: how many lines it has joined
  clerkLineCount,  \* the fields of the monitors
  clerkState,
  picturesTaken

deskVars == <<clerkLineCount, clerkState, picturesTaken>>
officeVars == <<shift, desk, myLine, pc, progress, visits, deskVars>>

Flag == {"applicationAccepted", "pictureTaken", "certified", "done"}

-----------------------------------------------------------------------------
\* The constructors of the monitors: no client in line, every clerk available.
\* none is what getSmallestLine returns when every line is full.
ApplicationMonitor == [count |-> 0, state |-> 0, none |-> -1]
PictureMonitor == [count |-> 0, state |-> 0, none |-> -1]
PassportMonitor == [count |-> 0, state |-> 0, none |-> -1]
CashierMonitor == [count |-> 0, state |-> 0, none |-> 0]

Monitor(d) ==
  CASE d = "Application" -> ApplicationMonitor
    [] d = "Picture" -> PictureMonitor
    [] d = "Passport" -> PassportMonitor
    [] d = "Cashier" -> CashierMonitor

\* The programs of the clients: one call of join...Line.
joinApplicationLine ==
  <<"AcquireMonitor", "ChooseLine", "GoToCounter", "AcquireLine",
    "Signal", "Wait", "Accepted", "ReleaseLine">>
joinPictureLine ==
  <<"AcquireMonitor", "ChooseLine", "GoToCounter", "AcquireLine",
    "Pose", "Wait", "Judge", "ReleaseLine">>
joinPassportLine ==
  <<"AcquireMonitor", "ChooseLine", "GoToCounter", "AcquireLine",
    "Signal", "Wait", "Certify", "Signal", "ReleaseLine">>
joinCashierLine ==
  <<"AcquireMonitor", "ChooseLine", "GoToCounter", "AcquireLine",
    "Signal", "Wait", "Pay", "Signal", "ReleaseLine">>

join(d) ==
  CASE d = "Application" -> joinApplicationLine
    [] d = "Picture" -> joinPictureLine
    [] d = "Passport" -> joinPassportLine
    [] d = "Cashier" -> joinCashierLine

\* The programs of the clerks: one round of the loop of run.
ApplicationClerk_run ==
  <<"AcquireMonitor", "LookAtLine", "CallClient", "LeaveMonitor",
    "Wait", "Signal", "Wait", "ReleaseLine">>
PictureClerk_run ==
  <<"AcquireMonitor", "LookOrBreak", "CallClient", "AcquireLine",
    "LeaveMonitor",
    "Wait", "Shoot", "AwaitVerdict", "ReleaseLine">>
PassportClerk_run ==
  <<"AcquireMonitor", "LookAtLine", "CallClient", "LeaveMonitor",
    "Wait", "Signal", "Wait", "ReleaseLine">>
Cashier_run ==
  <<"AcquireMonitor", "LookAtLine", "CallClient", "LeaveMonitor",
    "Wait", "Signal", "Wait", "ReleaseLine">>

run(d) ==
  CASE d = "Application" -> ApplicationClerk_run
    [] d = "Picture" -> PictureClerk_run
    [] d = "Passport" -> PassportClerk_run
    [] d = "Cashier" -> Cashier_run

Calls(p) == IF p \in Client THEN join(desk[p]) ELSE run(desk[p])

\* The line a clerk works for.  The constructor of ApplicationClerk never
\* returns, so that applicationClerkID is never incremented.
createApplicationClerk(k) == 0
createPassportClerk(k) == Number[k]
createPictureClerk(k) == Number[k]
createCashier(k) == Number[k]

ClerkLine(k) ==
  CASE WorksAt[k] = "Application" -> createApplicationClerk(k)
    [] WorksAt[k] = "Picture" -> createPictureClerk(k)
    [] WorksAt[k] = "Passport" -> createPassportClerk(k)
    [] WorksAt[k] = "Cashier" -> createCashier(k)

\* Manager::run goes round the desks for ever.
Rounds == SelectSeq(<<"Application", "Picture", "Passport", "Cashier">>,
                    LAMBDA d : d \in shift.desks)

\* picturesTaken has an element for each customer; those that belong to a line.
Pictures == {i \in LinesOf("Picture") : i < Cardinality(Client)}

\* Problem2 after its menu: the monitors are made and the threads forked.
\* picturesTaken is not initialised.
OfficeInit ==
  /\ shift \in Shifts
  /\ desk = [p \in Staff |-> IF p \in Clerk THEN WorksAt[p]
                              ELSE IF p = Manager THEN Rounds[1] ELSE NULL]
  /\ myLine = [p \in Staff |-> IF p \in Clerk THEN ClerkLine(p) ELSE 0]
  /\ pc = [p \in Staff |-> 1]
  /\ progress = [p \in Client |-> {}]
  /\ visits = [p \in Client |-> 0]
  /\ clerkLineCount = [d \in Desk |-> [i \in LinesOf(d) |-> Monitor(d).count]]
  /\ clerkState = [d \in Desk |-> [i \in LinesOf(d) |-> Monitor(d).state]]
  /\ picturesTaken \in [Pictures -> BOOLEAN]

-----------------------------------------------------------------------------
\* The thread's program is at step, and it goes on n calls further, or at the
\* call named to.
At(p, step) ==
  InCode(p) /\ desk[p] # NULL /\ Calls(p)[pc[p]] = step
Move(p, n) == pc' = [pc EXCEPT ![p] = @ + n]
Jump(p, to) ==
  pc' = [pc EXCEPT ![p] = CHOOSE n \in DOMAIN Calls(p) : Calls(p)[n] = to]

myMonitor(p) == MonitorLock(desk[p])
myLock(p) == LineLock(desk[p], myLine[p])
myCV(p) == LineCV(desk[p], myLine[p])

SetState(p, i, n) == clerkState' = [clerkState EXCEPT ![desk[p]][i] = n]

\* A client changes nothing of the office outside the desk it is at.
Same == UNCHANGED <<shift, desk, myLine, progress, visits>>

\* Mutant: the last of the smallest lines.
getSmallestLine_Last(d) ==
  LET count == clerkLineCount[d]
      smallest == {i \in LinesOf(d) : count[i] < 50 /\ \A j \in LinesOf(d) : count[i] <= count[j]}
  IN  IF smallest = {} THEN Monitor(d).none ELSE Max(smallest)

\* getSmallestLine: the first of the smallest lines.
getSmallestLine(d) ==
  LET count == clerkLineCount[d]
      smallest == {i \in LinesOf(d) : count[i] < 50 /\ \A j \in LinesOf(d) : count[i] <= count[j]}
  IN  IF smallest = {} THEN Monitor(d).none ELSE Min(smallest)

\* The loop of the constructor of Client: which lines it may join next.
MayJoin(p, d) ==
  /\ "done" \notin progress[p]
  /\ d = "Application" => "applicationAccepted" \notin progress[p]
  /\ d = "Picture" => "pictureTaken" \notin progress[p]
  /\ d = "Passport" => "certified" \notin progress[p]

JoinLine(p) ==
  /\ pc[p] = 1 /\ visits[p] < shift.visits
  /\ \E d \in shift.desks :
       /\ MayJoin(p, d)
       /\ desk' = [desk EXCEPT ![p] = d]
       /\ Acquire(p, MonitorLock(d))
  /\ visits' = [visits EXCEPT ![p] = @ + 1]
  /\ Move(p, 1)
  /\ UNCHANGED <<shift, myLine, progress, deskVars>>

\* join...Line after Acquire: the client finds a line, and stands in it if
\* the clerk is busy.
ChooseLine(p) ==
  LET d == desk[p]
      i == getSmallestLine(d)
  IN  /\ At(p, "ChooseLine")
      /\ myLine' = [myLine EXCEPT ![p] = i]
      /\ IF clerkState[d][i] = 1
           THEN /\ clerkLineCount' = [clerkLineCount EXCEPT ![d][i] = @ + 1]
                /\ Wait(p, LineCV(d, i), MonitorLock(d))
                /\ Move(p, 1)
                /\ UNCHANGED clerkState
           ELSE /\ SetState(p, i, 1)
                /\ Release(p, MonitorLock(d))
                /\ Move(p, 2)
                /\ UNCHANGED clerkLineCount
      /\ UNCHANGED <<shift, desk, progress, visits, picturesTaken>>

GoToCounter(p) ==
  /\ At(p, "GoToCounter")
  /\ SetState(p, myLine[p], 1)
  /\ Release(p, myMonitor(p))
  /\ Move(p, 1)
  /\ Same /\ UNCHANGED <<clerkLineCount, picturesTaken>>

\* The calls that clients and clerks make alike.
PlainCall(p) ==
  /\ \/ At(p, "AcquireMonitor") /\ p \in Clerk /\ Acquire(p, myMonitor(p))
     \/ At(p, "LeaveMonitor") /\ Release(p, myMonitor(p))
     \/ At(p, "AcquireLine") /\ Acquire(p, myLock(p))
     \/ At(p, "Signal") /\ Signal(p, myCV(p), myLock(p))
     \/ At(p, "Wait") /\ Wait(p, myCV(p), myLock(p))
  /\ Move(p, 1)
  /\ Same /\ UNCHANGED deskVars

\* The client takes itself out of the line, in which it may never have been:
\* a client that found the clerk free pops a queue it did not push to.
LeaveLine(p, flags) ==
  /\ clerkLineCount' = [clerkLineCount EXCEPT ![desk[p]][myLine[p]] = @ - 1]
  /\ progress' = [progress EXCEPT ![p] = @ \cup flags]
  /\ UNCHANGED <<shift, desk, myLine, visits, clerkState>>

SignalCounter(p) == Signal(p, myCV(p), myLock(p))

\* joinApplicationLine after its second Wait.
Accepted(p) ==
  /\ At(p, "Accepted")
  /\ LeaveLine(p, {"applicationAccepted"})
  /\ SignalCounter(p)
  /\ Move(p, 1)
  /\ UNCHANGED picturesTaken

\* joinPictureLine: the client poses until it likes the picture.
Pose(p) ==
  /\ At(p, "Pose")
  /\ picturesTaken' = [picturesTaken EXCEPT ![myLine[p]] = FALSE]
  /\ SignalCounter(p)
  /\ Move(p, 1)
  /\ Same /\ UNCHANGED <<clerkLineCount, clerkState>>

Dislike(p) ==
  /\ At(p, "Judge")
  /\ SignalCounter(p)
  /\ Jump(p, "Wait")
  /\ Same /\ UNCHANGED deskVars

Like(p) ==
  /\ At(p, "Judge")
  /\ picturesTaken' = [picturesTaken EXCEPT ![myLine[p]] = TRUE]
  /\ LeaveLine(p, {"pictureTaken"})
  /\ SignalCounter(p)
  /\ Move(p, 1)

\* joinPassportLine and joinCashierLine after the second Wait.  A client that
\* has come too soon yields many times before it signals.
Settle(p, required, flag) ==
  /\ IF required \subseteq progress[p]
       THEN LeaveLine(p, {flag}) /\ SignalCounter(p) /\ Move(p, 2)
       ELSE LeaveLine(p, {}) /\ UNCHANGED synchVars /\ Move(p, 1)
  /\ UNCHANGED picturesTaken

Certify(p) ==
  At(p, "Certify") /\ Settle(p, {"applicationAccepted", "pictureTaken"}, "certified")

Pay(p) == At(p, "Pay") /\ Settle(p, {"certified"}, "done")

\* The end of join...Line and of the loop of a clerk.
ReleaseLine(p) ==
  /\ At(p, "ReleaseLine")
  /\ Release(p, myLock(p))
  /\ pc' = [pc EXCEPT ![p] = 1]
  /\ IF p \in Client
       THEN /\ desk' = [desk EXCEPT ![p] = NULL]
            /\ myLine' = [myLine EXCEPT ![p] = 0]
       ELSE UNCHANGED <<desk, myLine>>
  /\ UNCHANGED <<shift, progress, visits, deskVars>>

-----------------------------------------------------------------------------
LineEmpty(p) == clerkLineCount[desk[p]][myLine[p]] <= 0

\* A clerk with clients in line: Signal, then clerkState.
CallFromLine(p) ==
  /\ At(p, "LookAtLine") \/ At(p, "LookOrBreak")
  /\ ~LineEmpty(p)
  /\ Signal(p, myCV(p), myMonitor(p))
  /\ Move(p, 1)
  /\ Same /\ UNCHANGED deskVars

CallClient(p) ==
  /\ At(p, "CallClient")
  /\ SetState(p, myLine[p], 1)
  /\ Acquire(p, myLock(p))
  /\ Jump(p, "LeaveMonitor")
  /\ Same /\ UNCHANGED <<clerkLineCount, picturesTaken>>

\* Mutant: the Wait that is commented out in three of the four clerks.
GoOnBreak_Waits(p) ==
  /\ At(p, "LookAtLine")
  /\ LineEmpty(p)
  /\ SetState(p, myLine[p], 2)
  /\ Wait(p, myCV(p), myLock(p))
  /\ Jump(p, "CallClient")
  /\ Same /\ UNCHANGED <<clerkLineCount, picturesTaken>>

\* "Going on break" of an application clerk, a passport clerk or a cashier:
\* the break is over at once.
GoOnBreak(p) ==
  /\ At(p, "LookAtLine")
  /\ LineEmpty(p)
  /\ SetState(p, myLine[p], 2)
  /\ Acquire(p, myLock(p))
  /\ Jump(p, "LeaveMonitor")
  /\ Same /\ UNCHANGED <<clerkLineCount, picturesTaken>>

\* A picture clerk on break waits, inside the monitor.
BreakInMonitor(p) ==
  /\ At(p, "LookOrBreak")
  /\ LineEmpty(p)
  /\ SetState(p, myLine[p], 2)
  /\ Wait(p, myCV(p), myLock(p))
  /\ Jump(p, "AcquireLine")
  /\ Same /\ UNCHANGED <<clerkLineCount, picturesTaken>>

\* The picture clerk's loop: until the client likes the picture.
Shoot(p) ==
  /\ At(p, "Shoot")
  /\ IF picturesTaken[myLine[p]]
       THEN UNCHANGED synchVars /\ Jump(p, "ReleaseLine")
       ELSE SignalCounter(p) /\ Move(p, 1)
  /\ Same /\ UNCHANGED deskVars

AwaitVerdict(p) ==
  /\ At(p, "AwaitVerdict")
  /\ Wait(p, myCV(p), myLock(p))
  /\ Jump(p, "Shoot")
  /\ Same /\ UNCHANGED deskVars

-----------------------------------------------------------------------------
\* Manager::wakeupClerks at one desk.
ManagerEnter ==
  /\ pc[Manager] = 1
  /\ Acquire(Manager, myMonitor(Manager))
  /\ Move(Manager, 1)
  /\ Same /\ UNCHANGED deskVars

\* The lines of the manager's desk, from its place in the loop on, whose
\* clerk it finds on break with three clients waiting.
ToWake ==
  {i \in LinesOf(desk[Manager]) : /\ i >= myLine[Manager]
                               /\ clerkLineCount[desk[Manager]][i] >= 3
                               /\ clerkState[desk[Manager]][i] = 2}

wakeupClerks ==
  LET d == desk[Manager]
      n == CHOOSE n \in DOMAIN Rounds : Rounds[n] = d
  IN  /\ pc[Manager] = 2
      /\ IF ToWake # {}
           THEN /\ Signal(Manager, LineCV(d, Min(ToWake)), LineLock(d, Min(ToWake)))
                /\ myLine' = [myLine EXCEPT ![Manager] = Min(ToWake) + 1]
                /\ UNCHANGED <<desk, pc>>
           ELSE /\ Release(Manager, MonitorLock(d))
                /\ myLine' = [myLine EXCEPT ![Manager] = 0]
                /\ desk' = [desk EXCEPT ![Manager] = Rounds[(n % Len(Rounds)) + 1]]
                /\ Move(Manager, -1)
      /\ UNCHANGED <<shift, progress, visits, deskVars>>

ManagerStep == ManagerEnter \/ wakeupClerks

-----------------------------------------------------------------------------
AtCounter(p) ==
  \/ ChooseLine(p) \/ GoToCounter(p) \/ PlainCall(p) \/ Accepted(p)
  \/ Pose(p) \/ Dislike(p) \/ Like(p) \/ Certify(p) \/ Pay(p) \/ ReleaseLine(p)

ClerkStep(p) ==
  \/ PlainCall(p) \/ CallFromLine(p) \/ CallClient(p) \/ GoOnBreak(p)
  \/ BreakInMonitor(p) \/ Shoot(p) \/ AwaitVerdict(p) \/ ReleaseLine(p)

GoOn(p) ==
  /\ ~InCode(p) /\ Resume(p)
  /\ Same /\ UNCHANGED <<pc, deskVars>>

OfficeNext ==
  \/ \E p \in Client \cap shift.staff : JoinLine(p) \/ AtCounter(p)
  \/ \E p \in Clerk \cap shift.staff : ClerkStep(p)
  \/ Manager \in shift.staff /\ ManagerStep
  \/ \E p \in shift.staff : GoOn(p)

OfficeSpec == SynchInit /\ OfficeInit /\ [][OfficeNext]_<<synchVars, officeVars>>

-----------------------------------------------------------------------------
\* The values the fields and the local variables take.
OfficeTypeOK ==
  /\ desk \in [Staff -> Desk \cup {NULL}]
  /\ pc \in [Staff -> 1..9]
  /\ progress \in [Client -> SUBSET Flag]
  /\ \A d \in Desk : /\ clerkLineCount[d] \in [LinesOf(d) -> Int]
                     /\ clerkState[d] \in [LinesOf(d) -> 0..2]
  /\ picturesTaken \in [Pictures -> BOOLEAN]

\* The thread indexes the queues or picturesTaken by its line: a client in
\* join...Line, a clerk that has clients in line or whose client has come.
IndexesByLine(p) ==
  /\ desk[p] # NULL
  /\ \/ p \in Client
     \/ p \in Clerk /\ (~LineEmpty(p) \/ At(p, "Signal") \/ At(p, "Shoot"))

\* The queues and picturesTaken of a monitor are arrays of as many elements
\* as there are customers, and are indexed by line: however many clerks there
\* are, no client stands in a line that has none, and a clerk of such a line
\* never gets beyond its first Wait to look at one.
InBounds ==
  \A p \in shift.staff : IndexesByLine(p) => myLine[p] < Cardinality(Client)

\* A picture clerk on break sleeps inside PMonitorLock, and comes back from
\* the break inside its line's lock, which it then acquires again.
BreakHolds(p, l) ==
  /\ p \in Clerk /\ desk[p] = "Picture"
  /\ \/ l = myMonitor(p) /\ where[p] = myCV(p) /\ Calls(p)[pc[p]] = "AcquireLine"
     \/ l = myLock(p) /\ where[p] = myLock(p)

\* The locks of the office keep moving: while threads wait for one, another
\* is inside or on its way in, and whoever is inside runs, or is a clerk inside
\* the monitor that waits for its own line's lock.  The one exception is the
\* break of the picture clerk, which may keep clients and the manager out.
LocksMove ==
  /\ OfficeTypeOK
  /\ \A l \in UNION {LocksOf(d) : d \in shift.desks} :
       /\ lockQueue[l] # <<>> =>
            \E p \in shift.staff \ Range(lockQueue[l]) : p \in inside[l] \/ where[p] = l
       /\ \A p \in inside[l] :
            \/ where[p] = NULL
            \/ p \in Clerk /\ l = myMonitor(p) /\ where[p] = myLock(p)
            \/ BreakHolds(p, l)

\* "Clerks go on break when they have no one waiting in their line"
\* (WriteUp.txt:21): while a clerk is marked as on break, no client sleeps in
\* its line.  The code goes by clerkLineCount, from which every client that
\* found the clerk free is subtracted without ever having been added.
BreakWhenNobodyWaits ==
  \A d \in Desk : \A i \in LinesOf(d) :
    clerkState[d][i] = 2 =>
      \A p \in Range(waitQueue[LineCV(d, i)]) : conditionLock[p] # MonitorLock(d)
=============================================================================
