------------------------------ MODULE Interrupt ------------------------------
(****************************************************************************)
(* The simulation of interrupts and of time (machine/interrupt.cc), with    *)
(* the timer (machine/timer.cc) and devices that ask for an interrupt.      *)
(*                                                                          *)
(* Kernel code is what the other modules are about.  Here it is a client    *)
(* that turns interrupts off and on, starts device operations and, in       *)
(* Thread::Sleep, calls Idle.  Time is relative: a pending interrupt is due *)
(* in so many ticks, and advancing the clock brings all of them nearer.     *)
(****************************************************************************)
EXTENDS Integers, Sequences, FiniteSets

CONSTANTS
  Devices,      \* devices with one request at a time: disk, console display
  RequestTime,  \* how long a request may take
  ConsoleTime,  \* the time between two polls of the keyboard
  TimerTicks,   \* the average time between timer interrupts
  SystemTick    \* what the clock advances when interrupts are turned on

ASSUME InterruptAssumption ==
  /\ Devices \cap {"TimerInt", "ConsoleReadInt"} = {}
  /\ RequestTime \subseteq Nat \ {0}
  /\ ConsoleTime \in Nat \ {0}
  /\ TimerTicks \in Nat \ {0}
  /\ SystemTick \in Nat \ {0}

VARIABLES
  level,          \* Interrupt::level
  pending,        \* Interrupt::pending, the next interrupt first
  yieldOnReturn,  \* Interrupt::yieldOnReturn
  status,         \* Interrupt::status
  active,         \* Disk::active and Console::putBusy: the busy devices
  pc              \* what runs: kernel code, a loop of this module, or nothing

interruptVars == <<level, pending, yieldOnReturn, status, active, pc>>

\* The values the variables take; the list of interrupts is kept in the order
\* of time, which is what lets CheckIfDue look at its first element only.
InterruptTypeOK ==
  /\ level \in {"IntOff", "IntOn"}
  /\ pending \in Seq([due : Int, type : Devices \cup {"TimerInt", "ConsoleReadInt"}])
  /\ \A i, j \in DOMAIN pending : i <= j => pending[i].due <= pending[j].due
  /\ yieldOnReturn \in BOOLEAN
  /\ status \in {"SystemMode", "IdleMode"}
  /\ active \subseteq Devices
  /\ pc \in {"kernel", "OneTick", "Idle", "IdleLoop", "Halt"}

-----------------------------------------------------------------------------
\* List::SortedInsert: after every element whose key is not greater.
SortedInsert(q, x) ==
  LET n == Cardinality({i \in DOMAIN q : q[i].due <= x.due})
  IN  SubSeq(q, 1, n) \o <<x>> \o SubSeq(q, n + 1, Len(q))

\* Interrupt::Schedule.
Schedule(q, type, fromNow) == SortedInsert(q, [due |-> fromNow, type |-> type])

\* The interrupts of q when the clock has advanced by ticks.
Advance(q, ticks) == [i \in DOMAIN q |-> [q[i] EXCEPT !.due = @ - ticks]]

\* CheckIfDue removes the first interrupt and inserts it again.
PutBack(q) == IF q = <<>> THEN q ELSE SortedInsert(Tail(q), Head(q))

Pending(type) == {i \in DOMAIN pending : pending[i].type = type}

Due(q) == q # <<>> /\ Head(q).due <= 0

\* Mutant: does not look at what else is pending.
TimerAlone_First(q) == Head(q).type = "TimerInt" /\ status = "IdleMode"

\* Nothing is left to wait for: the machine idles, and only the timer would
\* interrupt.
TimerAlone(q) == Len(q) = 1 /\ Head(q).type = "TimerInt" /\ status = "IdleMode"

\* Timer::TimeOfNextInterrupt, with -rs.
TimeOfNextInterrupt == 1 .. 2 * TimerTicks

\* CheckIfDue runs the handler of the first interrupt of q.  The handlers of
\* the timer and of the keyboard ask for their next interrupt first.  A
\* handler runs in SystemMode, whatever the status was, so that the handler
\* of the timer always asks for a time slice.
Fire(q) ==
  \/ /\ Head(q).type = "TimerInt"
     /\ \E t \in TimeOfNextInterrupt : pending' = Schedule(Tail(q), "TimerInt", t)
     /\ yieldOnReturn' = TRUE
     /\ UNCHANGED active
  \/ /\ Head(q).type = "ConsoleReadInt"
     /\ pending' = Schedule(Tail(q), "ConsoleReadInt", ConsoleTime)
     /\ UNCHANGED <<yieldOnReturn, active>>
  \/ /\ Head(q).type \in Devices
     /\ pending' = Tail(q)
     /\ active' = active \ {Head(q).type}
     /\ UNCHANGED yieldOnReturn

-----------------------------------------------------------------------------
\* Initialize, before it turns interrupts on: the timer runs with -rs.
InterruptInit ==
  /\ level = "IntOff"
  /\ pending \in {<<>>} \cup {Schedule(<<>>, "TimerInt", t) : t \in TimeOfNextInterrupt}
  /\ yieldOnReturn = FALSE
  /\ status = "SystemMode"
  /\ active = {}
  /\ pc = "kernel"

\* SetLevel(IntOff).
Disable ==
  /\ pc = "kernel" /\ level = "IntOn"
  /\ level' = "IntOff"
  /\ UNCHANGED <<pending, yieldOnReturn, status, active, pc>>

\* SetLevel(IntOn), or Enable: the clock advances and OneTick begins, with
\* interrupts off again.
Enable ==
  /\ pc = "kernel" /\ level = "IntOff"
  /\ pending' = Advance(pending, SystemTick)
  /\ pc' = "OneTick"
  /\ UNCHANGED <<level, yieldOnReturn, status, active>>

\* The loop of OneTick runs what is due.
TickFire ==
  /\ pc = "OneTick"
  /\ Due(pending)
  /\ Fire(pending)
  /\ UNCHANGED <<level, status, pc>>

\* Mutant: an if in the place of the loop: OneTick runs one interrupt at most.
TickDone_If ==
  /\ pc = "OneTick"
  /\ pending' = PutBack(pending)
  /\ level' = IF yieldOnReturn THEN "IntOff" ELSE "IntOn"
  /\ yieldOnReturn' = FALSE
  /\ pc' = "kernel"
  /\ UNCHANGED <<status, active>>

\* The end of OneTick.  A thread that yields turns interrupts off, and the
\* thread that gets the CPU has them off.
TickDone ==
  /\ pc = "OneTick"
  /\ ~Due(pending)
  /\ pending' = PutBack(pending)
  /\ level' = IF yieldOnReturn THEN "IntOff" ELSE "IntOn"
  /\ yieldOnReturn' = FALSE
  /\ pc' = "kernel"
  /\ UNCHANGED <<status, active>>

\* Thread::Sleep finds no ready thread and calls Idle.
CallIdle ==
  /\ pc = "kernel" /\ level = "IntOff"
  /\ status' = "IdleMode"
  /\ pc' = "Idle"
  /\ UNCHANGED <<level, pending, yieldOnReturn, active>>

\* CheckIfDue(TRUE): the clock jumps to the next interrupt, if that is not
\* over already.
IdleFirst ==
  LET q == Advance(pending, IF Due(pending) THEN 0 ELSE Head(pending).due)
  IN  /\ pc = "Idle"
      /\ pending # <<>>
      /\ IF TimerAlone(q)
           THEN /\ pending' = q
                /\ pc' = "Halt"
                /\ UNCHANGED <<yieldOnReturn, active>>
           ELSE Fire(q) /\ pc' = "IdleLoop"
      /\ UNCHANGED <<level, status>>

IdleNothing ==
  /\ pc = "Idle"
  /\ pending = <<>>
  /\ pc' = "Halt"
  /\ UNCHANGED <<level, pending, yieldOnReturn, status, active>>

\* Mutant: the loop of Idle calls CheckIfDue(TRUE), which advances the clock.
IdleFire_Advance ==
  /\ pc = "IdleLoop"
  /\ pending # <<>> /\ ~TimerAlone(pending)
  /\ Fire(Advance(pending, IF Due(pending) THEN 0 ELSE Head(pending).due))
  /\ UNCHANGED <<level, status, pc>>

\* The loop of Idle runs what else is due.
IdleFire ==
  /\ pc = "IdleLoop"
  /\ Due(pending) /\ ~TimerAlone(pending)
  /\ Fire(pending)
  /\ UNCHANGED <<level, status, pc>>

\* Mutant: keeps the demand for a time slice.
IdleDone_KeepsYield ==
  /\ pc = "IdleLoop"
  /\ ~Due(pending) \/ TimerAlone(pending)
  /\ pending' = PutBack(pending)
  /\ status' = "SystemMode"
  /\ pc' = "kernel"
  /\ UNCHANGED <<level, yieldOnReturn, active>>

\* Idle returns to the loop of Sleep.
IdleDone ==
  /\ pc = "IdleLoop"
  /\ ~Due(pending) \/ TimerAlone(pending)
  /\ pending' = PutBack(pending)
  /\ yieldOnReturn' = FALSE
  /\ status' = "SystemMode"
  /\ pc' = "kernel"
  /\ UNCHANGED <<level, active>>

\* Disk::ReadRequest, WriteRequest and Console::PutChar.
Request(d) ==
  /\ pc = "kernel"
  /\ d \notin active
  /\ \E t \in RequestTime : pending' = Schedule(pending, d, t)
  /\ active' = active \cup {d}
  /\ UNCHANGED <<level, yieldOnReturn, status, pc>>

\* The constructor of Console; the program has one console.
NewConsole ==
  /\ pc = "kernel"
  /\ Pending("ConsoleReadInt") = {}
  /\ pending' = Schedule(pending, "ConsoleReadInt", ConsoleTime)
  /\ UNCHANGED <<level, yieldOnReturn, status, active, pc>>

Simulate == TickFire \/ TickDone \/ IdleFirst \/ IdleNothing \/ IdleFire \/ IdleDone

InterruptNext ==
  \/ Disable \/ Enable \/ CallIdle \/ NewConsole
  \/ \E d \in Devices : Request(d)
  \/ Simulate

InterruptSpec == InterruptInit /\ [][InterruptNext]_interruptVars

\* The simulation itself never stops.  Threads that run keep calling the
\* kernel, which turns interrupts off and on again: simulated time passes in
\* no other way.
InterruptFairSpec ==
  /\ InterruptSpec
  /\ WF_interruptVars(Simulate)
  /\ WF_interruptVars(Disable)
  /\ WF_interruptVars(Enable \/ CallIdle)

-----------------------------------------------------------------------------
\* Interrupts are served in time: when code runs with interrupts on, nothing
\* that is due is still pending.
NoneOverdue ==
  pc = "kernel" /\ level = "IntOn" => \A i \in DOMAIN pending : pending[i].due > 0

\* A busy device has its interrupt to come, exactly one, and an idle device
\* none: handlers and requests never lose or repeat one.
OneInterruptEach ==
  \A d \in Devices : Cardinality(Pending(d)) = IF d \in active THEN 1 ELSE 0

\* "If there are no pending interrupts, stop": the machine halts only when no
\* device will ever wake a thread.
HaltsWhenDone == pc = "Halt" => active = {} /\ Pending("ConsoleReadInt") = {}

\* The demand for a time slice dies in the call of OneTick or Idle in which
\* the timer made it: it never hits a thread that was given the CPU later.
SliceNotStale == pc = "kernel" => ~yieldOnReturn

\* The timer and the poll of the keyboard, once started, keep going: each
\* always has its next interrupt to come, and never a second one, which would
\* double its rate.
TimersKept ==
  [][\A type \in {"TimerInt", "ConsoleReadInt"} :
       Pending(type) # {} => Cardinality(Pending(type)') = 1]_interruptVars

\* Every request is answered.
RequestAnswered == \A d \in Devices : d \in active ~> d \notin active

\* Idle returns to a thread or halts the machine; it does not run timers for
\* ever.
IdleEnds == pc = "Idle" ~> pc \in {"kernel", "Halt"}

\* The list of pending interrupts agrees with the devices and the clock: it is
\* sorted, has one interrupt for each busy device, and nothing in it is late.
InterruptsKept == InterruptTypeOK /\ NoneOverdue /\ OneInterruptEach

\* The simulation serves its users: timers keep going, requests are answered
\* and Idle comes to an end, however the handlers schedule new interrupts.
UsersServed == TimersKept /\ RequestAnswered /\ IdleEnds

=============================================================================
