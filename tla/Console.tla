------------------------------- MODULE Console -------------------------------
(***************************************************************************)
(* machine/console.cc, userprog/synchconsole.cc and the ConsoleTest of      *)
(* userprog/progtest.cc: a keyboard that is polled and holds one character, *)
(* a display that takes one at a time, and the threads that read and write  *)
(* whole lines through them.                                                *)
(***************************************************************************)
EXTENDS Synch

CONSTANTS
  Reader, Writer, Echo,        \* threads in ReadLine, WriteLine, ConsoleTest
  Crews,                       \* which of them there are: a choice of sets
  inputMutex, outputMutex,     \* of SynchConsole
  inputAvailable, outputDone,  \* of SynchConsole, and of ConsoleTest
  Typed,                       \* the characters typed at the keyboard, in turn
  Newline, Quit, EOF,          \* '\n', 'q', and what an empty buffer holds
  LineSize,                    \* ReadLine's size
  Line                         \* what a writer writes

(* A typed character equal to EOF (0xff, a char being signed) would be taken *)
(* for an empty buffer; it is left out.                                     *)
ASSUME ConsoleAssumption ==
  EOF \notin Range(Typed) /\ LineSize \in Nat \ {0} /\ Line # << >>

VARIABLES
  crew,          \* the threads of this run
  keyboard,      \* characters typed and not yet polled
  incoming, putBusy,           \* of Console
  display,       \* characters written to the display, and by whom
  consolePC,     \* "out", "in" the lock, in the P for "input" or "output" or
                 \* past it, "done"
  buffer,        \* what a reader has read, what a writer has left to write,
                 \* the character Echo holds
  crashed        \* an ASSERT has failed

deviceVars == <<keyboard, incoming, putBusy, display>>
consoleVars == <<crew, deviceVars, consolePC, buffer, crashed>>

ConsoleThread == Reader \cup Writer \cup Echo

ConsoleInit ==
  /\ crew \in Crews
  /\ keyboard = Typed /\ incoming = EOF /\ putBusy = FALSE
  /\ display = << >> /\ crashed = FALSE
  /\ consolePC = [p \in ConsoleThread |-> "out"]
  /\ buffer = [p \in ConsoleThread |-> IF p \in Writer THEN Line ELSE << >>]

To(p, label) == consolePC' = [consolePC EXCEPT ![p] = label]
Holding(p, chars) == buffer' = [buffer EXCEPT ![p] = chars]

-----------------------------------------------------------------------------
(* The device. *)

(* The poll, when it finds room in the buffer and a character. *)
CheckCharAvail ==
  /\ incoming = EOF /\ keyboard # << >>
  /\ incoming' = Head(keyboard) /\ keyboard' = Tail(keyboard)
  /\ V(inputAvailable)
  /\ UNCHANGED <<crew, putBusy, display, consolePC, buffer, crashed>>

WriteDone ==
  /\ putBusy /\ putBusy' = FALSE
  /\ V(outputDone)
  /\ UNCHANGED <<crew, keyboard, incoming, display, consolePC, buffer,
                 crashed>>

(* Mutant: the buffer is not emptied. *)
GetChar_Keeps(p, chars) ==
  /\ Holding(p, Append(chars, incoming))
  /\ UNCHANGED <<incoming, keyboard>>

(* GetChar by p, who keeps the character behind "chars". *)
GetChar(p, chars) ==
  /\ Holding(p, Append(chars, incoming))
  /\ incoming' = EOF /\ UNCHANGED keyboard

(* PutChar, once its assertion holds. *)
PutChar(p, ch) ==
  ~putBusy /\ putBusy' = TRUE /\ display' = Append(display, <<p, ch>>)

-----------------------------------------------------------------------------
(* SynchConsole::ReadLine.  The character is taken after P has returned,    *)
(* other threads and the keyboard may have moved in between.                *)

ReadLine(p) ==
  /\ p \in Reader /\ consolePC[p] = "out" /\ Acquire(p, inputMutex)
  /\ To(p, "in") /\ UNCHANGED <<crew, deviceVars, buffer, crashed>>

FirstChar(p) ==
  /\ p \in Reader /\ consolePC[p] = "in" /\ InCode(p) /\ P(p, inputAvailable)
  /\ To(p, "input") /\ UNCHANGED <<crew, deviceVars, buffer, crashed>>

(* The condition of its loop, for the characters read so far. *)
LineOpen(line) == Len(line) < LineSize /\ line[Len(line)] # Newline

NextChar(p) ==
  /\ p \in Reader /\ consolePC[p] = "input" /\ InCode(p)
  /\ GetChar(p, buffer[p])
  /\ \/ /\ LineOpen(buffer'[p]) /\ P(p, inputAvailable)
        /\ UNCHANGED consolePC
     \/ /\ ~LineOpen(buffer'[p]) /\ Release(p, inputMutex)
        /\ To(p, "done")
  /\ UNCHANGED <<crew, putBusy, display, crashed>>

(* A P that has been woken tests its semaphore again. *)
AwaitDevice(p, s) ==
  /\ where[p] = s /\ s \in {inputAvailable, outputDone} /\ P(p, s)
  /\ UNCHANGED consoleVars

-----------------------------------------------------------------------------
(* SynchConsole::WriteLine. *)

WriteLine(p) ==
  /\ p \in Writer /\ consolePC[p] = "out" /\ Acquire(p, outputMutex)
  /\ To(p, "output") /\ UNCHANGED <<crew, deviceVars, buffer, crashed>>

WriteChar(p) ==
  /\ p \in Writer /\ consolePC[p] = "output" /\ InCode(p) /\ buffer[p] # << >>
  /\ PutChar(p, Head(buffer[p])) /\ P(p, outputDone)
  /\ Holding(p, Tail(buffer[p]))
  /\ UNCHANGED <<crew, keyboard, incoming, consolePC, crashed>>

(* ASSERT(putBusy == FALSE) fails. *)
WriteAbort(p) ==
  /\ p \in Writer /\ consolePC[p] = "output" /\ InCode(p) /\ buffer[p] # << >>
  /\ putBusy /\ crashed' = TRUE
  /\ UNCHANGED <<crew, deviceVars, consolePC, buffer, synchVars>>

LineWritten(p) ==
  /\ p \in Writer /\ consolePC[p] = "output" /\ buffer[p] = << >>
  /\ Release(p, outputMutex) /\ To(p, "done")
  /\ UNCHANGED <<crew, deviceVars, buffer, crashed>>

-----------------------------------------------------------------------------
(* ConsoleTest: echo what is typed until a 'q'. *)

EchoAwait(p) ==
  /\ p \in Echo /\ InCode(p)
  /\ \/ consolePC[p] = "out"
     \/ consolePC[p] = "output" /\ buffer[p] # <<Quit>>
  /\ P(p, inputAvailable) /\ To(p, "input")
  /\ UNCHANGED <<crew, deviceVars, buffer, crashed>>

EchoChar(p) ==
  /\ p \in Echo /\ consolePC[p] = "input" /\ InCode(p)
  /\ GetChar(p, << >>) /\ PutChar(p, incoming)
  /\ P(p, outputDone) /\ To(p, "output")
  /\ UNCHANGED <<crew, crashed>>

EchoQuit(p) ==
  /\ p \in Echo /\ consolePC[p] = "output" /\ InCode(p) /\ buffer[p] = <<Quit>>
  /\ To(p, "done")
  /\ UNCHANGED <<crew, deviceVars, buffer, crashed, synchVars>>

ConsoleStep(p) ==
  \/ ReadLine(p) \/ FirstChar(p) \/ NextChar(p)
  \/ WriteLine(p) \/ WriteChar(p) \/ WriteAbort(p) \/ LineWritten(p)
  \/ EchoAwait(p) \/ EchoChar(p) \/ EchoQuit(p)
  \/ \E s \in Semaphores : AwaitDevice(p, s)
  \/ ~InCode(p) /\ Resume(p) /\ UNCHANGED consoleVars

ConsoleNext ==
  /\ ~crashed
  /\ \/ CheckCharAvail
     \/ WriteDone
     \/ \E p \in crew : ConsoleStep(p)

-----------------------------------------------------------------------------
(* Properties. *)

ConsoleTypeOK ==
  /\ putBusy \in BOOLEAN /\ crashed \in BOOLEAN
  /\ incoming \in Range(Typed) \cup {EOF}
  /\ consolePC \in [ConsoleThread -> {"out", "in", "input", "output", "done"}]
  /\ \A p \in Reader : Len(buffer[p]) <= LineSize

(* The semaphore stands for the one character the console can hold: a       *)
(* thread that gets past P always finds one, though other threads and the   *)
(* keyboard run between P and GetChar, and a poll never overwrites one.     *)
InputCredit ==
  value[inputAvailable]
    + Cardinality({p \in crew : consolePC[p] = "input" /\ InCode(p)})
  = IF incoming = EOF THEN 0 ELSE 1

(* Threads waiting for the display are as many as the character it works on *)
(* and the completions stored, also when the lock has let two writers in.   *)
OutputCredit ==
  Cardinality({p \in crew : where[p] = outputDone})
    = (IF putBusy THEN 1 ELSE 0) + value[outputDone]

(* Every typed character (they are all different here) is with exactly one  *)
(* reader, or still buffered, or still to be polled.                        *)
TypedKept ==
  crew \cap Echo = {} =>
    \A c \in Range(Typed) :
       Cardinality({p \in crew \cap Reader : c \in Range(buffer[p])}
                     \cup (IF incoming = c THEN {"incoming"} ELSE {})
                     \cup (IF c \in Range(keyboard) THEN {"keyboard"} ELSE {}))
         = 1

(* Whatever writers interleave with it, each line appears on the display    *)
(* whole and in its order.                                                  *)
LinesWhole ==
  \A p \in crew \cap Writer :
     LET mine == SelectSeq(display, LAMBDA d : d[1] = p)
     IN [i \in DOMAIN mine |-> mine[i][2]] \o buffer[p] = Line

(* ConsoleTest displays what was typed, in order, and nothing else. *)
EchoExact ==
  crew \cap Echo # {} =>
     \A i \in DOMAIN display : display[i][2] = Typed[i]

(* Unless an assertion fails, nobody is left behind: when nothing more can  *)
(* happen every writer has written its line, and a reader or the echo that  *)
(* has not finished has used up what was typed.                             *)
ConsoleServed ==
  ~crashed /\ ~ENABLED ConsoleNext =>
     /\ \A p \in crew \cap Writer : consolePC[p] = "done"
     /\ (\E p \in crew : consolePC[p] # "done") =>
           keyboard = << >> /\ incoming = EOF
=============================================================================
