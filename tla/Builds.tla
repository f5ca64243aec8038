-------------------------------- MODULE Builds --------------------------------
(***************************************************************************)
(* What runs on the synchronization primitives in each directory Nachos is *)
(* built in: the passport office of threads, the disk of filesys, the      *)
(* console of userprog and the post office of network.  A behaviour is one *)
(* of one build.                                                           *)
(***************************************************************************)
EXTENDS Office, SynchDisk, Console, PostOffice

VARIABLE build   \* the directory Nachos was built in

vars == <<build, synchVars, officeVars, diskVars, consoleVars, mailVars>>

BuildsInit ==
  /\ build \in {"threads", "filesys", "userprog", "network"}
  /\ SynchInit /\ OfficeInit /\ DiskInit /\ ConsoleInit /\ MailInit
  /\ (shift.staff = {}) = (build # "threads")
  /\ (crew = {}) = (build # "userprog")
  /\ (post = {}) = (build # "network")
  /\ build # "threads" => \A i \in Pictures : ~picturesTaken[i]

BuildsNext ==
  \/ build = "threads" /\ OfficeNext /\ UNCHANGED <<build, diskVars, consoleVars, mailVars>>
  \/ build = "filesys" /\ DiskNext /\ UNCHANGED <<build, officeVars, consoleVars, mailVars>>
  \/ build = "userprog" /\ ConsoleNext /\ UNCHANGED <<build, officeVars, diskVars, mailVars>>
  \/ build = "network" /\ MailNext /\ UNCHANGED <<build, officeVars, diskVars, consoleVars>>

BuildsSpec == BuildsInit /\ [][BuildsNext]_vars

-----------------------------------------------------------------------------
(* A device completes each request once: disk, display and network hand out *)
(* as many completions as there are threads waiting for one, although the   *)
(* locks around them let two threads in.                                    *)
CompletionsMatch ==
  /\ DiskTypeOK /\ ConsoleTypeOK /\ MailTypeOK
  /\ DiskCredits /\ OutputCredit /\ SendCredit

(* A device that holds one character or one packet never has it overwritten *)
(* by the poll, and whoever gets past the semaphore finds it there.         *)
ArrivalsMatch == InputCredit /\ InboxCredit

(* Characters and mail are neither lost nor repeated nor reordered between  *)
(* the device and the thread they are for.                                  *)
TrafficConserved == TypedKept /\ LinesWhole /\ EchoExact /\ MailConserved

(* Nobody is left waiting for a device: when nothing more can happen, the   *)
(* readers have used up the input, the writers are done, and every MailTest *)
(* over a network that loses nothing has come to its end.                   *)
AllServed == DiskNoneStranded /\ ConsoleServed /\ MailTestEnds

=============================================================================
