------------------------------ MODULE SynchDisk ------------------------------
(***************************************************************************)
(* machine/disk.cc and filesys/synchdisk.cc: a disk that takes one request  *)
(* at a time and interrupts when it is done, and the wrapper that lets      *)
(* several threads use it, each waiting for its own request.                *)
(*                                                                          *)
(* The time a request takes is computed as the code does, from the track    *)
(* the head is on and from where in its rotation it will be; what is read   *)
(* or written is left to FileSystem.  A failed ASSERT stops Nachos.         *)
(***************************************************************************)
EXTENDS Synch

CONSTANTS
  DiskThread,                  \* the threads that use the disk
  diskLock, diskSemaphore,     \* SynchDisk's lock and semaphore
  SectorsPerTrack, NumSectors, SeekTime, RotationTime,
  MaxTicks                     \* bound on the simulated time

ASSUME DiskAssumption ==
  /\ RotationTime \in Nat \ {0} /\ SectorsPerTrack \in Nat \ {0}
  /\ SeekTime \in Nat \ {0} /\ NumSectors \in Nat

VARIABLES
  active, lastSector, bufferInit,  \* of Disk
  totalTicks,                      \* stats->totalTicks
  due,                             \* when the pending DiskInt fires
  request,                         \* the sector and kind of the last request
  serving,                         \* whose request the disk works on
  diskPC,                          \* 0: outside, 1: has the lock, 2: waits or
                                   \* has waited for the interrupt
  aborted                          \* an ASSERT has failed

headVars == <<lastSector, bufferInit>>
diskVars == <<active, headVars, totalTicks, due, request, serving, diskPC,
              aborted>>

DiskInit ==
  /\ active = FALSE /\ lastSector = 0 /\ bufferInit = 0 /\ totalTicks = 0
  /\ due = 0 /\ request = NULL /\ serving = NULL
  /\ diskPC = [p \in DiskThread |-> 0]
  /\ aborted = FALSE

-----------------------------------------------------------------------------
(* How long a request takes. *)

Track(sector) == sector \div SectorsPerTrack
Abs(n) == IF n < 0 THEN -n ELSE n

(* TimeToSeek: the seek, and the rotation to the next sector boundary. *)
Seek(newSector) == Abs(Track(newSector) - Track(lastSector)) * SeekTime
Rotation(newSector) ==
  LET over == (totalTicks + Seek(newSector)) % RotationTime
  IN IF over > 0 THEN RotationTime - over ELSE 0

(* Mutant: the difference is taken the other way round. *)
ModuloDiff_Swapped(to, from) ==
  (((from % SectorsPerTrack) - (to % SectorsPerTrack)) + SectorsPerTrack)
     % SectorsPerTrack

ModuloDiff(to, from) ==
  (((to % SectorsPerTrack) - (from % SectorsPerTrack)) + SectorsPerTrack)
     % SectorsPerTrack

TimeAfter(newSector) == totalTicks + Seek(newSector) + Rotation(newSector)

(* The track buffer already holds the sector. *)
InTrackBuffer(newSector) ==
  /\ Seek(newSector) = 0
  /\ (TimeAfter(newSector) - bufferInit) \div RotationTime
        > ModuloDiff(newSector, bufferInit \div RotationTime)

ComputeLatency(newSector, writing) ==
  IF ~writing /\ InTrackBuffer(newSector) THEN RotationTime
  ELSE Seek(newSector) + Rotation(newSector) + RotationTime
         + ModuloDiff(newSector, TimeAfter(newSector) \div RotationTime)
             * RotationTime

UpdateLast(newSector) ==
  /\ bufferInit' = IF Seek(newSector) # 0 THEN TimeAfter(newSector)
                   ELSE bufferInit
  /\ lastSector' = newSector

(* ReadRequest and WriteRequest, once their assertions hold. *)
Request(p, sector, writing) ==
  /\ active' = TRUE
  /\ UpdateLast(sector)
  /\ due' = totalTicks + ComputeLatency(sector, writing)
  /\ request' = [sector |-> sector, writing |-> writing, at |-> totalTicks]
  /\ serving' = p
  /\ UNCHANGED totalTicks

-----------------------------------------------------------------------------
(* ReadSector and WriteSector. *)

DiskAcquire(p) ==
  /\ diskPC[p] = 0 /\ Acquire(p, diskLock)
  /\ diskPC' = [diskPC EXCEPT ![p] = 1]
  /\ UNCHANGED <<active, headVars, totalTicks, due, request, serving, aborted>>

(* The request and the call of P: no interrupt comes in between. *)
DiskRequest(p, sector, writing) ==
  /\ diskPC[p] = 1 /\ InCode(p) /\ ~active
  /\ Request(p, sector, writing) /\ P(p, diskSemaphore)
  /\ diskPC' = [diskPC EXCEPT ![p] = 2]
  /\ UNCHANGED aborted

(* ASSERT(!active) fails. *)
DiskAbort(p) ==
  /\ diskPC[p] = 1 /\ InCode(p) /\ active
  /\ aborted' = TRUE
  /\ UNCHANGED <<active, headVars, totalTicks, due, request, serving, diskPC,
                 synchVars>>

DiskAwait(p) ==
  /\ diskPC[p] = 2 /\ where[p] = diskSemaphore /\ P(p, diskSemaphore)
  /\ UNCHANGED diskVars

DiskRelease(p) ==
  /\ diskPC[p] = 2 /\ Release(p, diskLock)
  /\ diskPC' = [diskPC EXCEPT ![p] = 0]
  /\ UNCHANGED <<active, headVars, totalTicks, due, request, serving, aborted>>

DiskResume(p) == ~InCode(p) /\ Resume(p) /\ UNCHANGED diskVars

(* Mutant: a completion that nobody sleeps for is dropped. *)
HandleInterrupt_NoSleeper ==
  /\ active /\ active' = FALSE /\ serving' = NULL
  /\ totalTicks' = due
  /\ IF queue[diskSemaphore] = << >> THEN UNCHANGED synchVars
     ELSE V(diskSemaphore)
  /\ UNCHANGED <<headVars, due, request, diskPC, aborted>>

(* Disk::HandleInterrupt and SynchDisk::RequestDone. *)
HandleInterrupt ==
  /\ active /\ active' = FALSE /\ serving' = NULL
  /\ totalTicks' = due
  /\ V(diskSemaphore)
  /\ UNCHANGED <<headVars, due, request, diskPC, aborted>>

(* Time passes while the disk is idle. *)
DiskIdle ==
  /\ ~active /\ totalTicks' = totalTicks + 1
  /\ UNCHANGED <<active, headVars, due, request, serving, diskPC, aborted,
                 synchVars>>

DiskStep(p) ==
  \/ DiskAcquire(p)
  \/ \E sector \in 0..NumSectors - 1, writing \in BOOLEAN :
        DiskRequest(p, sector, writing)
  \/ DiskAbort(p)
  \/ DiskAwait(p)
  \/ DiskRelease(p)
  \/ DiskResume(p)

DiskNext ==
  /\ ~aborted
  /\ \/ totalTicks < MaxTicks /\ \E p \in DiskThread : DiskStep(p)
     \/ HandleInterrupt
     \/ totalTicks < MaxTicks /\ DiskIdle

-----------------------------------------------------------------------------
(* Properties. *)

DiskTypeOK ==
  /\ active \in BOOLEAN /\ aborted \in BOOLEAN
  /\ lastSector \in 0..NumSectors - 1
  /\ bufferInit \in Nat /\ totalTicks \in Nat /\ due \in Nat
  /\ diskPC \in [DiskThread -> 0..2]
  /\ serving \in DiskThread \cup {NULL}

(* A pending request completes exactly when its sector has rotated past the *)
(* head, within a revolution after the seek; only a read of a sector that   *)
(* the track buffer has seen go by is quicker.  "Sector k passes" means that    *)
(* the disk turns from boundary k to k + 1.                                 *)
LatencyRight ==
  active =>
    LET done == due \div RotationTime
        start == request.at
    IN \/ /\ due % RotationTime = 0
          /\ (done - 1) % SectorsPerTrack = request.sector % SectorsPerTrack
          /\ due - start <= (Track(NumSectors) * SeekTime)
                              + (SectorsPerTrack + 1) * RotationTime
       \/ /\ ~request.writing /\ due = start + RotationTime
          /\ \E k \in (bufferInit \div RotationTime)
                         ..((start + RotationTime - 1) \div RotationTime) - 1 :
                k % SectorsPerTrack = request.sector % SectorsPerTrack

(* Completions are neither lost nor made up: the threads that have made a   *)
(* request and not yet got past P are as many as the request the disk works *)
(* on and the completions the semaphore stores.  The lock lets a second     *)
(* thread in, which may then take the first one's completion; even so every *)
(* thread finds one.                                                        *)
DiskCredits ==
  Cardinality({p \in DiskThread : diskPC[p] = 2 /\ where[p] = diskSemaphore})
    = (IF active THEN 1 ELSE 0) + value[diskSemaphore]

(* A thread that sleeps for the disk is woken: the interrupt is still to    *)
(* come, or another thread has been woken for a stored completion and will  *)
(* find it or leave it.                                                     *)
DiskNoneStranded ==
  queue[diskSemaphore] # << >> =>
     \/ active
     \/ \E p \in DiskThread : /\ where[p] = diskSemaphore
                              /\ p \notin Range(queue[diskSemaphore])
=============================================================================
