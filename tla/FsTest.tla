------------------------------- MODULE FsTest --------------------------------
(***************************************************************************)
(* The callers of the file system: a program that makes any sequence of     *)
(* calls, and the commands of main.cc: Copy (-cp), Print (-p) and           *)
(* PerformanceTest (-t) of filesys/fstest.cc, and Remove (-r).              *)
(***************************************************************************)
EXTENDS FileSystem

CONSTANTS Texts,         \* contents of UNIX files, and what a caller writes
          Positions,     \* arguments of Seek
          TransferSize,
          FileName, Chars, FileSize      \* of PerformanceTest

VARIABLE prog   \* the running command: where it is, the file it works on,
                \* the bytes it has still to copy or has printed, its i

vars == <<fsVars, prog>>

Main == [at |-> "main", name |-> NULL, text |-> << >>, rest |-> << >>, i |-> 0]

FsInit == FileSystemInit /\ prog = Main

At(label) == prog.at = label /\ up /\ pending = << >>

Goto(label) == prog' = [prog EXCEPT !.at = label]

-----------------------------------------------------------------------------
(* Copy: create the file with the length of the UNIX file, write it in      *)
(* chunks of TransferSize.                                                  *)

Copy(text, to) ==
  /\ At("main") /\ file = NULL /\ Create(to, Len(text))
  /\ prog' = [Main EXCEPT !.at = "copyOpen", !.name = to, !.text = text,
                          !.rest = text]

CopyOpen == At("copyOpen") /\ Open(prog.name) /\ Goto("copyLoop")

Chunk == SubSeq(prog.rest, 1, IF Len(prog.rest) < TransferSize
                              THEN Len(prog.rest) ELSE TransferSize)

(* Mutant: every fread starts one byte too late. *)
CopyLoop_SkipsByte ==
  /\ At("copyLoop") /\ prog.rest # << >>
  /\ Write(Chunk)
  /\ prog' = [prog EXCEPT !.rest =
                 SubSeq(@, Len(Chunk) + 2, Len(@))]

CopyLoop ==
  /\ At("copyLoop") /\ prog.rest # << >>
  /\ Write(Chunk)
  /\ prog' = [prog EXCEPT !.rest = SubSeq(@, Len(Chunk) + 1, Len(@))]

CopyClose ==
  At("copyLoop") /\ prog.rest = << >> /\ Close /\ prog' = Main

-----------------------------------------------------------------------------
(* Print (PrintFile here): read chunks until one comes back empty. *)

PrintFile(name) ==
  /\ At("main") /\ Open(name)
  /\ prog' = [Main EXCEPT !.at = "printLoop", !.name = name]

Got(numBytes) == ReadAt(file.hdr, numBytes, file.seekPosition)

PrintLoop ==
  /\ At("printLoop") /\ Got(TransferSize) # << >>
  /\ Read(TransferSize)
  /\ prog' = [prog EXCEPT !.rest = @ \o Got(TransferSize)]

PrintClose ==
  At("printLoop") /\ Got(TransferSize) = << >> /\ Close /\ prog' = Main

-----------------------------------------------------------------------------
(* PerformanceTest: FileWrite, FileRead, Remove.  FileWrite creates the     *)
(* file with length 0; when Create refuses, FileRead runs all the same.     *)

FileWrite ==
  /\ At("main") /\ file = NULL
  /\ \/ /\ Create(FileName, 0)
        /\ prog' = [Main EXCEPT !.at = "fileWriteOpen", !.name = FileName]
     \/ /\ CreateWrites(FileName, 0) = << >>
        /\ prog' = [Main EXCEPT !.at = "fileRead", !.name = FileName]
        /\ UNCHANGED fsVars

FileWriteOpen ==
  At("fileWriteOpen") /\ Open(FileName) /\ Goto("fileWriteLoop")

(* The first write already comes up short, the file having length 0, and    *)
(* FileWrite gives up.                                                      *)
FileWriteLoop ==
  /\ At("fileWriteLoop")
  /\ Clip(file.hdr, Len(Chars), file.seekPosition) < Len(Chars)
  /\ Close
  /\ prog' = [Main EXCEPT !.at = "fileRead", !.name = FileName]

FileReadOpen ==
  /\ At("fileRead")
  /\ \/ Open(FileName) /\ Goto("fileReadLoop")
     \/ Find(table, FileName) = -1 /\ Goto("perfRemove") /\ UNCHANGED fsVars

FileReadLoop ==
  /\ At("fileReadLoop") /\ prog.i < FileSize
  /\ Got(Len(Chars)) = Chars
  /\ Read(Len(Chars))
  /\ prog' = [prog EXCEPT !.i = @ + Len(Chars)]

(* The loop ends, or a read comes up short or different. *)
FileReadClose ==
  /\ At("fileReadLoop")
  /\ prog.i >= FileSize \/ Got(Len(Chars)) # Chars
  /\ Close
  /\ Goto("perfRemove")

PerformanceTest ==
  /\ At("perfRemove")
  /\ \/ Remove(FileName)
     \/ Find(table, FileName) = -1 /\ UNCHANGED fsVars
  /\ Goto("perfDone")

PerfDone == At("perfDone") /\ prog' = Main /\ UNCHANGED fsVars

-----------------------------------------------------------------------------
(* A program that calls the file system as it likes.  A bound: on a disk    *)
(* that an exit has cut, it reads and writes its file from the beginning.   *)
Caller ==
  /\ At("main") /\ UNCHANGED prog
  /\ \/ \E n \in Name, size \in Sizes : Create(n, size)
     \/ \E n \in Name : Remove(n)
     \/ \E n \in Name : Open(n)
     \/ Close
     \/ ~Cut /\ \E p \in Positions : Seek(p)
     \/ ~Cut /\ Read(SectorSize)
     \/ \E t \in Texts : Write(t)

(* Calls that a disk left by an exit makes fail. *)
Failures ==
  At("main") /\ UNCHANGED prog /\ \E n \in Name : RemoveAborts(n) \/ Astray(n)

(* The commands, bounded to disks that no exit has cut: on the others the   *)
(* calls they consist of are the caller's.                                  *)
Starts ==
  /\ ~Cut
  /\ \/ \E t \in Texts, n \in Name : Len(t) \in Sizes /\ Copy(t, n)
     \/ \E n \in Name : PrintFile(n)
     \/ FileWrite

Goes ==
  \/ CopyOpen \/ CopyLoop \/ CopyClose
  \/ PrintLoop \/ PrintClose
  \/ FileWriteOpen \/ FileWriteLoop
  \/ FileReadOpen \/ FileReadLoop \/ FileReadClose
  \/ PerformanceTest \/ PerfDone

FsNext ==
  \/ Caller
  \/ Failures
  \/ Starts
  \/ Goes
  \/ WriteBack /\ UNCHANGED prog
  \/ Exit /\ prog' = Main
  \/ Boot /\ UNCHANGED prog

FsSpec == FsInit /\ [][FsNext]_vars

-----------------------------------------------------------------------------
(* Properties. *)

(* Every read of an open file, of any length and from any offset, across    *)
(* any sector boundary and at the end of the file, returns exactly the      *)
(* bytes the file on disk has there; the header copied by Open is still the *)
(* right one, also when other files have come and gone since.               *)
ReadExact ==
  file # NULL =>
     /\ ~Cut => file.name \in DOMAIN FilesOnDisk
     /\ file.name \in DOMAIN FilesOnDisk =>
          LET bytes == FilesOnDisk[file.name]
          IN \A position \in Positions, n \in 0..2 * SectorSize :
               ReadAt(file.hdr, n, position)
                 = SubSeq(bytes, position + 1, Min({position + n, Len(bytes)}))

(* Copy can open the file it has just created, as it asserts, and when it   *)
(* has written the last chunk the Nachos file equals the UNIX file.         *)
CopyFaithful ==
  /\ At("copyOpen") => Listed(prog.name)
  /\ At("copyLoop") /\ prog.rest = << >> => Contents(prog.name) = prog.text

(* When Print stops, it has printed the whole file, in order. *)
PrintComplete ==
  At("printLoop") /\ Got(TransferSize) = << >> => prog.rest = Contents(prog.name)

(* Once PerformanceTest is over, its file is gone, whatever failed before:  *)
(* a Create refused for want of space or because the file existed, the      *)
(* write that comes up short, the read.                                     *)
PerfLeavesNothing == At("perfDone") => Find(table, FileName) = -1

(* The commands do what they are for, on every disk that no exit has cut:   *)
(* Copy copies, Print prints everything, and the performance test cleans up. *)
CommandsExact == CopyFaithful /\ PrintComplete /\ PerfLeavesNothing

(* What the callers see: the files that no exit has had a part in.          *)
Store == INSTANCE FileStore WITH
           files <- FilesOnDisk, Sizes <- {0} \cup Sizes, StoredName <- {Stored(n) : n \in Name},
           Positions <- 0..Max(Sizes),
           Texts <- UNION {{SubSeq(t, i, j) : i, j \in 1..Len(t)} : t \in Texts}


=============================================================================
