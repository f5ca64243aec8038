----------------------------- MODULE FileSystem ------------------------------
(***************************************************************************)
(* filesys/: the bitmap of free sectors, the directory, file headers, open  *)
(* files and the FileSystem operations on them.                             *)
(*                                                                          *)
(* The disk is what survives.  "freeMap" and "table" are the contents of    *)
(* the bitmap file and of the directory file; every other sector holds      *)
(* either a file header ("header") or file data ("data"), whichever was     *)
(* written to it last.  An operation works on copies in memory and then     *)
(* writes them back one sector at a time: "pending" is what it still has to *)
(* write.  Nachos may exit between any two of those writes, and starts again *)
(* from whatever disk that left behind.                                     *)
(***************************************************************************)
EXTENDS Integers, Sequences, FiniteSets, Functions, FiniteSetsExt

CONSTANTS NumSectors, SectorSize, NumDirEntries,
          SectorFields,  \* how many fields of the directory fit into a sector
          Name,          \* the names callers use
          Stored(_),     \* the first FileNameMaxLen characters of a name
          Byte, Sizes,   \* byte values, lengths passed to Create
          FreeMapFileSize, DirectoryFileSize,
          Uninitialized, \* what memory holds where names will be
          MaxCutCalls,   \* bound: calls that write to a disk after such an exit
          NULL

ASSUME FileSystemAssumption ==
  /\ SectorSize \in Nat \ {0} /\ NumSectors \in Nat /\ 0 \in Byte
  /\ FreeMapFileSize \in Nat /\ DirectoryFileSize \in Nat
  /\ SectorFields \in Nat \ {0}

VARIABLES freeMap, table, header, data,
          pending,       \* writes the running operation still has to make
          file,          \* the OpenFile a caller holds, or NULL
          up,            \* Nachos is running
          cut,           \* auxiliary: 0, or 1 and the calls since an exit cut a
                         \* Create or a Remove
          suspect        \* auxiliary: the entries that have a part in that

diskVars == <<freeMap, table, header, data>>
aux == <<cut, suspect>>
fsVars == <<diskVars, pending, file, up, aux>>

Sector == 0..NumSectors - 1
Entry == 0..NumDirEntries - 1
FreeMapSector == 0
DirectorySector == 1
Blank == [k \in 1..SectorSize |-> 0]

-----------------------------------------------------------------------------
(* Bitmaps: a bitmap is the set of its marked bits. *)

BitMap == {}
Mark(map, which) == map \cup {which}
Clear(map, which) == map \ {which}
Test(map, which) == which \in map
NumClear(map) == Cardinality({i \in Sector : ~Test(map, i)})

(* Find returns the lowest clear bit or -1. *)
FirstClear(map) ==
  IF \A i \in Sector : Test(map, i) THEN -1
  ELSE Min({i \in Sector : ~Test(map, i)})

-----------------------------------------------------------------------------
(* File headers. *)

divRoundDown(n, s) == n \div s

divRoundUp(n, s) == (n \div s) + (IF n % s > 0 THEN 1 ELSE 0)

(* Allocate takes the sectors from "map" one Find at a time; NULL is its    *)
(* answer FALSE.                                                            *)
Allocate(map, fileSize) ==
  LET numSectors == divRoundUp(fileSize, SectorSize)
      clear == {i \in Sector : ~Test(map, i)}
      nth(k) == CHOOSE i \in clear : Cardinality(clear \cap 0..i) = k
  IN IF NumClear(map) < numSectors THEN NULL
     ELSE [numBytes |-> fileSize, dataSectors |-> [k \in 1..numSectors |-> nth(k)]]

(* The bitmap once "hdr" has been allocated from it. *)
Allocated(map, hdr) == map \cup Range(hdr.dataSectors)

(* The assertion in the loop of Deallocate, for all sectors of the file. *)
AllMarked(map, hdr) == \A s \in Range(hdr.dataSectors) : Test(map, s)

Deallocate(map, hdr) == map \ Range(hdr.dataSectors)

ByteToSector(hdr, offset) == hdr.dataSectors[(offset \div SectorSize) + 1]

-----------------------------------------------------------------------------
(* The directory.  An entry is the sector of the file's header, NULL when   *)
(* the entry is not in use, and the name of the file that has it or had it  *)
(* last: Remove resets inUse alone.  (The sector it also leaves behind is   *)
(* not read again, and is forgotten here.)                                  *)

InUse(tbl) == {i \in Entry : tbl[i].sector # NULL}

(* Directory::Directory: a name is whatever the memory held. *)
EmptyDirectory(garbage) == [i \in Entry |-> [sector |-> NULL, name |-> garbage]]

FindIndex(tbl, name) ==
  LET at == {i \in InUse(tbl) : tbl[i].name = Stored(name)}
  IN IF at = {} THEN -1 ELSE Min(at)

Find(tbl, name) ==
  LET i == FindIndex(tbl, name) IN IF i # -1 THEN tbl[i].sector ELSE -1

(* Mutant: the loop of Add runs from the end of the table. *)
Room_Last(tbl) == IF InUse(tbl) = Entry THEN -1 ELSE Max(Entry \ InUse(tbl))

(* The entry that Add takes, or -1. *)
Room(tbl) == IF InUse(tbl) = Entry THEN -1 ELSE Min(Entry \ InUse(tbl))

Add(tbl, name, newSector) ==
  [tbl EXCEPT ![Room(tbl)] = [sector |-> newSector, name |-> Stored(name)]]

DirectoryRemove(tbl, name) == [tbl EXCEPT ![FindIndex(tbl, name)].sector = NULL]

(* The sector of the directory file in which a field of entry i lies: inUse *)
(* and sector, which are next to each other (0), and name (1).              *)
FieldSector(i, field) == (2 * i + field) \div SectorFields

DirectorySectors == FieldSector(NumDirEntries - 1, 1) + 1

(* What is on the disk once sector k of the directory tbl is written.       *)
WithSector(tbl, k) ==
  [i \in Entry |->
     [sector |-> IF FieldSector(i, 0) = k THEN tbl[i].sector ELSE table[i].sector,
      name |-> IF FieldSector(i, 1) = k THEN tbl[i].name ELSE table[i].name]]

-----------------------------------------------------------------------------
(* A write of one sector: of a file's data or header, of the bitmap, or of  *)
(* part of the directory; "entry" is the one that Create or Remove changes. *)
WriteOf(what, entry, sector, value) ==
  [what |-> what, entry |-> entry, sector |-> sector, value |-> value]

(* Directory::WriteBack. *)
DirectoryWrites(entry, tbl) ==
  [k \in 1..DirectorySectors |-> WriteOf("table", entry, k - 1, tbl)]

-----------------------------------------------------------------------------
(* Open files.  The sector-sized buffers of ReadAt and WriteAt start out    *)
(* uninitialized; their bytes count as 0 here, and FileStore says that no   *)
(* caller can tell.                                                         *)

(* numBytes after the request has been clipped; 0 when it is refused. *)
Clip(hdr, numBytes, position) ==
  IF numBytes <= 0 \/ position >= hdr.numBytes THEN 0
  ELSE IF position + numBytes > hdr.numBytes THEN hdr.numBytes - position
  ELSE numBytes

(* Mutant: the sector after the last byte of the request is read as well,   *)
(* and the copy starts at the sector boundary.                              *)
ReadAt_Aligned(hdr, numBytes, position) ==
  LET n == Clip(hdr, numBytes, position)
      firstSector == divRoundDown(position, SectorSize)
  IN [k \in 1..n |-> data[ByteToSector(hdr, firstSector * SectorSize + k - 1)]
                         [((k - 1) % SectorSize) + 1]]

ReadAt(hdr, numBytes, position) ==
  LET n == Clip(hdr, numBytes, position)
      firstSector == divRoundDown(position, SectorSize)
      lastSector == divRoundDown(position + n - 1, SectorSize)
      sectors == [i \in 1..1 + lastSector - firstSector |->
                    ByteToSector(hdr, (firstSector + i - 1) * SectorSize)]
      buf(o) == data[sectors[(o \div SectorSize) + 1]][(o % SectorSize) + 1]
      start == position - firstSector * SectorSize
  IN [k \in 1..n |-> buf(start + k - 1)]


(* WriteAt reads the last sector of its request in before it writes it;     *)
(* "one": it is also the first.                                             *)
ReadsLast(one, firstAligned, lastAligned) ==
  ~lastAligned /\ (~one \/ firstAligned)

(* WriteAt: sectors written only in part are read in first, the new bytes   *)
(* are copied over them, then they are written one by one.                  *)
WriteAt(hdr, from, position) ==
  LET n == Clip(hdr, Len(from), position)
      firstSector == divRoundDown(position, SectorSize)
      lastSector == divRoundDown(position + n - 1, SectorSize)
      firstByte == firstSector * SectorSize
      lastByte == lastSector * SectorSize
      firstAligned == position = firstByte
      lastAligned == position + n = lastByte + SectorSize
      first == IF firstAligned THEN << >> ELSE ReadAt(hdr, SectorSize, firstByte)
      last == IF ReadsLast(firstByte = lastByte, firstAligned, lastAligned)
              THEN ReadAt(hdr, SectorSize, lastByte) ELSE << >>
      buf(o) == IF o - position \in 0..n - 1 THEN from[o - position + 1]
                ELSE IF o - lastByte \in 0..Len(last) - 1
                THEN last[o - lastByte + 1]
                ELSE IF o - firstByte < Len(first) THEN first[o - firstByte + 1]
                ELSE 0
  IN IF n = 0 THEN << >>
     ELSE [i \in 1..1 + lastSector - firstSector |->
             LET o == (firstSector + i - 1) * SectorSize
             IN WriteOf("data", -1, ByteToSector(hdr, o),
                        [k \in 1..SectorSize |-> buf(o + k - 1)])]

-----------------------------------------------------------------------------
(* Formatting the disk, and what the operations answer. *)

MapHdr == Allocate(Mark(Mark(BitMap, FreeMapSector), DirectorySector),
                   FreeMapFileSize)

FormatMap ==
  Allocated(Mark(Mark(BitMap, FreeMapSector), DirectorySector), MapHdr)

DirHdr == Allocate(FormatMap, DirectoryFileSize)

(* FileSystem(TRUE), run to its end. *)
FileSystemInit ==
  /\ freeMap = Allocated(FormatMap, DirHdr)
  /\ \E garbage \in Uninitialized : table = EmptyDirectory(garbage)
  /\ header = [s \in Sector |-> IF s = FreeMapSector THEN MapHdr
                                ELSE IF s = DirectorySector THEN DirHdr
                                ELSE NULL]
  /\ data = [s \in Sector |-> Blank]
  /\ pending = << >> /\ file = NULL /\ up = TRUE
  /\ cut = 0 /\ suspect = {}

(* No operation is running. *)
Idle == up /\ pending = << >>


(* Create: what it writes back, in order; nothing when it returns FALSE. *)
CreateWrites(name, initialSize) ==
  LET sector == FirstClear(freeMap)
      i == Room(table)
      hdr == Allocate(Mark(freeMap, sector), initialSize)
  IN IF Find(table, name) # -1 \/ sector = -1 \/ i = -1 \/ hdr = NULL
     THEN << >>
     ELSE <<WriteOf("header", i, sector, hdr)>>
            \o DirectoryWrites(i, Add(table, name, sector))
            \o <<WriteOf("freeMap", i, 0, Allocated(Mark(freeMap, sector), hdr))>>


(* Remove: the bitmap goes to disk before the directory. *)
RemoveWrites(name) ==
  LET i == FindIndex(table, name)
      sector == table[i].sector
  IN <<WriteOf("freeMap", i, 0, Clear(Deallocate(freeMap, header[sector]), sector))>>
       \o DirectoryWrites(i, DirectoryRemove(table, name))

(* The entry that the running operation changes: none, or one. *)
Changing ==
  IF pending = << >> \/ Head(pending).entry = -1 THEN {} ELSE {Head(pending).entry}

(* A Create or a Remove has begun to write directory and bitmap, and is not *)
(* through: an exit would leave the one without the other.                  *)
HalfWritten == Changing # {} /\ Len(pending) <= DirectorySectors

-----------------------------------------------------------------------------
(* The operations as steps.  A refused Create, Open or Remove changes       *)
(* nothing.                                                                 *)

Cut == cut > 0

(* The bound on the calls that write to a disk that has been cut. *)
CutCall ==
  /\ cut <= MaxCutCalls
  /\ cut' = IF Cut THEN cut + 1 ELSE 0

(* On a disk that has been cut the bitmap is not to be trusted, and what is *)
(* created there is suspect as well.                                        *)
Create(name, initialSize) ==
  /\ Idle /\ CreateWrites(name, initialSize) # << >>
  /\ pending' = CreateWrites(name, initialSize)
  /\ suspect' = IF Cut THEN suspect \cup {Room(table)} ELSE suspect
  /\ CutCall
  /\ UNCHANGED <<diskVars, file, up>>

(* The file is in the directory, and its sector holds a header. *)
Listed(name) == Find(table, name) # -1 /\ header[Find(table, name)] # NULL

(* A caller removes a file only while it does not hold it open, as fstest.cc *)
(* and main.cc do: Remove itself does not look.                             *)
Remove(name) ==
  /\ Idle /\ Listed(name)
  /\ AllMarked(freeMap, header[Find(table, name)])
  /\ file # NULL => file.name # Stored(name)
  /\ pending' = RemoveWrites(name)
  /\ CutCall
  /\ UNCHANGED <<diskVars, file, up, suspect>>

(* Nachos stops. *)
Down == up' = FALSE /\ file' = NULL /\ pending' = << >>

(* Remove, when the assertion of Deallocate fails: Abort. *)
RemoveAborts(name) ==
  /\ Idle /\ Listed(name)
  /\ ~AllMarked(freeMap, header[Find(table, name)])
  /\ file # NULL => file.name # Stored(name)
  /\ Down
  /\ UNCHANGED <<diskVars, aux>>

(* Open or Remove takes the data in a sector for a file header.  What       *)
(* becomes of Nachos is not followed further.                               *)
Astray(name) ==
  /\ Idle /\ Find(table, name) # -1 /\ ~Listed(name)
  /\ Down
  /\ UNCHANGED <<diskVars, aux>>

(* One disk write of the running operation.  The entry of a file that has   *)
(* been removed is suspect no more.                                         *)
WriteBack ==
  /\ up /\ pending # << >>
  /\ LET w == Head(pending)
     IN /\ freeMap' = IF w.what = "freeMap" THEN w.value ELSE freeMap
        /\ table' = IF w.what = "table" THEN WithSector(w.value, w.sector) ELSE table
        /\ header' = [s \in Sector |->
                        IF w.what \notin {"header", "data"} \/ s # w.sector
                        THEN header[s]
                        ELSE IF w.what = "header" THEN w.value ELSE NULL]
        /\ data' = [s \in Sector |->
                      IF w.what \notin {"header", "data"} \/ s # w.sector
                      THEN data[s]
                      ELSE IF w.what = "data" THEN w.value ELSE Blank]
        /\ suspect' = {i \in suspect :
                        w.what = "table" => i \in InUse(w.value) \cup InUse(table')}
  /\ pending' = Tail(pending)
  /\ UNCHANGED <<file, up, cut>>

(* Open brings the header into memory; it is not read again. *)
Open(name) ==
  /\ Idle /\ file = NULL /\ Listed(name)
  /\ file' = [name |-> Stored(name), hdr |-> header[Find(table, name)],
              seekPosition |-> 0]
  /\ UNCHANGED <<diskVars, pending, up, aux>>

Close ==
  /\ Idle /\ file # NULL
  /\ file' = NULL
  /\ UNCHANGED <<diskVars, pending, up, aux>>

Seek(position) ==
  /\ Idle /\ file # NULL
  /\ file' = [file EXCEPT !.seekPosition = position]
  /\ UNCHANGED <<diskVars, pending, up, aux>>

Read(numBytes) ==
  /\ Idle /\ file # NULL
  /\ file' = [file EXCEPT !.seekPosition =
                 @ + Len(ReadAt(file.hdr, numBytes, @))]
  /\ UNCHANGED <<diskVars, pending, up, aux>>

Write(from) ==
  /\ Idle /\ file # NULL
  /\ pending' = WriteAt(file.hdr, from, file.seekPosition)
  /\ file' = [file EXCEPT !.seekPosition =
                 @ + Clip(file.hdr, Len(from), @)]
  /\ CutCall
  /\ UNCHANGED <<diskVars, up, suspect>>

(* Nachos exits, perhaps in the middle of an operation: what was not        *)
(* written back never will be.                                              *)
Exit ==
  /\ up /\ Down
  /\ cut' = IF HalfWritten /\ ~Cut THEN 1 ELSE cut
  /\ suspect' = IF HalfWritten THEN suspect \cup Changing ELSE suspect
  /\ UNCHANGED diskVars

(* FileSystem(FALSE): nothing is checked or repaired. *)
Boot ==
  /\ ~up /\ up' = TRUE
  /\ UNCHANGED <<diskVars, pending, file, aux>>

-----------------------------------------------------------------------------
(* Properties. *)

(* The sectors of entry i: its header and its data. *)
Owned(i) ==
  LET hdr == header[table[i].sector]
  IN {table[i].sector} \cup (IF hdr = NULL THEN {} ELSE Range(hdr.dataSectors))

System == {FreeMapSector, DirectorySector}
             \cup Range(MapHdr.dataSectors) \cup Range(DirHdr.dataSectors)

Used == System \cup UNION {Owned(i) : i \in InUse(table)}

(* The entry of a Create whose name is not on the disk yet. *)
Torn ==
  {i \in Changing \cap InUse(table) :
     Head(pending).what = "table" /\ i \in InUse(Head(pending).value)
       /\ table[i] # Head(pending).value[i]}

(* The files that no exit has had a part in. *)
Sane == InUse(table) \ (Torn \cup suspect)

Bytes(hdr) ==
  [k \in 1..hdr.numBytes |->
     data[ByteToSector(hdr, k - 1)][((k - 1) % SectorSize) + 1]]

(* The file that the directory gives for a name. *)
Contents(name) == Bytes(header[Find(table, name)])

FilesOnDisk ==
  LET sane == Sane
      entry(n) == CHOOSE i \in sane : table[i].name = n
  IN [n \in {table[i].name : i \in sane} |-> Bytes(header[table[entry(n)].sector])]

(* Types of the disk contents and of the open file. *)
FileSystemTypeOK ==
  /\ freeMap \subseteq Sector
  /\ \A i \in InUse(table) : /\ table[i].name \in Uninitialized \cup {Stored(n) : n \in Name}
                      /\ table[i].sector \in Sector
  /\ \A s \in Sector : header[s] = NULL
                       \/ /\ header[s].numBytes \in Nat
                          /\ Range(header[s].dataSectors) \subseteq Sector
                          /\ Len(header[s].dataSectors)
                               = divRoundUp(header[s].numBytes, SectorSize)
  /\ data \in [Sector -> [1..SectorSize -> Byte]]
  /\ Len(pending) <= DirectorySectors + 2 /\ up \in BOOLEAN
  /\ file # NULL => file.seekPosition \in Nat
  /\ cut \in 0..MaxCutCalls + 1 /\ suspect \subseteq Entry



(* The name of a file leads to that file.  This needs an argument where the *)
(* directory is written in two sectors and an entry lies across them: until *)
(* the second is written, and for ever after an exit in between, the entry  *)
(* of the new file has the name of whichever file had it before, or what    *)
(* the memory held.  Another file may have that name by now; it has been    *)
(* given an earlier entry, and so FindIndex comes to it first.              *)
NameFindsFile == \A i \in Sane : FindIndex(table, table[i].name) = i
=============================================================================
