------------------------------ MODULE FileStore ------------------------------
(***************************************************************************)
(* What the file system promises its callers, without sectors, headers,     *)
(* bitmaps or buffers: a flat map from names to files of a fixed length,    *)
(* whose bytes change only under a write to that file.  FileSystem is shown *)
(* to implement it.                                                         *)
(***************************************************************************)
EXTENDS Integers, Sequences, Functions

CONSTANTS StoredName,   \* names as the directory stores them
          Byte,
          Sizes,        \* lengths a file may be created with
          Texts,        \* byte strings a caller may write
          Positions     \* where in a file it may write them

VARIABLE files          \* the files that exist: stored name -> its bytes

FilesInit == files = << >>

(* A new file has a length and unspecified contents. *)
CreateFile(n) ==
  /\ n \notin DOMAIN files
  /\ DOMAIN files' = DOMAIN files \cup {n}
  /\ Restrict(files', DOMAIN files) = files
  /\ \E size \in Sizes : files'[n] \in [1..size -> Byte]

(* A file is removed, or lost. *)
RemoveFile(n) ==
  /\ n \in DOMAIN files
  /\ files' = Restrict(files, DOMAIN files \ {n})

(* "text" is laid over the file from offset "position"; what would fall     *)
(* behind the end of the file is dropped.                                   *)
Overlay(bytes, text, position) ==
  [k \in 1..Len(bytes) |->
      IF k - position \in 1..Len(text) THEN text[k - position] ELSE bytes[k]]

(* A caller writes to the file, and to no other. *)
WriteFile(n) ==
  /\ n \in DOMAIN files
  /\ LET old == files
         new == files'
     IN \E text \in Texts, position \in Positions :
          new = [old EXCEPT ![n] = Overlay(@, text, position)]

FilesNext == \E n \in StoredName : CreateFile(n) \/ RemoveFile(n) \/ WriteFile(n)

FilesSpec == FilesInit /\ [][FilesNext]_files
=============================================================================
