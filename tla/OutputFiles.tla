------------------------------ MODULE OutputFiles ------------------------------
(***************************************************************************)
(* The output of a torrent on disk (DownloadManager, src/src/download.py):  *)
(* what _flush_output writes, file by file and each by way of a .part file, *)
(* what is there when it is interrupted, and what a recheck takes from it.  *)
(*                                                                          *)
(* Abstractions: the content of a file is the set of the pieces whose bytes *)
(* in that file are right, or BadLength when a file of a multi-file torrent *)
(* has a wrong length, whose bytes a recheck does not look at; a directory  *)
(* with nothing in it counts as not there; no file of a torrent has the     *)
(* name of another one with .part added.                                    *)
(*                                                                          *)
(* A definition whose comment starts with "Slip" is not part of the model   *)
(* (see PieceScheduler).                                                    *)
(***************************************************************************)
EXTENDS Integers

CONSTANTS
  Pieces,     \* the pieces of a torrent
  NumFiles,   \* its files are 1..NumFiles, in the order of the torrent
  PiecesOf,   \* the pieces with bytes in a file
  MultiFile,  \* is_multi_file
  NoFile,     \* "there is no such file"
  BadLength   \* "the file has a wrong length"

Files == 1..NumFiles

ASSUME FilesAssumption ==
  /\ NumFiles \in Nat \ {0}
  /\ PiecesOf \in [Files -> SUBSET Pieces]
  /\ \A p \in Pieces : \E f \in Files : p \in PiecesOf[f]
  /\ MultiFile \in BOOLEAN
  /\ ~MultiFile => NumFiles = 1
ASSUME ContentAssumption == {NoFile, BadLength} \cap SUBSET Pieces = {} /\ NoFile # BadLength

\* data: the content of each file;  part: the files that have a .part file beside them.
Content == SUBSET Pieces \cup {NoFile, BadLength}
Disk    == [data : [Files -> Content], part : SUBSET Files]

Nothing == [data |-> [f \in Files |-> NoFile], part |-> {}]

\* os.path.exists(output_path): the file, or the directory of a multi-file torrent.
Exists(d) == \E f \in Files : d.data[f] # NoFile \/ (MultiFile /\ f \in d.part)

\* _read_existing_payload returns more than b"".
Readable(d) == \A f \in Files : d.data[f] \notin {NoFile, BadLength}

\* recheck_existing_output: the pieces that verify.
Intact(d) ==
  IF Readable(d) THEN {p \in Pieces : \A f \in Files : p \in PiecesOf[f] => p \in d.data[f]} ELSE {}

Whole(d) == Intact(d) = Pieces

\* Slip: the file is written in place.
WritingInPlace(d, k, opened) ==
  [data |-> [f \in Files |-> IF f <= k THEN PiecesOf[f]
                             ELSE IF f = k + 1 /\ opened THEN {} ELSE d.data[f]],
   part |-> d.part]

\* _write_file_atomic has been through for the first k files, and has, if `opened`, opened the
\* .part file of the next one.
Writing(d, k, opened) ==
  [data |-> [f \in Files |-> IF f <= k THEN PiecesOf[f] ELSE d.data[f]],
   part |-> {f \in d.part : f > k} \cup (IF opened THEN {k + 1} ELSE {})]

\* What an exception or a crash may leave: not all files are through.
Interrupted(d) ==
  {Writing(d, k, FALSE) : k \in 0..(NumFiles - 1)} \cup {Writing(d, k, TRUE) : k \in 0..(NumFiles - 1)}

\* Slip: the last file is left out.
FlushedButLast(d) == Writing(d, NumFiles - 1, FALSE)

\* _flush_output has written every file.
Flushed(d) == Writing(d, NumFiles, FALSE)
===============================================================================
