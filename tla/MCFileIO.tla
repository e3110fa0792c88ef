------------------------------- MODULE MCFileIO -------------------------------
(* Three instances for TLC, of which a behaviour takes the steps of one: the *)
(* space of the log, the contents of files, and pipes.                       *)
EXTENDS Log, FileData, Pipe, TLC

CONSTANTS i1, i2, d1, d2, d3

\* Two open files of the first inode, one of the second, which write different words.
MCInodeOf == [d \in Opens |-> IF d = d2 THEN i2 ELSE i1]
MCWordOf == [d \in Opens |-> IF d = d1 THEN 1 ELSE 2]

\* Processes at the writing end of a pipe are interchangeable.
Symmetry == Permutations(Writers)

VARIABLE part

fileIoVars == <<logVars, fileVars, pipeVars, part>>

\* The contents of the pipe's buffer matter to pipes only.
FileIoInit ==
  /\ part \in {"log", "files", "pipe"} /\ LogInit /\ DataInit /\ PipeInit
  /\ part # "pipe" => pdata = [i \in 0 .. PIPESIZE - 1 |-> CHOOSE b \in Bytes : TRUE]

LogPartStep == part = "log" /\ LogNext /\ UNCHANGED <<fileVars, pipeVars, part>>
FilesStep == part = "files" /\ DataNext /\ UNCHANGED <<logVars, pipeVars, part>>
PipePartStep == part = "pipe" /\ PipeNext /\ UNCHANGED <<logVars, fileVars, part>>

FileIoNext == LogPartStep \/ FilesStep \/ PipePartStep

FileIoSpec == FileIoInit /\ [][FileIoNext]_fileIoVars
=============================================================================
