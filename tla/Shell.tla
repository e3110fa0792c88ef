--------------------------------- MODULE Shell ---------------------------------
(***************************************************************************)
(* Pipelines of lab-2: runcmd() of sh.c over the file descriptors of       *)
(* sysfile.c (fdalloc(), dup(), close(), pipe()), the reference counts of  *)
(* file.c and what fork(), wait() and exit() do with both.  A system call  *)
(* is a step, fileclose() two.  A pipe counts its bytes.                   *)
(***************************************************************************)
EXTENDS Naturals, Sequences, FiniteSets, FiniteSetsExt

CONSTANTS
  Commands,       \* command lines, as parsecmd() returns them
  Pids,           \* numbers of processes, 1 the one that runs it
  NOFILE,         \* descriptors of a process
  PIPESIZE,
  NWrites         \* bound: bytes a writer writes

\* A command that is run by exec(): it reads fd 0 to its end, writes fd 1, or both.
Exec(prog) == [type |-> "EXEC", prog |-> prog]
PipeOf(l, r) == [type |-> "PIPE", left |-> l, right |-> r]
ListOf(l, r) == [type |-> "LIST", left |-> l, right |-> r]
Back(c) == [type |-> "BACK", cmd |-> c]

VARIABLES
  proc,           \* processes
  ref,            \* ref of the files: the console and the two ends of each pipe
  pipe            \* the pipes: bytes, readopen, writeopen

shellVars == <<proc, ref, pipe>>

\* A console that is open, and no file.
ConsoleFile == <<0, "console">>
None == <<0, "none">>
Pipes == Pids     \* a process makes one pipe at most
Ends == Pipes \X {"r", "w"}
FileSet == {ConsoleFile} \cup Ends
NoProc == [pc |-> "unused", cmd |-> Exec("none"), fd |-> [k \in 0 .. NOFILE - 1 |-> None], parent |-> 0, p0 |-> 0, p1 |-> 0,
           todo |-> 0, closing |-> None]

Start(cmd, fd, parent) ==
  [NoProc EXCEPT !.pc = "runcmd", !.cmd = cmd, !.fd = fd, !.parent = parent, !.todo = NWrites]

ShellInit ==
  /\ proc \in {[p \in Pids |->
               IF p = 1 THEN Start(cmd, [k \in 0 .. NOFILE - 1 |->
                                               IF k < 3 THEN ConsoleFile ELSE None], 0)
               ELSE NoProc] : cmd \in Commands}
  /\ ref = [f \in FileSet |-> IF f = ConsoleFile THEN 3 ELSE 0]
  /\ pipe = [q \in Pipes |-> [n |-> 0, readopen |-> FALSE, writeopen |-> FALSE]]

-----------------------------------------------------------------------------
(* System calls.                                                            *)

\* The lowest descriptor that is free.
fdalloc(fd) == Min({k \in DOMAIN fd : fd[k] = None})

Goto(p, pc) == proc' = [proc EXCEPT ![p].pc = pc]

\* pipe(): two descriptors in a row.
SysPipe(p, pc) ==
  LET a == fdalloc(proc[p].fd)
      fd1 == [proc[p].fd EXCEPT ![a] = <<p, "r">>]
      b == fdalloc(fd1)
  IN /\ proc' = [proc EXCEPT ![p].pc = pc, ![p].p0 = a, ![p].p1 = b,
                             ![p].fd = [fd1 EXCEPT ![b] = <<p, "w">>]]
     /\ ref' = [ref EXCEPT ![<<p, "r">>] = 1, ![<<p, "w">>] = 1]
     /\ pipe' = [pipe EXCEPT ![p] = [n |-> 0, readopen |-> TRUE, writeopen |-> TRUE]]

\* fork(): the child has the parent's files, each with one reference more.
SysFork(p, pc, child) ==
  LET q == Min({r \in Pids : proc[r].pc = "unused"}) IN
  /\ proc' = [proc EXCEPT ![p].pc = pc,
                          ![q] = [Start(child.cmd, proc[p].fd, p) EXCEPT
                                    !.pc = child.pc, !.p0 = proc[p].p0, !.p1 = proc[p].p1]]
  /\ ref' = [f \in FileSet |->
               ref[f] + Cardinality({k \in DOMAIN proc[p].fd : proc[p].fd[k] = f})]
  /\ UNCHANGED pipe

SysDup(p, k, pc) ==
  /\ proc' = [proc EXCEPT ![p].pc = pc, ![p].fd[fdalloc(proc[p].fd)] = proc[p].fd[k]]
  /\ ref' = [ref EXCEPT ![proc[p].fd[k]] = @ + 1]
  /\ UNCHANGED pipe

\* close(), up to the end of fileclose() or, with the last reference, to pipeclose().
SysClose(p, k, pc) ==
  LET f == proc[p].fd[k] IN
  /\ ref' = [ref EXCEPT ![f] = @ - 1]
  /\ proc' = [proc EXCEPT ![p].pc = pc, ![p].fd[k] = None,
                          ![p].closing = IF ref[f] = 1 /\ f \in Ends THEN f ELSE None]
  /\ UNCHANGED pipe

\* pipeclose(): an end is gone, and who sleeps on the other one goes on.
PipeClose(p) ==
  LET f == proc[p].closing IN
  /\ f # None
  /\ pipe' = [pipe EXCEPT ![f[1]] = IF f[2] = "r" THEN [@ EXCEPT !.readopen = FALSE]
                                    ELSE [@ EXCEPT !.writeopen = FALSE]]
  /\ proc' = [proc EXCEPT ![p].closing = None]
  /\ UNCHANGED ref

\* wait() for one child.
SysWait(p, pc) ==
  \E q \in Pids :
    /\ proc[q].parent = p /\ proc[q].pc = "zombie"
    /\ proc' = [proc EXCEPT ![p].pc = pc, ![q] = [NoProc EXCEPT !.pc = "gone"]]
    /\ UNCHANGED <<ref, pipe>>

\* exit(): the descriptors in turn, then the children go to init and it is a zombie.
SysExit(p) ==
  LET open == {k \in DOMAIN proc[p].fd : proc[p].fd[k] # None} IN
  IF open # {} THEN SysClose(p, Min(open), "exit")
  ELSE /\ proc' = [q \in Pids |-> IF q = p THEN [proc[q] EXCEPT !.pc = "zombie"]
                                  ELSE IF proc[q].parent = p THEN [proc[q] EXCEPT !.parent = 0]
                                  ELSE proc[q]]
       /\ UNCHANGED <<ref, pipe>>

-----------------------------------------------------------------------------
(* runcmd().  The program counter of a process names its next call.         *)

Runcmd(p) ==
  LET cmd == proc[p].cmd IN
  /\ proc[p].pc = "runcmd"
  /\ CASE cmd.type = "EXEC" -> Goto(p, IF cmd.prog = "writer" THEN "write" ELSE "read")
                               /\ UNCHANGED <<ref, pipe>>
       [] cmd.type = "LIST" -> SysFork(p, "waitleft", [cmd |-> cmd.left, pc |-> "runcmd"])
       [] cmd.type = "BACK" -> SysFork(p, "exit", [cmd |-> cmd.cmd, pc |-> "runcmd"])
       [] cmd.type = "PIPE" -> SysPipe(p, "forkleft")

ListWait(p) ==
  /\ proc[p].pc = "waitleft"
  /\ \E q \in Pids :
       /\ proc[q].parent = p /\ proc[q].pc = "zombie"
       /\ proc' = [proc EXCEPT ![p].pc = "runcmd", ![p].cmd = proc[p].cmd.right,
                               ![q] = [NoProc EXCEPT !.pc = "gone"]]
  /\ UNCHANGED <<ref, pipe>>

\* Faulty variant: the shell keeps its copy of the writing end.
PipeParentKeeps(p) ==
  \/ proc[p].pc = "forkleft" /\ SysFork(p, "forkright", [cmd |-> proc[p].cmd.left, pc |-> "left1"])
  \/ proc[p].pc = "forkright" /\ SysFork(p, "close0", [cmd |-> proc[p].cmd.right, pc |-> "right0"])
  \/ proc[p].pc = "close0" /\ SysClose(p, proc[p].p0, "wait1")
  \/ proc[p].pc = "wait1" /\ SysWait(p, "wait2")
  \/ proc[p].pc = "wait2" /\ SysWait(p, "exit")

PipeParent(p) ==
  \/ proc[p].pc = "forkleft" /\ SysFork(p, "forkright", [cmd |-> proc[p].cmd.left, pc |-> "left1"])
  \/ proc[p].pc = "forkright" /\ SysFork(p, "close0", [cmd |-> proc[p].cmd.right, pc |-> "right0"])
  \/ proc[p].pc = "close0" /\ SysClose(p, proc[p].p0, "close1")
  \/ proc[p].pc = "close1" /\ SysClose(p, proc[p].p1, "wait1")
  \/ proc[p].pc = "wait1" /\ SysWait(p, "wait2")
  \/ proc[p].pc = "wait2" /\ SysWait(p, "exit")

\* A call fails: fork1() and a failed pipe() panic, a failed exec() comes to exit(),
\* and the process leaves what it has begun.
CallFails(p) ==
  /\ proc[p].pc \in {"runcmd", "forkleft", "forkright"}
  /\ Goto(p, "exit") /\ UNCHANGED <<ref, pipe>>

\* Faulty variant: p[1] is duplicated while descriptor 1 is still in use.
PipeLeftDupFirst(p) ==
  \/ proc[p].pc = "left1" /\ SysDup(p, proc[p].p1, "leftdup")
  \/ proc[p].pc = "leftdup" /\ SysClose(p, 1, "children0")

\* The left one writes to the pipe, the right one reads from it.
PipeLeft(p) ==
  \/ proc[p].pc = "left1" /\ SysClose(p, 1, "leftdup")
  \/ proc[p].pc = "leftdup" /\ SysDup(p, proc[p].p1, "children0")

PipeRight(p) ==
  \/ proc[p].pc = "right0" /\ SysClose(p, 0, "rightdup")
  \/ proc[p].pc = "rightdup" /\ SysDup(p, proc[p].p0, "children0")

\* Both close what pipe() gave.
PipeChild(p) ==
  \/ proc[p].pc = "children0" /\ SysClose(p, proc[p].p0, "children1")
  \/ proc[p].pc = "children1" /\ SysClose(p, proc[p].p1, "runcmd")

-----------------------------------------------------------------------------
(* The programs: they read to the end of fd 0, write to fd 1.               *)

\* read() of a pipe waits for bytes or for the last writer to go; the console has no
\* more input.
Read(p) ==
  LET f == proc[p].fd[0] IN
  /\ proc[p].pc = "read"
  /\ IF f \in Ends /\ pipe[f[1]].n > 0
     THEN /\ pipe' = [pipe EXCEPT ![f[1]].n = @ - 1]
          /\ Goto(p, IF proc[p].cmd.prog = "filter" THEN "write" ELSE "read")
     ELSE /\ f \in Ends => ~pipe[f[1]].writeopen
          /\ Goto(p, "exit") /\ UNCHANGED pipe
  /\ UNCHANGED ref

\* write() waits for room; without a reader it fails and the program ends.
Write(p) ==
  LET f == proc[p].fd[1]  left == proc[p].todo - 1
      next == IF proc[p].cmd.prog = "filter" THEN "read" ELSE IF left = 0 THEN "exit" ELSE "write"
  IN /\ proc[p].pc = "write"
     /\ IF f \in Ends /\ ~pipe[f[1]].readopen
        THEN Goto(p, "exit") /\ UNCHANGED pipe
        ELSE /\ f \in Ends => pipe[f[1]].n < PIPESIZE
             /\ pipe' = IF f \in Ends THEN [pipe EXCEPT ![f[1]].n = @ + 1] ELSE pipe
             /\ proc' = [proc EXCEPT ![p].pc = next,
                           ![p].todo = IF proc[p].cmd.prog = "filter" THEN @ ELSE left]
     /\ UNCHANGED ref

\* A program may end before its input does.
Quit(p) ==
  /\ proc[p].pc \in {"read", "write"}
  /\ Goto(p, "exit") /\ UNCHANGED <<ref, pipe>>

ProcStep(p) ==
  \/ PipeClose(p)
  \/ /\ proc[p].closing = None
     /\ \/ Runcmd(p) \/ ListWait(p) \/ PipeParent(p) \/ PipeLeft(p) \/ PipeRight(p) \/ PipeChild(p)
        \/ Read(p) \/ Write(p)
        \/ proc[p].pc = "exit" /\ SysExit(p)

Mishap(p) == proc[p].closing = None /\ (Quit(p) \/ CallFails(p))

ShellNext == \E p \in Pids : ProcStep(p) \/ Mishap(p)

ShellSpec == ShellInit /\ [][ShellNext]_shellVars

-----------------------------------------------------------------------------
(* Properties.                                                              *)

\* A file has as many references as there are descriptors of it, so it is closed with
\* the last one: not before, and not never.
FilesCounted ==
  /\ \A f \in FileSet :
       ref[f] = Cardinality({<<p, k>> \in Pids \X (0 .. NOFILE - 1) : proc[p].fd[k] = f})
  /\ \A q \in Pipes :
       /\ ref[<<q, "r">>] > 0 => pipe[q].readopen
       /\ ref[<<q, "w">>] > 0 => pipe[q].writeopen

\* A program of a pipeline has the pipe where it reads or writes and no other end of any
\* pipe: nobody else keeps a pipe open.
OnlyItsEnds ==
  \A p \in Pids :
    proc[p].pc \in {"read", "write"} =>
      \A k \in 0 .. NOFILE - 1 : proc[p].fd[k] \in Ends => k = (IF proc[p].fd[k][2] = "r" THEN 0 ELSE 1)

\* The command line comes to its end, whichever programs stop early and whichever call
\* fails: as long as a process is left, one can go on, so no reader waits for a writer
\* that only it, or the shell, still is.  (Every step is progress: there are no cycles.)
PipelineEnds ==
  (\E p \in Pids : proc[p].pc \notin {"unused", "zombie", "gone"}) =>
    \E p \in Pids : ENABLED ProcStep(p)

\* A command line leaves no end of a pipe open where it does not belong, and so it
\* comes to its end.
PipelinesSound == FilesCounted /\ OnlyItsEnds /\ PipelineEnds
=============================================================================
