------------------------------- MODULE FileSys -------------------------------
(***************************************************************************)
(* Inodes, directories and path names (lab-2/fs.c) and the system calls    *)
(* that use them (sysfile.c, file.c): open, O_CREATE, mkdir, mknod, link,  *)
(* unlink, chdir and close, run by several processes.  What a process does *)
(* between ilock() and iunlock() is one step where it needs no second      *)
(* lock; a lock kept longer is owned.  iput() is two steps, for it gives   *)
(* up the inode's lock before it drops the reference.  Transactions are    *)
(* the subject of Log, contents of files that of FileData.                 *)
(***************************************************************************)
EXTENDS Integers, Sequences, FiniteSets, Functions

CONSTANTS
  Procs, NoProc,
  ninodes,        \* sb.ninodes
  Names, Dot,     \* Dot is the name "."
  Paths,          \* bound: the path names the system calls are given
  Images,         \* bound: file systems to begin with, of [disk, ent]
  MaxCalls        \* bound: system calls of each process

ROOTINO == 1
Inums == 1 .. ninodes - 1
Calls == {"open", "create", "mkdir", "mknod", "unlink", "link", "chdir"}

FileTypes == {"none", "DIR", "FILE", "DEV"}

\* The names an inode has in the directories E, and the directories in directory i.
NamesIn(E, i) == {e \in Inums \X Names : e[2] \in DOMAIN E[e[1]] /\ E[e[1]][e[2]] = i}
SubdirsIn(D, E, i) == {n \in DOMAIN E[i] : D[E[i][n]].type = "DIR"}

\* A file system as mkfs and a shutdown leave it: entries name allocated inodes, the
\* link counts are enough for the names, and the root has one link more.
SoundImage(m) ==
  /\ m.disk \in [Inums -> [type : FileTypes, nlink : Nat]] /\ DOMAIN m.ent = Inums
  /\ m.disk[ROOTINO].type = "DIR"
  /\ \A i \in Inums :
       /\ DOMAIN m.ent[i] \subseteq Names
       /\ \A n \in DOMAIN m.ent[i] : m.ent[i][n] \in Inums /\ m.disk[m.ent[i][n]].type # "none"
       /\ m.disk[i].type = "none" => DOMAIN m.ent[i] = {}
       /\ m.disk[i].nlink >= Cardinality(NamesIn(m.ent, i)) + Cardinality(SubdirsIn(m.disk, m.ent, i))
                              + (IF i = ROOTINO THEN 1 ELSE 0)

ASSUME FileSysAssumption ==
  /\ ninodes \in Nat \ {0, 1} /\ NoProc \notin Procs /\ Dot \notin Names
  /\ IsFiniteSet(Procs) /\ IsFiniteSet(Names)
  /\ Paths \subseteq Seq(Names \cup {Dot}) \ {<<>>} /\ MaxCalls \in Nat
  /\ \A m \in Images : SoundImage(m)

VARIABLES
  disk,           \* struct dinode of each inode
  cache, valid, ref, lock,   \* struct inode; an entry exists while ref > 0
  ent,            \* entries of each directory but "." and "..", name -> inum
  file, cwd,      \* each process: its one file descriptor (0 if closed), cwd
  proc,           \* each process: where it is in a system call
  calls           \* each process: system calls begun

inodeVars == <<disk, cache, valid, ref, lock, ent>>
fsVars == <<disk, cache, valid, ref, lock, ent, file, cwd, proc, calls>>

Free == [type |-> "none", nlink |-> 0]
NoEntries == [n \in {} |-> 0]

\* A process refers to the inode at a walk has come to (at), to the one the call
\* is about (ip), and to the one it is about to iput(); ret is where iput() returns.
Idle == [pc |-> "idle", call |-> "none", path |-> <<>>, at |-> 0, ip |-> 0, put |-> 0,
         ret |-> "idle"]

FsInit ==
  /\ \E m \in Images : disk = m.disk /\ ent = m.ent
  /\ cache = [i \in Inums |-> Free] /\ valid = [i \in Inums |-> FALSE]
  /\ ref = [i \in Inums |-> IF i = ROOTINO THEN Cardinality(Procs) ELSE 0]
  /\ lock = [i \in Inums |-> NoProc]
  /\ file = [p \in Procs |-> 0] /\ cwd = [p \in Procs |-> ROOTINO]
  /\ proc = [p \in Procs |-> Idle] /\ calls = [p \in Procs |-> 0]

-----------------------------------------------------------------------------
(* Inodes.                                                                  *)

\* The inode as ilock() leaves it in memory.
Inode(i) == IF valid[i] THEN cache[i] ELSE disk[i]

\* ilock(): the lock is free, or the caller waits; the inode is read if need be.
CanLock(i) == lock[i] = NoProc
Loaded(i) == /\ cache' = [cache EXCEPT ![i] = Inode(i)]
             /\ valid' = [valid EXCEPT ![i] = TRUE]

\* iupdate(): the cache is write-through.  Of one inode, and of two.
Iupdate(i, x) == /\ cache' = [cache EXCEPT ![i] = x]
                 /\ disk' = [disk EXCEPT ![i] = x]
                 /\ valid' = [valid EXCEPT ![i] = TRUE]

IupdateBoth(d, x, i, y) == /\ cache' = [cache EXCEPT ![d] = x, ![i] = y]
                           /\ disk' = [disk EXCEPT ![d] = x, ![i] = y]
                           /\ valid' = [valid EXCEPT ![d] = TRUE, ![i] = TRUE]

Iget(i) == ref' = [ref EXCEPT ![i] = @ + 1]

\* dirlookup(): the inode number a name stands for, 0 if it is not there.
Dirlookup(d, n) ==
  IF n = Dot THEN d ELSE IF n \in DOMAIN ent[d] THEN ent[d][n] ELSE 0

\* The end of dirlink(): a new name.
WriteEntry(d, n, i) ==
  ent' = [ent EXCEPT ![d] = [m \in DOMAIN @ \cup {n} |-> IF m = n THEN i ELSE @[m]]]

\* Continue at next, after iput(i).
PutThen(p, r, i, next) ==
  proc' = [proc EXCEPT ![p] = [r EXCEPT !.pc = "put", !.put = i, !.ret = next]]

Goto(p, r, next) == proc' = [proc EXCEPT ![p] = [r EXCEPT !.pc = next]]

\* Faulty variant of iput(): other references are not looked at.
IputTestNoRef(p) ==
  LET i == proc[p].put  free == valid[i] /\ cache[i].nlink = 0 IN
  /\ proc[p].pc = "put" /\ CanLock(i)
  /\ disk' = IF free THEN [disk EXCEPT ![i] = Free] ELSE disk
  /\ cache' = IF free THEN [cache EXCEPT ![i] = Free] ELSE cache
  /\ ent' = IF free THEN [ent EXCEPT ![i] = NoEntries] ELSE ent
  /\ valid' = [valid EXCEPT ![i] = @ /\ ~free]
  /\ Goto(p, proc[p], "drop")
  /\ UNCHANGED <<ref, lock, file, cwd, calls>>

\* iput(), under the inode's lock: an inode without links and other references is
\* truncated and freed.
IputTest(p) ==
  LET i == proc[p].put  free == valid[i] /\ cache[i].nlink = 0 /\ ref[i] = 1 IN
  /\ proc[p].pc = "put" /\ CanLock(i)
  /\ disk' = IF free THEN [disk EXCEPT ![i] = Free] ELSE disk
  /\ cache' = IF free THEN [cache EXCEPT ![i] = Free] ELSE cache
  /\ ent' = IF free THEN [ent EXCEPT ![i] = NoEntries] ELSE ent
  /\ valid' = [valid EXCEPT ![i] = @ /\ ~free]
  /\ Goto(p, proc[p], "drop")
  /\ UNCHANGED <<ref, lock, file, cwd, calls>>

\* iput(), under icache.lock.  iget() will not find an entry without references
\* and read the inode again, so what it caches is forgotten here.
IputDrop(p) ==
  LET q == proc[p]  i == q.put  last == ref[i] = 1 IN
  /\ q.pc = "drop"
  /\ ref' = [ref EXCEPT ![i] = @ - 1]
  /\ valid' = [valid EXCEPT ![i] = @ /\ ~last]
  /\ cache' = IF last THEN [cache EXCEPT ![i] = Free] ELSE cache
  /\ proc' = [proc EXCEPT ![p] =
                IF q.ret = "idle" THEN Idle ELSE [q EXCEPT !.pc = q.ret, !.put = 0]]
  /\ UNCHANGED <<disk, lock, ent, file, cwd, calls>>

-----------------------------------------------------------------------------
(* namex().                                                                 *)

\* A system call begins at the root or at the current directory.
Start(p, call, path, from) ==
  /\ proc[p].pc = "idle" /\ from \in {ROOTINO, cwd[p]}
  /\ calls[p] < MaxCalls /\ calls' = [calls EXCEPT ![p] = @ + 1]
  /\ Iget(from)
  /\ proc' = [proc EXCEPT ![p] = [Idle EXCEPT !.pc = "walk", !.call = call,
                                              !.path = path, !.at = from]]
  /\ UNCHANGED <<disk, cache, valid, lock, ent, file, cwd>>

\* nameiparent() rather than namei(); a link looks for its new name second.
ForParent(q) == q.call \in {"create", "mkdir", "mknod", "unlink"} \/ q.ip # 0

\* Where a walk that comes to nothing leads: sys_link() has to undo its count.
Failed(q) == IF q.ip # 0 THEN "linkbad" ELSE "idle"

\* One round of the loop.
Walk(p) ==
  LET q == proc[p]
      last == Len(q.path) = 1
      next == Dirlookup(q.at, Head(q.path))
  IN /\ q.pc = "walk" /\ CanLock(q.at)
     /\ Loaded(q.at)
     /\ CASE Inode(q.at).type # "DIR" ->
               ref' = ref /\ PutThen(p, [q EXCEPT !.at = 0], q.at, Failed(q))
          [] Inode(q.at).type = "DIR" /\ ForParent(q) /\ last ->
               ref' = ref /\ Goto(p, q, "parent")
          [] Inode(q.at).type = "DIR" /\ ~(ForParent(q) /\ last) /\ next = 0 ->
               ref' = ref /\ PutThen(p, [q EXCEPT !.at = 0], q.at, Failed(q))
          [] OTHER ->
               /\ Iget(next)
               /\ IF last
                  THEN PutThen(p, [q EXCEPT !.at = 0, !.ip = next], q.at, "target")
                  ELSE PutThen(p, [q EXCEPT !.at = next, !.path = Tail(@)], q.at, "walk")
     /\ UNCHANGED <<disk, lock, ent, file, cwd, calls>>

-----------------------------------------------------------------------------
(* open, chdir, close.                                                      *)

\* sys_open() with the inode locked: a descriptor, or iunlockput().
Opened(p, i) ==
  IF file[p] = 0
  THEN file' = [file EXCEPT ![p] = i] /\ proc' = [proc EXCEPT ![p] = Idle]
  ELSE file' = file /\ PutThen(p, [proc[p] EXCEPT !.ip = 0], i, "idle")

\* sys_open() without O_CREATE; a directory may be opened for reading only.
Open(p, rdonly) ==
  LET i == proc[p].ip IN
  /\ proc[p].pc = "target" /\ proc[p].call = "open" /\ CanLock(i)
  /\ Loaded(i)
  /\ IF Inode(i).type = "DIR" /\ ~rdonly
     THEN file' = file /\ PutThen(p, [proc[p] EXCEPT !.ip = 0], i, "idle")
     ELSE Opened(p, i)
  /\ UNCHANGED <<disk, ref, lock, ent, cwd, calls>>

Chdir(p) ==
  LET i == proc[p].ip  r == [proc[p] EXCEPT !.ip = 0] IN
  /\ proc[p].pc = "target" /\ proc[p].call = "chdir" /\ CanLock(i)
  /\ Loaded(i)
  /\ IF Inode(i).type = "DIR"
     THEN cwd' = [cwd EXCEPT ![p] = i] /\ PutThen(p, r, cwd[p], "idle")
     ELSE cwd' = cwd /\ PutThen(p, r, i, "idle")
  /\ UNCHANGED <<disk, ref, lock, ent, file, calls>>

\* sys_close(), fileclose().
Close(p) ==
  /\ proc[p].pc = "idle" /\ file[p] # 0
  /\ file' = [file EXCEPT ![p] = 0]
  /\ PutThen(p, Idle, file[p], "idle")
  /\ UNCHANGED <<inodeVars, cwd, calls>>

-----------------------------------------------------------------------------
(* create(): open with O_CREATE, mkdir, mknod.                              *)

TypeOf(call) == CASE call = "create" -> "FILE" [] call = "mkdir" -> "DIR" [] OTHER -> "DEV"

\* ialloc() takes the first free inode; without one it panics, and the model stops.
FreeInodes == {i \in Inums : disk[i].type = "none"}
FirstFree == CHOOSE i \in FreeInodes : \A j \in FreeInodes : i <= j

CreateLookup(p) ==
  LET q == proc[p]  d == q.at  found == Dirlookup(d, Head(q.path)) IN
  /\ q.pc = "parent" /\ q.call \in {"create", "mkdir", "mknod"} /\ CanLock(d)
  /\ IF found # 0
     THEN /\ Iget(found) /\ Loaded(d)
          /\ PutThen(p, [q EXCEPT !.at = 0, !.ip = found], d, "existing")
          /\ UNCHANGED <<disk, lock>>
     ELSE /\ FreeInodes # {} /\ Iget(FirstFree) /\ Loaded(d)
          /\ disk' = [disk EXCEPT ![FirstFree] = [type |-> TypeOf(q.call), nlink |-> 0]]
          /\ lock' = [lock EXCEPT ![d] = p]
          /\ Goto(p, [q EXCEPT !.ip = FirstFree], "new")
  /\ UNCHANGED <<ent, file, cwd, calls>>

\* The name exists: only an ordinary file may be opened that way.
CreateExisting(p) ==
  LET i == proc[p].ip IN
  /\ proc[p].pc = "existing" /\ CanLock(i)
  /\ Loaded(i)
  /\ IF proc[p].call = "create" /\ Inode(i).type = "FILE"
     THEN Opened(p, i)
     ELSE file' = file /\ PutThen(p, [proc[p] EXCEPT !.ip = 0], i, "idle")
  /\ UNCHANGED <<disk, ref, lock, ent, cwd, calls>>

\* Faulty variant: the new inode is left without a link count.
CreateNewUnlinked(p) ==
  LET q == proc[p]  i == q.ip  d == q.at IN
  /\ q.pc = "new" /\ CanLock(i)
  /\ IupdateBoth(d, Inode(d), i, Inode(i))
  /\ WriteEntry(d, Head(q.path), i)
  /\ lock' = [lock EXCEPT ![d] = NoProc, ![i] = p]
  /\ PutThen(p, [q EXCEPT !.at = 0], d, "made")
  /\ UNCHANGED <<ref, file, cwd, calls>>

\* The new inode and its entry; the directory is unlocked, the inode is not.
CreateNew(p) ==
  LET q == proc[p]  i == q.ip  d == q.at
      parent == IF q.call = "mkdir" THEN [Inode(d) EXCEPT !.nlink = @ + 1] ELSE Inode(d)
  IN /\ q.pc = "new" /\ CanLock(i)
     /\ IupdateBoth(d, parent, i, [Inode(i) EXCEPT !.nlink = 1])
     /\ WriteEntry(d, Head(q.path), i)
     /\ lock' = [lock EXCEPT ![d] = NoProc, ![i] = p]
     /\ PutThen(p, [q EXCEPT !.at = 0], d, "made")
     /\ UNCHANGED <<ref, file, cwd, calls>>

\* sys_open() goes on with the inode; sys_mkdir() and sys_mknod() give it up.
Made(p) ==
  LET i == proc[p].ip IN
  /\ proc[p].pc = "made"
  /\ lock' = [lock EXCEPT ![i] = NoProc]
  /\ IF proc[p].call = "create" THEN Opened(p, i)
     ELSE file' = file /\ PutThen(p, [proc[p] EXCEPT !.ip = 0], i, "idle")
  /\ UNCHANGED <<disk, cache, valid, ref, ent, cwd, calls>>

-----------------------------------------------------------------------------
(* unlink.                                                                  *)

UnlinkLookup(p) ==
  LET q == proc[p]  d == q.at  found == Dirlookup(d, Head(q.path)) IN
  /\ q.pc = "parent" /\ q.call = "unlink" /\ CanLock(d)
  /\ Loaded(d)
  /\ IF Head(q.path) = Dot \/ found = 0
     THEN /\ PutThen(p, [q EXCEPT !.at = 0], d, "idle") /\ UNCHANGED <<ref, lock>>
     ELSE /\ Iget(found) /\ lock' = [lock EXCEPT ![d] = p]
          /\ Goto(p, [q EXCEPT !.ip = found], "unlink")
  /\ UNCHANGED <<disk, ent, file, cwd, calls>>

\* isdirempty().
MayErase(i) == Inode(i).type = "DIR" => ent[i] = NoEntries

\* Faulty variant: the inode of the entry is not given up.
UnlinkBusyLeak(p) ==
  LET q == proc[p]  i == q.ip IN
  /\ q.pc = "unlink" /\ CanLock(i) /\ ~MayErase(i)
  /\ Loaded(i)
  /\ Goto(p, [q EXCEPT !.ip = 0], "bad")
  /\ UNCHANGED <<disk, ref, lock, ent, file, cwd, calls>>

\* isdirempty() says no: both inodes are given up, the directory last.
UnlinkBusy(p) ==
  LET q == proc[p]  i == q.ip IN
  /\ q.pc = "unlink" /\ CanLock(i) /\ ~MayErase(i)
  /\ Loaded(i)
  /\ PutThen(p, [q EXCEPT !.ip = 0], i, "bad")
  /\ UNCHANGED <<disk, ref, lock, ent, file, cwd, calls>>

UnlinkBad(p) ==
  LET q == proc[p] IN
  /\ q.pc = "bad"
  /\ lock' = [lock EXCEPT ![q.at] = NoProc]
  /\ PutThen(p, [q EXCEPT !.at = 0], q.at, "idle")
  /\ UNCHANGED <<disk, cache, valid, ref, ent, file, cwd, calls>>

\* The entry is erased; the directory is unlocked, the inode is not.
UnlinkErase(p) ==
  LET q == proc[p]  i == q.ip  d == q.at
      parent == IF Inode(i).type = "DIR" THEN [Inode(d) EXCEPT !.nlink = @ - 1] ELSE Inode(d)
  IN /\ q.pc = "unlink" /\ CanLock(i) /\ MayErase(i)
     /\ IupdateBoth(d, parent, i, Inode(i))
     /\ ent' = [ent EXCEPT ![d] = Restrict(@, DOMAIN @ \ {Head(q.path)})]
     /\ lock' = [lock EXCEPT ![d] = NoProc, ![i] = p]
     /\ PutThen(p, [q EXCEPT !.at = 0], d, "erased")
     /\ UNCHANGED <<ref, file, cwd, calls>>

UnlinkCount(p) ==
  LET i == proc[p].ip IN
  /\ proc[p].pc = "erased"
  /\ Iupdate(i, [Inode(i) EXCEPT !.nlink = @ - 1])
  /\ lock' = [lock EXCEPT ![i] = NoProc]
  /\ PutThen(p, [proc[p] EXCEPT !.ip = 0], i, "idle")
  /\ UNCHANGED <<ref, ent, file, cwd, calls>>

-----------------------------------------------------------------------------
(* link.                                                                    *)

\* The count goes up first, then the new name is looked for.
Link(p, new, from) ==
  LET q == proc[p]  i == q.ip IN
  /\ q.pc = "target" /\ q.call = "link" /\ CanLock(i) /\ from \in {ROOTINO, cwd[p]}
  /\ IF Inode(i).type = "DIR"
     THEN /\ Loaded(i) /\ PutThen(p, [q EXCEPT !.ip = 0], i, "idle")
          /\ UNCHANGED <<disk, ref>>
     ELSE /\ Iupdate(i, [Inode(i) EXCEPT !.nlink = @ + 1])
          /\ Iget(from)
          /\ Goto(p, [q EXCEPT !.at = from, !.path = new], "walk")
  /\ UNCHANGED <<lock, ent, file, cwd, calls>>

\* dirlink(): the name must be new; an inode that has it is put with the
\* directory locked.
LinkEntry(p) ==
  LET q == proc[p]  d == q.at  found == Dirlookup(d, Head(q.path)) IN
  /\ q.pc = "parent" /\ q.call = "link" /\ CanLock(d)
  /\ Loaded(d)
  /\ IF found # 0
     THEN /\ Iget(found) /\ lock' = [lock EXCEPT ![d] = p] /\ ent' = ent
          /\ PutThen(p, q, found, "exists")
     ELSE /\ WriteEntry(d, Head(q.path), q.ip)
          /\ PutThen(p, [q EXCEPT !.at = 0], d, "linked")
          /\ UNCHANGED <<ref, lock>>
  /\ UNCHANGED <<disk, file, cwd, calls>>

Linked(p) ==
  /\ proc[p].pc = "linked"
  /\ PutThen(p, [proc[p] EXCEPT !.ip = 0], proc[p].ip, "idle")
  /\ UNCHANGED <<inodeVars, file, cwd, calls>>

LinkExists(p) ==
  LET q == proc[p] IN
  /\ q.pc = "exists"
  /\ lock' = [lock EXCEPT ![q.at] = NoProc]
  /\ PutThen(p, [q EXCEPT !.at = 0], q.at, "linkbad")
  /\ UNCHANGED <<disk, cache, valid, ref, ent, file, cwd, calls>>

\* bad: the count goes down again.
LinkBad(p) ==
  LET i == proc[p].ip IN
  /\ proc[p].pc = "linkbad" /\ CanLock(i)
  /\ Iupdate(i, [Inode(i) EXCEPT !.nlink = @ - 1])
  /\ PutThen(p, [proc[p] EXCEPT !.ip = 0], i, "idle")
  /\ UNCHANGED <<ref, lock, ent, file, cwd, calls>>

-----------------------------------------------------------------------------

FsNext ==
  \E p \in Procs :
    \/ \E call \in Calls, path \in Paths, from \in {ROOTINO, cwd[p]} : Start(p, call, path, from)
    \/ Walk(p) \/ IputTest(p) \/ IputDrop(p)
    \/ \E rdonly \in BOOLEAN : Open(p, rdonly)
    \/ Chdir(p) \/ Close(p)
    \/ CreateLookup(p) \/ CreateExisting(p) \/ CreateNew(p) \/ Made(p)
    \/ UnlinkLookup(p) \/ UnlinkBusy(p) \/ UnlinkBad(p) \/ UnlinkErase(p) \/ UnlinkCount(p)
    \/ \E new \in Paths, from \in {ROOTINO, cwd[p]} : Link(p, new, from)
    \/ LinkEntry(p) \/ Linked(p) \/ LinkExists(p) \/ LinkBad(p)

FsSpec == FsInit /\ [][FsNext]_fsVars

-----------------------------------------------------------------------------
(* Properties.                                                              *)

\* The references to inode i: current directories, open files, and what the
\* system calls under way hold.
Holders(i) ==
  {<<p, "cwd">> : p \in {q \in Procs : cwd[q] = i}} \cup
  {<<p, "file">> : p \in {q \in Procs : file[q] = i}} \cup
  {<<p, "at">> : p \in {q \in Procs : proc[q].at = i}} \cup
  {<<p, "ip">> : p \in {q \in Procs : proc[q].ip = i}} \cup
  {<<p, "put">> : p \in {q \in Procs : proc[q].put = i}}

\* ref counts the references, on every error path of every call: a leaked one
\* would keep the inode for ever, a lost one free it under its users.
RefsExact == \A i \in Inums : ref[i] = Cardinality(Holders(i))

\* An inode that somebody still uses, or that a directory names, is allocated:
\* ilock() never panics with "no type", whatever was unlinked meanwhile.
NoDangling ==
  \A i \in Inums :
    /\ (\E h \in Holders(i) : h[2] # "put" \/ proc[h[1]].pc = "put") => Inode(i).type # "none"
    /\ \A n \in DOMAIN ent[i] : Inode(ent[i][n]).type # "none"

NamesOf(i) == NamesIn(ent, i)
Subdirs(i) == {n \in DOMAIN ent[i] : Inode(ent[i][n]).type = "DIR"}

\* The link count never falls below the number of names (and, for a directory, of
\* the ".." in it), or a file would be freed while a name is left; unlink()'s panic
\* ("nlink < 1") is out of reach.
LinksCovered ==
  \A i \in Inums :
    Inode(i).nlink >= Cardinality(NamesOf(i)) + Cardinality(Subdirs(i))

\* The inode whose lock a process needs to go on.
Wants(p) ==
  LET q == proc[p] IN
  CASE q.pc \in {"walk", "parent"} -> q.at
    [] q.pc \in {"target", "existing", "new", "unlink", "linkbad"} -> q.ip
    [] q.pc = "put" -> q.put
    [] OTHER -> 0

Blocked(p, q) == Wants(p) # 0 /\ lock[Wants(p)] = q

\* fs.c on ilock() and iget(): "The separation also helps avoid deadlock and races
\* during pathname lookup."  No processes wait for each other's inodes.
NoDeadlock ==
  ~ \E S \in SUBSET Procs : S # {} /\ \A p \in S : \E q \in S : Blocked(p, q)

\* The count in memory keeps an inode as long as anybody uses it and no longer, and
\* what is used or named is allocated on disk.
InodesSound == RefsExact /\ NoDangling
=============================================================================
