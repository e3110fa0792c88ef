------------------------------- MODULE FileData -------------------------------
(***************************************************************************)
(* The contents of files in lab-2: balloc(), bfree(), bmap(), itrunc(),    *)
(* readi() and writei() of fs.c, and the transactions filewrite() and      *)
(* fileread() of file.c cut them into.  Several open files write at once;  *)
(* they share the inodes, each under its lock, and the bitmap.  A unit of  *)
(* data is a word, as large as a block number, so the content of any block *)
(* can be taken for that of an indirect block.                             *)
(***************************************************************************)
EXTENDS Naturals, Sequences, FiniteSets, FiniteSetsExt

CONSTANTS
  Inodes,
  Opens,          \* open files (struct file)
  InodeOf,        \* the inode each of them is of
  WordOf,         \* what is written through each, a number greater than 0
  NDIRECT, BSIZE, \* direct blocks of an inode; words of a block
  BPB,            \* bits of a block of the bitmap
  NBlocks,        \* data blocks; the runs have enough for all files
  MaxOpBlocks,
  MaxWrite,       \* bound: words of a call
  MaxCalls        \* bound: calls

ASSUME FileDataAssumption ==
  /\ InodeOf \in [Opens -> Inodes]
  /\ WordOf \in [Opens -> Nat \ {0}]
  /\ "none" \notin Opens /\ "itrunc" \notin Opens
  /\ NDIRECT \in Nat /\ BSIZE \in Nat \ {0} /\ BPB \in Nat \ {0} /\ NBlocks \in Nat
  /\ MaxOpBlocks \in Nat /\ MaxOpBlocks >= 6 /\ MaxWrite \in Nat

Words == {WordOf[d] : d \in Opens}
NINDIRECT == BSIZE
MAXFILE == NDIRECT + NINDIRECT
DataBlocks == 1 .. NBlocks

VARIABLES
  bitmap,         \* blocks whose bit is set
  store,          \* content of the blocks
  addrs,          \* ip->addrs of each inode
  len,            \* ip->size
  held,           \* who has the lock of each inode: an open file, "itrunc" or "none"
  off,            \* f->off of each open file
  wr,             \* the call each open file is in
  slot,           \* each inode: how far itrunc() is
  before,         \* history: content of an inode when it was locked
  calls           \* calls so far

fileVars == <<bitmap, store, addrs, len, held, off, wr, slot, before, calls>>

NoWrite == [pc |-> "idle", todo |-> 0, n |-> 0, pos |-> 0, new |-> 0, logged |-> {}]

\* Empty files on a disk full of the remains of others.
DataInit ==
  /\ bitmap = {} /\ store = [b \in DataBlocks |-> [k \in 0 .. BSIZE - 1 |-> Min(Words)]]
  /\ addrs = [i \in Inodes |-> [k \in 0 .. NDIRECT |-> 0]]
  /\ len = [i \in Inodes |-> 0] /\ held = [i \in Inodes |-> "none"]
  /\ off = [d \in Opens |-> 0] /\ wr = [d \in Opens |-> NoWrite]
  /\ slot = [i \in Inodes |-> 0] /\ before = [i \in Inodes |-> <<>>] /\ calls = 0

Call == calls < MaxCalls /\ calls' = calls + 1

\* The block of an inode's block number bn, 0 if there is none: the part of bmap()
\* that looks.  Number MAXFILE stands for the indirect block itself.
Lookup(i, bn) ==
  IF bn < NDIRECT THEN addrs[i][bn]
  ELSE IF bn = MAXFILE \/ addrs[i][NDIRECT] = 0 THEN addrs[i][NDIRECT]
  ELSE store[addrs[i][NDIRECT]][bn - NDIRECT]

\* What readi() gives for the whole file.
Content(i) ==
  [k \in 1 .. len[i] |-> store[Lookup(i, (k - 1) \div BSIZE)][(k - 1) % BSIZE]]

-----------------------------------------------------------------------------
(* filewrite() and writei().                                                *)

StartWrite(d, n) ==
  /\ Call /\ wr[d].pc = "idle" /\ held[InodeOf[d]] # "itrunc"
  /\ wr' = [wr EXCEPT ![d] = [NoWrite EXCEPT !.pc = "chunk", !.todo = n]]
  /\ UNCHANGED <<bitmap, store, addrs, len, held, off, slot, before>>

\* Faulty variant: no slop for writes that are not aligned.
ChunkMaxTight == ((MaxOpBlocks - 1 - 1) \div 2) * BSIZE

ChunkMax == ((MaxOpBlocks - 1 - 1 - 2) \div 2) * BSIZE

\* begin_op(), ilock() and the tests of writei(); a write that fails ends the call.
Chunk(d) ==
  LET i == InodeOf[d]  n == Min({wr[d].todo, ChunkMax}) IN
  /\ wr[d].pc = "chunk" /\ held[i] = "none"
  /\ IF off[d] > len[i] \/ off[d] + n > MAXFILE * BSIZE
     THEN wr' = [wr EXCEPT ![d] = NoWrite] /\ UNCHANGED <<held, before>>
     ELSE /\ wr' = [wr EXCEPT ![d].pc = "bmap", ![d].n = n, ![d].pos = off[d]]
          /\ held' = [held EXCEPT ![i] = d] /\ before' = [before EXCEPT ![i] = Content(i)]
  /\ UNCHANGED <<bitmap, store, addrs, len, off, slot, calls>>

\* The block number that bmap() has to allocate next, if any.
Missing(d) ==
  LET i == InodeOf[d]  bn == wr[d].pos \div BSIZE IN
  IF bn >= NDIRECT /\ addrs[i][NDIRECT] = 0 THEN MAXFILE ELSE bn

\* balloc(): the first free block, with its bit; without one it panics.
Balloc(d) ==
  LET b == Min(DataBlocks \ bitmap) IN
  /\ wr[d].pc = "bmap" /\ Lookup(InodeOf[d], Missing(d)) = 0 /\ DataBlocks \ bitmap # {}
  /\ bitmap' = bitmap \cup {b}
  /\ wr' = [wr EXCEPT ![d].pc = "bzero", ![d].new = b,
                      ![d].logged = @ \cup {<<"bits", b \div BPB>>}]
  /\ UNCHANGED <<store, addrs, len, held, off, slot, before, calls>>

\* Faulty variant: the block keeps what it held.
ZeroedNot(b) == store[b]

Zeroed(b) == [k \in 0 .. BSIZE - 1 |-> 0]

\* bzero(), and the number goes into the inode or the indirect block.
Install(d) ==
  LET i == InodeOf[d]  b == wr[d].new  bn == Missing(d)
      cleared == [store EXCEPT ![b] = Zeroed(b)]
      ind == addrs[i][NDIRECT]
  IN /\ wr[d].pc = "bzero"
     /\ IF bn < NDIRECT \/ bn = MAXFILE
        THEN /\ addrs' = [addrs EXCEPT ![i][IF bn = MAXFILE THEN NDIRECT ELSE bn] = b]
             /\ store' = cleared
        ELSE /\ store' = [cleared EXCEPT ![ind][bn - NDIRECT] = b]
             /\ addrs' = addrs
     /\ wr' = [wr EXCEPT ![d].pc = "bmap", ![d].new = 0,
                         ![d].logged = @ \cup {<<"data", b>>} \cup
                            (IF bn < NDIRECT \/ bn = MAXFILE THEN {} ELSE {<<"data", ind>>})]
     /\ UNCHANGED <<bitmap, len, held, off, slot, before, calls>>

\* The words of this round: to the end of the block or of the write.
Round(d) == Min({off[d] + wr[d].n - wr[d].pos, BSIZE - (wr[d].pos % BSIZE)})

\* Faulty variant: the round goes on to the end of the block.
CopiedToEnd(d, b) ==
  [store EXCEPT ![b] = [k \in 0 .. BSIZE - 1 |->
     IF k >= wr[d].pos % BSIZE THEN WordOf[d] ELSE @[k]]]

Copied(d, b) ==
  [store EXCEPT ![b] = [k \in 0 .. BSIZE - 1 |->
     IF k >= wr[d].pos % BSIZE /\ k < (wr[d].pos % BSIZE) + Round(d) THEN WordOf[d] ELSE @[k]]]

\* A round of writei()'s loop.
Copy(d) ==
  LET i == InodeOf[d]  b == Lookup(i, wr[d].pos \div BSIZE) IN
  /\ wr[d].pc = "bmap" /\ Lookup(i, Missing(d)) # 0
  /\ store' = Copied(d, b)
  /\ wr' = [wr EXCEPT ![d].pos = @ + Round(d), ![d].logged = @ \cup {<<"data", b>>},
                      ![d].pc = IF wr[d].pos + Round(d) = off[d] + wr[d].n THEN "end" ELSE "bmap"]
  /\ UNCHANGED <<bitmap, addrs, len, held, off, slot, before, calls>>

\* The size, iupdate(), f->off, iunlock() and end_op(); the next chunk, if any.
EndChunk(d) ==
  LET i == InodeOf[d]  todo == wr[d].todo - wr[d].n IN
  /\ wr[d].pc = "end"
  /\ len' = [len EXCEPT ![i] = Max({@, wr[d].pos})]
  /\ off' = [off EXCEPT ![d] = wr[d].pos]
  /\ held' = [held EXCEPT ![i] = "none"]
  /\ wr' = [wr EXCEPT ![d] = IF todo = 0 THEN NoWrite
                             ELSE [NoWrite EXCEPT !.pc = "chunk", !.todo = todo]]
  /\ UNCHANGED <<bitmap, store, addrs, slot, before, calls>>

\* fileread() of n words: what matters is the offset.
FileRead(d, n) ==
  LET i == InodeOf[d] IN
  /\ Call /\ wr[d].pc = "idle" /\ held[i] = "none"
  /\ off[d] < len[i]
  /\ off' = [off EXCEPT ![d] = Min({@ + n, len[i]})]
  /\ UNCHANGED <<bitmap, store, addrs, len, held, wr, slot, before>>

-----------------------------------------------------------------------------
(* The file goes: iput() of the last reference to an inode without links.   *)

\* None of its open files is left.
StartTrunc(i) ==
  /\ Call /\ held[i] = "none" /\ \A d \in Opens : InodeOf[d] = i => wr[d].pc = "idle"
  /\ held' = [held EXCEPT ![i] = "itrunc"] /\ slot' = [slot EXCEPT ![i] = 0]
  /\ before' = [before EXCEPT ![i] = Content(i)]
  /\ UNCHANGED <<bitmap, store, addrs, len, off, wr>>

\* Faulty variant: the indirect block is left to itself.
BfreeDataOnly(i) ==
  /\ bitmap' = IF slot[i] = MAXFILE THEN bitmap ELSE bitmap \ {Lookup(i, slot[i])}
  /\ addrs' = [addrs EXCEPT ![i] =
                 IF slot[i] < NDIRECT THEN [@ EXCEPT ![slot[i]] = 0]
                 ELSE IF slot[i] = MAXFILE THEN [@ EXCEPT ![NDIRECT] = 0] ELSE @]

\* bfree() of the block of one slot; the entries of the indirect block stay.
Bfree(i) ==
  /\ bitmap' = bitmap \ {Lookup(i, slot[i])}
  /\ addrs' = [addrs EXCEPT ![i] =
                 IF slot[i] < NDIRECT THEN [@ EXCEPT ![slot[i]] = 0]
                 ELSE IF slot[i] = MAXFILE THEN [@ EXCEPT ![NDIRECT] = 0] ELSE @]

\* A round of itrunc()'s loops: direct blocks, those of the indirect block, it itself.
TruncRound(i) ==
  /\ held[i] = "itrunc" /\ slot[i] <= MAXFILE
  /\ slot' = [slot EXCEPT ![i] = @ + 1]
  /\ IF Lookup(i, slot[i]) = 0
     THEN UNCHANGED <<bitmap, addrs>>
     ELSE Bfree(i)
  /\ UNCHANGED <<store, len, held, off, wr, before, calls>>

\* The inode is then another file's, which the model's open files are of.
EndTrunc(i) ==
  /\ held[i] = "itrunc" /\ slot[i] = MAXFILE + 1
  /\ len' = [len EXCEPT ![i] = 0]
  /\ held' = [held EXCEPT ![i] = "none"] /\ slot' = [slot EXCEPT ![i] = 0]
  /\ off' = [d \in Opens |-> IF InodeOf[d] = i THEN 0 ELSE off[d]]
  /\ UNCHANGED <<bitmap, store, addrs, wr, before, calls>>

DataNext ==
  \/ \E d \in Opens :
       \/ \E n \in 1 .. MaxWrite : FileRead(d, n) \/ StartWrite(d, n)
       \/ Chunk(d) \/ Balloc(d) \/ Install(d) \/ Copy(d) \/ EndChunk(d)
  \/ \E i \in Inodes : StartTrunc(i) \/ TruncRound(i) \/ EndTrunc(i)

DataSpec == DataInit /\ [][DataNext]_fileVars

-----------------------------------------------------------------------------
(* Properties.                                                              *)

\* The places that name block b: inodes and indirect blocks, as far as itrunc() has not
\* been there, and balloc()'s callers under way.
References(b) ==
  {r \in Inodes \X (0 .. MAXFILE) : r[2] >= slot[r[1]] /\ Lookup(r[1], r[2]) = b}
  \cup {d \in Opens : wr[d].new = b}

\* A block is in use exactly when one file has it, once: whatever allocations and
\* truncations of other files come between the bit and the block number.
BlocksOwnedOnce ==
  \A b \in DataBlocks : Cardinality(References(b)) = IF b \in bitmap THEN 1 ELSE 0

\* No transaction of filewrite() writes more blocks than begin_op() reserves, at any
\* offset and with every bit in a bitmap block of its own ("write a few blocks at a time
\* to avoid exceeding the maximum log transaction size").
ChunkFitsLog ==
  \A d \in Opens :
    Cardinality(wr[d].logged) + (IF wr[d].pc = "end" /\ wr[d].pos > len[InodeOf[d]] THEN 1 ELSE 0)
      <= MaxOpBlocks

Files == INSTANCE ByteFiles WITH
  MaxLen <- MAXFILE * BSIZE, offset <- off,
  file <- [i \in Inodes |-> IF held[i] = "none" THEN Content(i) ELSE before[i]]

\* Blocks, indirect blocks and the bitmap implement plain sequences of words: a write
\* changes its words of its file and nothing of another.
PlainFiles == Files!FilesSpec
=============================================================================
