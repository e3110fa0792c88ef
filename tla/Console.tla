-------------------------------- MODULE Console --------------------------------
(***************************************************************************)
(* Input of the xv6 console (lab-2/console.c): consoleintr() edits lines   *)
(* in a ring buffer with three unsigned indices, consoleread() sleeps for  *)
(* complete ones.  The interrupt handler is one step a character; a reader *)
(* keeps cons.lock from byte to byte and gives it up when it sleeps.       *)
(***************************************************************************)
EXTENDS Integers, Sequences, FiniteSets

CONSTANTS
  Readers, NoReader,
  Letters,        \* ordinary characters
  NL, CR, EOF,    \* newline, \r, ^D
  INPUT_BUF,
  UMOD,           \* range of the unsigned indices, 2^32 in the code
  MaxRead         \* bound: size of a read

ASSUME ConsoleAssumption ==
  /\ INPUT_BUF \in Nat \ {0} /\ UMOD \in Nat /\ UMOD % INPUT_BUF = 0 /\ UMOD > INPUT_BUF
  /\ MaxRead \in Nat /\ NoReader \notin Readers

Chars == Letters \cup {NL, EOF}

VARIABLES
  buf, ir, iw, ie,   \* input: buf, r, w, e
  cons,           \* the reader that holds cons.lock, or NoReader
  rpc,            \* each reader: where it is in consoleread()
  left,           \* each reader: n, the bytes it still wants
  got,            \* each reader: what it has read in this call
  killed

consVars == <<buf, ir, iw, ie, cons, rpc, left, got, killed>>
ringVars == <<buf, ir, iw, ie>>

ConsoleInit ==
  /\ buf = [i \in 0 .. INPUT_BUF - 1 |-> NL] /\ ir = 0 /\ iw = 0 /\ ie = 0
  /\ cons = NoReader
  /\ rpc = [p \in Readers |-> "idle"] /\ left = [p \in Readers |-> 0]
  /\ got = [p \in Readers |-> <<>>] /\ killed = [p \in Readers |-> FALSE]

\* Unsigned arithmetic.
Minus(a, b) == (a - b) % UMOD
Plus(a, b) == (a + b) % UMOD

-----------------------------------------------------------------------------
(* consoleintr().                                                           *)

\* wakeup(&input.r).
WakeReaders == [p \in Readers |-> IF rpc[p] = "asleep" THEN "lock" ELSE rpc[p]]

\* Faulty variant: only a newline completes a line.
CompletesNewline(c, e) == c = NL

Completes(c, e) == c \in {NL, EOF} \/ e = Plus(ir, INPUT_BUF)

\* An ordinary character, a newline or ^D; a full buffer refuses it.
TypeChar(key) ==
  LET c == IF key = CR THEN NL ELSE key  e == Plus(ie, 1) IN
  /\ key \in Letters \cup {NL, CR, EOF}
  /\ cons = NoReader /\ Minus(ie, ir) < INPUT_BUF
  /\ buf' = [buf EXCEPT ![ie % INPUT_BUF] = c]
  /\ ie' = e
  /\ iw' = IF Completes(c, e) THEN e ELSE iw
  /\ rpc' = IF Completes(c, e) THEN WakeReaders ELSE rpc
  /\ UNCHANGED <<ir, cons, left, got, killed>>

\* Faulty variant: backspace goes back beyond the line.
BackspaceAlways ==
  /\ cons = NoReader /\ ie # ir
  /\ ie' = Minus(ie, 1)
  /\ UNCHANGED <<buf, ir, iw, cons, rpc, left, got, killed>>

Backspace ==
  /\ cons = NoReader /\ ie # iw
  /\ ie' = Minus(ie, 1)
  /\ UNCHANGED <<buf, ir, iw, cons, rpc, left, got, killed>>

\* ^U, back to the start of the line or to a newline.
KillLine ==
  LET stop(e) == e = iw \/ buf[Minus(e, 1) % INPUT_BUF] = NL IN
  /\ cons = NoReader /\ ie # iw
  /\ \E n \in 0 .. INPUT_BUF :
       /\ stop(Minus(ie, n)) /\ \A k \in 0 .. n - 1 : ~stop(Minus(ie, k))
       /\ ie' = Minus(ie, n)
  /\ UNCHANGED <<buf, ir, iw, cons, rpc, left, got, killed>>

-----------------------------------------------------------------------------
(* consoleread().                                                           *)

\* A process begins to read; in the place of a killed one a new one does.
ReadStart(p) ==
  /\ rpc[p] = "idle" /\ killed' = [killed EXCEPT ![p] = FALSE]
  /\ \E n \in 1 .. MaxRead : left' = [left EXCEPT ![p] = n]
  /\ got' = [got EXCEPT ![p] = <<>>]
  /\ rpc' = [rpc EXCEPT ![p] = "lock"]
  /\ UNCHANGED <<ringVars, cons>>

\* acquire(&cons.lock), also at the end of sleep().
ReadLock(p) ==
  /\ rpc[p] = "lock" /\ cons = NoReader
  /\ cons' = p /\ rpc' = [rpc EXCEPT ![p] = "loop"]
  /\ UNCHANGED <<ringVars, left, got, killed>>

\* Nothing there: a killed process leaves, the others go on to sleep().
ReadEmpty(p) ==
  /\ rpc[p] = "loop" /\ ir = iw
  /\ IF killed[p]
     THEN cons' = NoReader /\ rpc' = [rpc EXCEPT ![p] = "idle"]
     ELSE cons' = cons /\ rpc' = [rpc EXCEPT ![p] = "tosleep"]
  /\ UNCHANGED <<ringVars, left, got, killed>>

\* Faulty variant: cons.lock is released before the process is SLEEPING.
ReadSleepUnlocked(p) ==
  /\ rpc[p] = "tosleep" /\ cons \in {p, NoReader}
  /\ cons' = NoReader
  /\ rpc' = [rpc EXCEPT ![p] = IF cons = p THEN "tosleep" ELSE "asleep"]
  /\ UNCHANGED <<ringVars, left, got, killed>>

\* sleep(&input.r, &cons.lock).
ReadSleep(p) ==
  /\ rpc[p] = "tosleep"
  /\ cons' = NoReader /\ rpc' = [rpc EXCEPT ![p] = "asleep"]
  /\ UNCHANGED <<ringVars, left, got, killed>>

Leave(p) == cons' = NoReader /\ rpc' = [rpc EXCEPT ![p] = "idle"]

\* A byte; ^D ends the read, and stays for the next one if there was something.
ReadByte(p) ==
  LET c == buf[ir % INPUT_BUF] IN
  /\ rpc[p] = "loop" /\ ir # iw
  /\ IF c = EOF
     THEN /\ ir' = IF got[p] # <<>> THEN ir ELSE Plus(ir, 1)
          /\ Leave(p) /\ UNCHANGED <<left, got>>
     ELSE /\ ir' = Plus(ir, 1)
          /\ got' = [got EXCEPT ![p] = Append(@, c)]
          /\ left' = [left EXCEPT ![p] = @ - 1]
          /\ IF c = NL \/ left[p] = 1 THEN Leave(p) ELSE UNCHANGED <<cons, rpc>>
  /\ UNCHANGED <<buf, iw, ie, killed>>

\* kill() makes a sleeper runnable.
KillReader(p) ==
  /\ rpc[p] # "idle" /\ ~killed[p]
  /\ killed' = [killed EXCEPT ![p] = TRUE]
  /\ rpc' = [rpc EXCEPT ![p] = IF @ = "asleep" THEN "lock" ELSE @]
  /\ UNCHANGED <<ringVars, cons, left, got>>

ReaderStep(p) ==
  ReadStart(p) \/ ReadLock(p) \/ ReadEmpty(p) \/ ReadSleep(p) \/ ReadByte(p) \/ KillReader(p)

ConsoleNext ==
  \/ \E c \in Letters \cup {NL, CR, EOF} : TypeChar(c)
  \/ Backspace \/ KillLine
  \/ \E p \in Readers : ReaderStep(p)

ConsoleSpec == ConsoleInit /\ [][ConsoleNext]_consVars

-----------------------------------------------------------------------------
(* Properties.                                                              *)

\* No reader sleeps while there is a line to read.
ReaderServed == \A p \in Readers : rpc[p] = "asleep" => ir = iw

\* A full buffer can be read: the keyboard is never refused for good, however
\* letters, erasures and reads have moved the three indices.
FullIsReadable == Minus(ie, ir) = INPUT_BUF => iw = ie

Slice(a, b) == [i \in 1 .. Minus(b, a) |-> buf[Plus(a, i - 1) % INPUT_BUF]]

Lines == INSTANCE LineInput WITH
  ready <- Slice(ir, iw), line <- Slice(iw, ie), Capacity <- INPUT_BUF

\* The ring with its three indices is a line editor and a queue, across the wrap of
\* the indices and with competing readers.
LineDiscipline == Lines!InputSpec

\* The keyboard and the readers never block each other: lines wake readers, and a
\* full buffer always holds something to read.
InputFlows == ReaderServed /\ FullIsReadable
=============================================================================
