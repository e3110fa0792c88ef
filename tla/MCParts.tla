-------------------------------- MODULE MCParts --------------------------------
(* Instances for TLC of parts that are small: spin locks, memory of          *)
(* processes, console, keyboard, command lines, malloc(), grep, and the      *)
(* search for debugging information.  A behaviour takes the steps of one.    *)
EXTENDS Spinlock, Vm, Console, Kbd, Shell, Umalloc, Grep, KDebug

CONSTANTS p1, p2

\* Vm: pages of two bytes, two programs, the larger of which leaves no room for a stack.
MCPrograms == {0 :> 1, [a \in 0 .. 2 |-> 1]}
MCPages == 1 .. 11
MCIncrements == {-3, -2, 3}
MCTargets == {1, 3}

MCKeys == {LCTL, RCTL, LSHIFT, RSHIFT, LALT, RALT, CAPS, KeyA}

\* w | f | r, w; w | r, and (w | r) &.
MCCommands ==
  {PipeOf(Exec("writer"), PipeOf(Exec("filter"), Exec("reader"))),
   ListOf(Exec("writer"), PipeOf(Exec("writer"), Exec("reader"))),
   Back(PipeOf(Exec("writer"), Exec("reader")))}

\* Readers of the console are interchangeable.
Symmetry == Permutations(Readers)

\* Which page is where does not matter, as long as it is known which places hold the
\* same page: free pages have the same contents, so Kalloc() may pick any of them.
PlacesOf(g) ==
  <<g \in free, {p \in Procs : job[p].page = g},
    {x \in Spaces : g \in SpaceOf(x).kvm},
    {<<x, d>> \in Spaces \X (0 .. NPD - 1) : SpaceOf(x).pde[d] = g},
    {<<x, v>> \in Spaces \X VPNs : SpaceOf(x).pte[v] = g}>>
VmView ==
  <<{<<PlacesOf(g), mem[g]>> : g \in Pages}, Cardinality(free), sz,
    [x \in Spaces |-> <<Cardinality(SpaceOf(x).kvm), SpaceOf(x).guard>>],
    [p \in Procs |-> [job[p] EXCEPT !.page = NoPage]]>>

VARIABLE part

partsVars == <<spinVars, vmVars, consVars, kbdVars, shellVars, heapVars, grepVars, stabVars, part>>

Parts == {"spinlock", "vm", "console", "kbd", "shell", "heap", "grep", "stabs"}

\* Of the parts that do not run one initial state is enough.
PartsInit ==
  /\ part \in Parts
  /\ SpinInit /\ VmInit /\ ConsoleInit /\ KbdInit /\ HeapInit
  /\ IF part = "shell" THEN ShellInit
     ELSE ShellInit /\ proc[1].cmd = CHOOSE c \in MCCommands : c.type = "BACK"
  /\ IF part = "grep" THEN GrepInit
     ELSE re = <<>> /\ text = <<>> /\ at = 0 /\ lbuf = <<>> /\ out = {} /\ cut = FALSE
  /\ IF part = "stabs" THEN StabInit
     ELSE /\ stabs = [k \in 0 .. NStabs - 1 |-> [type |-> "other", value |-> 0]]
          /\ sought = 0 /\ phase = "fail" /\ addr = 0 /\ any = FALSE
          /\ sl = 0 /\ sr = 0 /\ rl = 0 /\ rr = 0 /\ lfile = 0 /\ rfile = 0

SpinlockPart ==
  part = "spinlock" /\ SpinNext
  /\ UNCHANGED <<vmVars, consVars, kbdVars, shellVars, heapVars, grepVars, stabVars, part>>
VmPart ==
  part = "vm" /\ VmNext
  /\ UNCHANGED <<spinVars, consVars, kbdVars, shellVars, heapVars, grepVars, stabVars, part>>
ConsolePart ==
  part = "console" /\ ConsoleNext
  /\ UNCHANGED <<spinVars, vmVars, kbdVars, shellVars, heapVars, grepVars, stabVars, part>>
KbdPart ==
  part = "kbd" /\ KbdNext
  /\ UNCHANGED <<spinVars, vmVars, consVars, shellVars, heapVars, grepVars, stabVars, part>>
ShellPart ==
  part = "shell" /\ ShellNext
  /\ UNCHANGED <<spinVars, vmVars, consVars, kbdVars, heapVars, grepVars, stabVars, part>>
HeapPart ==
  part = "heap" /\ HeapNext
  /\ UNCHANGED <<spinVars, vmVars, consVars, kbdVars, shellVars, grepVars, stabVars, part>>
GrepPart ==
  part = "grep" /\ GrepNext
  /\ UNCHANGED <<spinVars, vmVars, consVars, kbdVars, shellVars, heapVars, stabVars, part>>
StabsPart ==
  part = "stabs" /\ StabNext
  /\ UNCHANGED <<spinVars, vmVars, consVars, kbdVars, shellVars, heapVars, grepVars, part>>

PartsNext ==
  \/ SpinlockPart \/ VmPart \/ ConsolePart \/ KbdPart
  \/ ShellPart \/ HeapPart \/ GrepPart \/ StabsPart

PartsView ==
  <<spinVars, IF part = "vm" THEN VmView ELSE <<>>, consVars, kbdVars, shellVars, heapVars, grepVars,
    stabVars, part>>

PartsSpec == PartsInit /\ [][PartsNext]_partsVars
=============================================================================
