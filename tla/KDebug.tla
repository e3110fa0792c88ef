-------------------------------- MODULE KDebug --------------------------------
(***************************************************************************)
(* Lookup of debugging information in lab-3 (kern/kdebug.c):               *)
(* stab_binsearch() over a table of stabs of several types, and            *)
(* debuginfo_eip(), which searches for a file, then for a function in the  *)
(* file.  A round of a loop is a step.  Names and line numbers are left    *)
(* out; what is found is an index of the table.                            *)
(***************************************************************************)
EXTENDS Integers, FiniteSets, FiniteSetsExt

CONSTANTS
  NStabs,         \* bound: entries of the table
  MaxAddr         \* bound: addresses

ASSUME KDebugAssumption == NStabs \in Nat \ {0} /\ MaxAddr \in Nat

StabTypes == {"SO", "FUN", "other"}

VARIABLES
  stabs,          \* the table
  sought,         \* the address debuginfo_eip() is asked for
  phase,          \* the search under way ("SO", "FUN"), "done" or "fail"
  addr,           \* stab_binsearch()'s addr
  sl, sr,         \* l and r
  rl, rr,         \* *region_left, *region_right
  any,            \* any_matches
  lfile, rfile    \* the file found

stabVars == <<stabs, sought, phase, addr, sl, sr, rl, rr, any, lfile, rfile>>

\* Files in the order of their addresses, functions too; the first stab is of no file,
\* but a header of the table.
Sorted(t, type) ==
  \A i, j \in DOMAIN t : i < j /\ t[i].type = type /\ t[j].type = type => t[i].value <= t[j].value

StabInit ==
  /\ stabs \in {t \in [0 .. NStabs - 1 -> [type : StabTypes, value : 0 .. MaxAddr]] :
                  /\ t[0] = [type |-> "other", value |-> 0]
                  /\ \A i \in DOMAIN t : t[i].type = "other" => t[i].value = 0
                  /\ Sorted(t, "SO") /\ Sorted(t, "FUN")}
  /\ sought \in 0 .. MaxAddr
  /\ phase = "SO" /\ addr = sought
  /\ sl = 0 /\ rl = 0 /\ sr = NStabs - 1 /\ rr = NStabs - 1
  /\ any = FALSE /\ lfile = 0 /\ rfile = 0

\* The stab of the right type at or before the middle, or sl - 1.
Middle == (sl + sr) \div 2
\* Faulty variant: only the middle is looked at.
BeforeUnwalked == IF stabs[Middle].type = phase THEN Middle ELSE sl - 1
Before == Max({sl - 1} \cup {m \in sl .. Middle : stabs[m].type = phase})

\* A round of the binary search.
SearchRound ==
  LET m == Before IN
  /\ phase \in {"SO", "FUN"} /\ sl <= sr
  /\ IF m < sl
     THEN sl' = Middle + 1 /\ UNCHANGED <<sr, rl, rr, addr, any>>
     ELSE /\ any' = TRUE
          /\ CASE stabs[m].value < addr -> rl' = m /\ sl' = Middle + 1 /\ UNCHANGED <<sr, rr, addr>>
               [] stabs[m].value > addr -> rr' = m - 1 /\ sr' = m - 1 /\ UNCHANGED <<sl, rl, addr>>
               [] OTHER -> rl' = m /\ sl' = m /\ addr' = addr + 1 /\ UNCHANGED <<sr, rr>>
  /\ UNCHANGED <<stabs, sought, phase, lfile, rfile>>

\* The region at the end: back to the last stab of the type in it.
Region ==
  IF ~any THEN <<rl, rl - 1>>
  ELSE <<Max({rl} \cup {k \in rl .. rr : stabs[k].type = phase}), rr>>

\* debuginfo_eip() with the file: it gives up, or looks for the function in it.
FileFound ==
  /\ phase = "SO" /\ sl > sr
  /\ IF Region[1] = 0
     THEN phase' = "fail" /\ UNCHANGED <<addr, sl, sr, rl, rr, any, lfile, rfile>>
     ELSE /\ phase' = "FUN" /\ addr' = sought /\ any' = FALSE
          /\ lfile' = Region[1] /\ rfile' = Region[2]
          /\ sl' = Region[1] /\ rl' = Region[1] /\ sr' = Region[2] /\ rr' = Region[2]
  /\ UNCHANGED <<stabs, sought>>

\* With the function: lfun, rfun are rl, rr.
FunctionFound ==
  /\ phase = "FUN" /\ sl > sr
  /\ phase' = "done" /\ rl' = Region[1] /\ rr' = Region[2]
  /\ UNCHANGED <<stabs, sought, addr, sl, sr, any, lfile, rfile>>

StabNext == SearchRound \/ FileFound \/ FunctionFound

StabSpec == StabInit /\ [][StabNext]_stabVars

-----------------------------------------------------------------------------
(* Properties.                                                              *)

\* The stab of a type in lo .. hi that contains the address: the last one not above it.
Containing(type, lo, hi) ==
  Max({-1} \cup {k \in lo .. hi : stabs[k].type = type /\ stabs[k].value <= sought})
\* The end of its region: before the next stab of the type that lies above.
RegionEnd(type, k, hi) ==
  Min({hi} \cup {n - 1 : n \in {j \in k + 1 .. hi : stabs[j].type = type}})

\* A region of a single byte begins at the address: stab_binsearch() goes on to look for
\* addr + 1 then, and takes the next region for the one it wants.
ByteRegion(type) ==
  \E i, j \in DOMAIN stabs :
    /\ stabs[i].type = type /\ stabs[i].value = sought
    /\ stabs[j].type = type /\ stabs[j].value = sought + 1

\* The file and the function are those that contain the address, with the whole of their
\* stabs, however types are mixed and addresses shared; if no file does, the call fails.
\* Single bytes apart, where the search goes wrong.
RegionsRight ==
  ~ByteRegion("SO") =>
    /\ phase = "fail" => Containing("SO", 0, NStabs - 1) = -1
    /\ phase \in {"FUN", "done"} =>
         /\ lfile = Containing("SO", 0, NStabs - 1)
         /\ rfile = RegionEnd("SO", lfile, NStabs - 1)
    /\ phase = "done" /\ ~ByteRegion("FUN") /\ Containing("FUN", lfile, rfile) # -1 =>
         /\ rl = Containing("FUN", lfile, rfile)
         /\ rr = RegionEnd("FUN", rl, rfile)
=============================================================================
