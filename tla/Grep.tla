---------------------------------- MODULE Grep ----------------------------------
(***************************************************************************)
(* grep of lab-2 (grep.c): the matcher, and the buffer that puts lines     *)
(* together from reads of any size.  A read and the loop over the lines it *)
(* completes is a step; what is printed is the position of a line.         *)
(***************************************************************************)
EXTENDS Naturals, Sequences, FiniteSets, FiniteSetsExt, SequencesExt

CONSTANTS
  ReChars,        \* bound: characters of patterns, with "^", "$", "*", "."
  TextChars,      \* bound: characters of lines
  MaxRe,          \* bound: length of a pattern
  MaxText,        \* bound: length of the input
  BufSize         \* sizeof(buf) - 1

Newline == "nl"

VARIABLES
  re, text,       \* the pattern and the input
  at,             \* how much of the input has been read
  lbuf,           \* buf, up to m
  out,            \* lines printed, as the position where they end in the input
  cut             \* history: a read brought no newline

grepVars == <<re, text, at, lbuf, out, cut>>

SeqsUpTo(S, n) == UNION {[1 .. k -> S] : k \in 0 .. n}

GrepInit ==
  /\ re \in SeqsUpTo(ReChars, MaxRe)
  /\ text \in SeqsUpTo(TextChars \cup {Newline}, MaxText)
  /\ at = 0 /\ lbuf = <<>> /\ out = {} /\ cut = FALSE

-----------------------------------------------------------------------------
(* The matcher; the end of a sequence is the NUL of a string.               *)

RECURSIVE matchhere(_, _)

\* Faulty variant: a star needs one instance at least.
matchstarOnce(c, r, s) ==
  \E k \in 1 .. Len(s) :
    /\ \A i \in 1 .. k : c = "." \/ s[i] = c
    /\ matchhere(r, SubSeq(s, k + 1, Len(s)))

\* c*r at the beginning of s.
matchstar(c, r, s) ==
  \E k \in 0 .. Len(s) :
    /\ \A i \in 1 .. k : c = "." \/ s[i] = c
    /\ matchhere(r, SubSeq(s, k + 1, Len(s)))

\* r at the beginning of s.
matchhere(r, s) ==
  IF r = <<>> THEN TRUE
  ELSE IF Len(r) > 1 /\ r[2] = "*" THEN matchstar(r[1], SubSeq(r, 3, Len(r)), s)
  ELSE IF r = <<"$">> THEN s = <<>>
  ELSE s # <<>> /\ r[1] \in {".", s[1]} /\ matchhere(Tail(r), Tail(s))

match(r, s) ==
  IF r # <<>> /\ r[1] = "^" THEN matchhere(Tail(r), s)
  ELSE \E k \in 0 .. Len(s) : matchhere(r, SubSeq(s, k + 1, Len(s)))

-----------------------------------------------------------------------------
(* grep().                                                                  *)

\* The ends of the lines in b.
LineEnds(b) == {k \in 1 .. Len(b) : b[k] = Newline}
LineStart(b, e) == Max({0} \cup {k \in LineEnds(b) : k < e}) + 1

\* Faulty variant: what is left is a byte short.
RestShort(b) == SubSeq(b, Max(LineEnds(b)) + 2, Len(b))

\* What stays in the buffer: the beginning of a line.
Rest(b) == SubSeq(b, Max(LineEnds(b)) + 1, Len(b))

\* read() of n bytes, the lines they complete, and the rest to the front.  Without a
\* newline all of the buffer is forgotten.
GrepRead(n) ==
  LET b == lbuf \o SubSeq(text, at + 1, at + n)
      base == at - Len(lbuf)
  IN /\ n <= Len(text) - at /\ Len(lbuf) + n <= BufSize
     /\ at' = at + n
     /\ out' = out \cup {base + e : e \in {k \in LineEnds(b) :
                                             match(re, SubSeq(b, LineStart(b, k), k - 1))}}
     /\ lbuf' = IF LineEnds(b) = {} THEN <<>> ELSE Rest(b)
     /\ cut' = (cut \/ LineEnds(b) = {})
     /\ UNCHANGED <<re, text>>

GrepNext == \E n \in 1 .. BufSize : GrepRead(n)

-----------------------------------------------------------------------------
(* Properties.                                                              *)

\* A pattern as its author means it: characters with how often they may come, between
\* anchors.
Unanchored(r) == IF r # <<>> /\ r[1] = "^" THEN Tail(r) ELSE r
ItemStarts(r) ==
  LET starts[k \in Nat] == IF k = 1 THEN TRUE
                           ELSE IF starts[k - 1] THEN r[k] # "*"   \* r[k-1] is an item's character
                           ELSE TRUE
  IN {k \in 1 .. Len(r) : starts[k]}
EndAnchored(r) == r # <<>> /\ Len(r) \in ItemStarts(r) /\ r[Len(r)] = "$"

\* Whether s is in the language of the items r[k] with k in the sequence ks.
InLanguage(r, ks, s) ==
  \E n \in [1 .. Len(ks) -> 0 .. Len(s)] :
    LET sum[k \in 0 .. Len(ks)] == IF k = 0 THEN 0 ELSE sum[k - 1] + n[k] IN
    /\ sum[Len(ks)] = Len(s)
    /\ \A k \in 1 .. Len(ks) :
         /\ (ks[k] < Len(r) /\ r[ks[k] + 1] = "*" /\ ks[k] + 1 \notin Range(ks)) \/ n[k] = 1
         /\ \A i \in sum[k - 1] + 1 .. sum[k] : r[ks[k]] \in {".", s[i]}

Means(r, s) ==
  LET u == Unanchored(r)
      ks == SetToSortSeq(ItemStarts(u) \ (IF EndAnchored(u) THEN {Len(u)} ELSE {}), <)
  IN \E i \in (IF u = r THEN 0 .. Len(s) ELSE {0}), j \in (IF EndAnchored(u) THEN {Len(s)} ELSE 0 .. Len(s)) :
       i <= j /\ InLanguage(u, ks, SubSeq(s, i + 1, j))

\* grep prints the lines that match and no others, however the reads cut the input, as
\* long as each brings a newline: else it loses the beginning of a line.
PrintsMatches ==
  ~cut => out = {e \in LineEnds(SubSeq(text, 1, at)) :
                   Means(re, SubSeq(text, LineStart(text, e), e - 1))}
=============================================================================
