---------------------------------- MODULE Kbd ----------------------------------
(***************************************************************************)
(* The keyboard of lab-2 (kbd.c, kbd.h): keys send one or two bytes when   *)
(* they go down and up, kbdgetc() follows the modifiers.  Bytes are        *)
(* numbers; of the tables, the modifiers and one letter are kept.          *)
(***************************************************************************)
EXTENDS Naturals, Sequences, FiniteSets

CONSTANT
  Keys            \* bound: keys in use, <<byte, prefixed by 0xE0>>

LCTL == <<29, FALSE>>
RCTL == <<29, TRUE>>
LSHIFT == <<42, FALSE>>
RSHIFT == <<54, FALSE>>
LALT == <<56, FALSE>>
RALT == <<56, TRUE>>
CAPS == <<58, FALSE>>
KeyA == <<30, FALSE>>

\* 224 is the prefix, so no key is released with it.
ASSUME KbdAssumption == Keys \subseteq ((0 .. 127) \ {96}) \X BOOLEAN

VARIABLES
  port,           \* bytes the controller has for us
  shift,          \* flags kbdgetc() keeps
  down,           \* keys that are down
  last            \* what kbdgetc() returned last for a key

kbdVars == <<port, shift, down, last>>

KbdInit == port = <<>> /\ shift = {} /\ down = {} /\ last = "none"

shiftcode(b) == CASE b \in {29, 157} -> {"CTL"}
                  [] b \in {42, 54} -> {"SHIFT"}
                  [] b \in {56, 184} -> {"ALT"}
                  [] OTHER -> {}
togglecode(b) == IF b = 58 THEN {"CAPSLOCK"} ELSE {}

\* charcode[shift & (CTL | SHIFT)][data], with caps lock.
charcode(sh, b) ==
  IF b # 30 THEN "other"
  ELSE IF "CTL" \in sh THEN "^A"
  ELSE IF ("SHIFT" \in sh) # ("CAPSLOCK" \in sh) THEN "A" ELSE "a"

Xor(S, T) == (S \cup T) \ (S \cap T)

-----------------------------------------------------------------------------

Sent(k, byte) == (IF k[2] THEN <<224>> ELSE <<>>) \o <<byte>>

KeyDown(k) ==
  /\ k \notin down /\ port = <<>>
  /\ down' = down \cup {k} /\ port' = Sent(k, k[1])
  /\ UNCHANGED <<shift, last>>

KeyUp(k) ==
  /\ k \in down /\ port = <<>>
  /\ down' = down \ {k} /\ port' = Sent(k, k[1] + 128)
  /\ UNCHANGED <<shift, last>>

\* Faulty variant: the prefix is not forgotten after a release.
KbdReleaseEscaped(b) ==
  LET data == IF "E0ESC" \in shift THEN b ELSE b - 128 IN
  /\ shift' = shift \ shiftcode(data)
  /\ UNCHANGED last

\* A key is released.
KbdRelease(b) ==
  LET data == IF "E0ESC" \in shift THEN b ELSE b - 128 IN
  /\ shift' = shift \ (shiftcode(data) \cup {"E0ESC"})
  /\ UNCHANGED last

\* A key is pressed, after the prefix or without it.
KbdPress(b) ==
  LET data == IF "E0ESC" \in shift THEN b + 128 ELSE b
      sh == Xor((shift \ {"E0ESC"}) \cup shiftcode(data), togglecode(data))
  IN shift' = sh /\ last' = charcode(sh, data)

Kbdgetc ==
  /\ port # <<>>
  /\ LET b == Head(port) IN
     \/ b = 224 /\ shift' = shift \cup {"E0ESC"} /\ UNCHANGED last
     \/ b # 224 /\ b >= 128 /\ KbdRelease(b)
     \/ b < 128 /\ KbdPress(b)
  /\ port' = Tail(port)
  /\ UNCHANGED down

KbdNext == (\E k \in Keys : KeyDown(k) \/ KeyUp(k)) \/ Kbdgetc

KbdSpec == KbdInit /\ [][KbdNext]_kbdVars

-----------------------------------------------------------------------------

\* The index of a key in the tables.
Code(k) == IF k[2] THEN k[1] + 128 ELSE k[1]

\* A modifier is never stuck: it is on only while one of its keys is down, and on
\* while all of them are, in whatever order left, right and prefixed keys go.
ModifiersFollowKeys ==
  port = <<>> =>
    /\ "E0ESC" \notin shift
    /\ \A m \in {"CTL", "SHIFT", "ALT"} :
         LET keys == {k \in Keys : m \in shiftcode(Code(k))} IN
         /\ m \in shift => keys \cap down # {}
         /\ keys # {} /\ keys \subseteq down => m \in shift
=============================================================================
