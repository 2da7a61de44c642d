-------------------------------- MODULE Keyboard --------------------------------
(***************************************************************************)
(* kbd_getc (DMR/KBD.C): scan codes, one per interrupt, to characters.  A  *)
(* key of the right-hand block sends 0xE0 first; releasing a key sends its *)
(* code with the top bit.  The tables give these codes with 0x80.          *)
(***************************************************************************)
EXTENDS Integers, Sequences, FiniteSets

E0 == 224   \* 0xE0
Code(k) == k % 128
(* Keys by code: 1D and 9D control, 2A and 36 shift, 38 and B8 alt, 3A the *)
(* caps lock, 1E the letter a, C8 an arrow, and AA, the shift keyboards    *)
(* fake around an arrow.                                                   *)
Keys == {29, 157, 42, 54, 56, 184, 58, 30, 200, 170}
shiftcode(d)  == CASE d \in {29, 157} -> {"CTL"} [] d \in {42, 54} -> {"SHIFT"}
                   [] d \in {56, 184} -> {"ALT"} [] OTHER -> {}
togglecode(d) == IF d = 58 THEN {"CAPSLOCK"} ELSE {}

VARIABLES
    shift,      \* the bits
    down,       \* the keys held down
    line,       \* bytes the controller has yet to give
    presses     \* history: presses of the caps lock, modulo 2
vars == <<shift, down, line, presses>>

Init == shift = {} /\ down = {} /\ line = <<>> /\ presses = 0

----
Prefix(k) == IF k >= 128 THEN <<E0>> ELSE <<>>

(* A key held down repeats.                                                *)
Press(k) ==
    /\ line = <<>> /\ Cardinality(down \cup {k}) <= 3
    /\ down' = down \cup {k}
    /\ line' = Prefix(k) \o <<Code(k)>>
    /\ presses' = IF k = 58 THEN 1 - presses ELSE presses
    /\ UNCHANGED shift
Release(k) ==
    /\ line = <<>>
    /\ down' = down \ {k}
    /\ line' = Prefix(k) \o <<128 + Code(k)>>
    /\ UNCHANGED <<shift, presses>>

ReleasedRaw(d) == shift \ (shiftcode(d) \cup {"E0ESC"})
Released(d) == shift \ (shiftcode(IF "E0ESC" \in shift THEN d ELSE d % 128) \cup {"E0ESC"})
Pressed(d) ==
    LET k == IF "E0ESC" \in shift THEN Code(d) + 128 ELSE d
        s == (shift \ {"E0ESC"}) \cup shiftcode(k)
    IN  (s \ togglecode(k)) \cup (togglecode(k) \ s)

kbd_getc ==
    /\ line # <<>>
    /\ line' = Tail(line)
    /\ shift' = CASE Head(line) = E0   -> shift \cup {"E0ESC"}
                  [] Head(line) \in 128..255 \ {E0} -> Released(Head(line))
                  [] OTHER             -> Pressed(Head(line))
    /\ UNCHANGED <<down, presses>>

Next == kbd_getc \/ (\E k \in Keys : Press(k)) \/ (\E k \in down : Release(k))
Spec == Init /\ [][Next]_vars

----
(* A modifier is on only while a key of its kind is down, the prefix is    *)
(* never left over, and the caps lock follows its presses: whatever keys   *)
(* overlap, no modifier sticks.                                            *)
NoneSticks ==
    line = <<>> =>
        /\ \A m \in shift \cap {"CTL", "SHIFT", "ALT"} : \E k \in down : m \in shiftcode(k)
        /\ "E0ESC" \notin shift
        /\ ("CAPSLOCK" \in shift) = (presses = 1)
====
