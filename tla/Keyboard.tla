------------------------------ MODULE Keyboard -------------------------------
(***************************************************************************)
(* The decoding of scan codes: intr_keyboard_hdl() of device/keyboard.c,   *)
(* up to the byte that it gives to ioq_putchar(); from there on see module *)
(* Console.                                                                *)
(*                                                                         *)
(* A character is the pair of its index and column in keymap, with column  *)
(* 2 for the control characters of l, u and c.                             *)
(***************************************************************************)
EXTENDS Integers, SequencesExt

CONSTANTS
    Keys,      \* the keys that are pressed and released: their make codes
    MaxEvents  \* bound on the length of a sequence of presses and releases

shift_l_make == 42     \* 0x2a
shift_r_make == 54     \* 0x36
alt_l_make == 56       \* 0x38
alt_r_make == 57400    \* 0xe038
ctrl_l_make == 29      \* 0x1d
ctrl_r_make == 57373   \* 0xe01d
caps_lock_make == 58   \* 0x3a
ext == 224             \* 0xe0, the first of two codes

\* The last bytes of make codes; the break code of 0x60 would be ext.
MakeCodes == (1..127) \ {96}

ASSUME KeyboardAssumption ==
    /\ MaxEvents \in Nat
    /\ \A k \in Keys : k \in MakeCodes \/ k - 256 * ext \in MakeCodes

VARIABLES
    keys,  \* the presses and releases so far
    kbd    \* the static variables of keyboard.c, and the bytes given to ioq_putchar()

\* The keys of keymap without a character, with one character, and with two that
\* only shift tells apart; the other ones are letters.
Invisible == {ctrl_l_make, shift_l_make, shift_r_make, alt_l_make, caps_lock_make}
OneChar == {1, 14, 15, 28, 55, 57}  \* esc backspace tab enter * space
TwoChars == (2..13) \cup {26, 27, 39, 40, 41, 43, 51, 52, 53}
CtrlKeys == {38, 22, 46}            \* l u c

\* Whether the row of a key is read with shift: esc and the two-character keys
\* look at shift alone, the other keys at caps lock, too.
Column(k, code) ==
    IF IF code < 14 \/ code \in TwoChars THEN k.shift ELSE ~(k.shift <=> k.caps)
    THEN 1 ELSE 0

keymap(index, column) == <<index, IF index \in OneChar THEN 0 ELSE column>>

\* The release of a key, by its make code; caps lock is not released.
Break(k, make) ==
    CASE make \in {ctrl_l_make, ctrl_r_make}   -> [k EXCEPT !.ctrl = FALSE]
      [] make \in {shift_l_make, shift_r_make} -> [k EXCEPT !.shift = FALSE]
      [] make \in {alt_l_make, alt_r_make}     -> [k EXCEPT !.alt = FALSE]
      [] OTHER -> k

\* Mutant: the key is looked up without the upper byte of its code.
Make_short(k, code) ==
    LET index == code % 256
        char  == keymap(index, Column(k, code))
    IN  CASE index \notin Invisible /\ index < 59 -> [k EXCEPT !.out = Append(@, char)]
          [] index = ctrl_l_make -> [k EXCEPT !.ctrl = TRUE]
          [] index \in {shift_l_make, shift_r_make} -> [k EXCEPT !.shift = TRUE]
          [] index = alt_l_make -> [k EXCEPT !.alt = TRUE]
          [] index = caps_lock_make -> [k EXCEPT !.caps = ~@]
          [] OTHER -> k

\* A key goes down.  Only the codes of keymap, alt_r and ctrl_r are known; the
\* upper byte is dropped once that is settled.
Make(k, code) ==
    LET index == code % 256
        char  == keymap(index, Column(k, code))
        byte  == IF k.ctrl /\ index \in CtrlKeys /\ char[2] = 0 THEN <<index, 2>> ELSE char
    IN  CASE code \notin (1..58) \cup {alt_r_make, ctrl_r_make} -> k  \* "unknown key"
          [] OTHER ->
             CASE index \notin Invisible -> [k EXCEPT !.out = Append(@, byte)]
               [] index = ctrl_l_make -> [k EXCEPT !.ctrl = TRUE]
               [] index \in {shift_l_make, shift_r_make} -> [k EXCEPT !.shift = TRUE]
               [] index = alt_l_make -> [k EXCEPT !.alt = TRUE]
               [] index = caps_lock_make -> [k EXCEPT !.caps = ~@]

intr_keyboard_hdl(k, byte) ==
    LET code == IF k.ext_scancode THEN 256 * ext + byte ELSE byte
        rest == [k EXCEPT !.ext_scancode = FALSE]
    IN  CASE byte = ext -> [k EXCEPT !.ext_scancode = TRUE]
          [] byte # ext /\ byte >= 128 -> Break(rest, code - 128)
          [] OTHER -> Make(rest, code)

-----------------------------------------------------------------------------
(* The keyboard: what a press and a release send *)

\* The last byte of the code; that of an extended key is preceded by ext.
Code(e) == (e.key % 256) + (IF e.down THEN 0 ELSE 128)

Events == [key : Keys, down : BOOLEAN]

\* key is down after the first n events of s.
Held(s, n, key) ==
    \E i \in 1..n : /\ s[i] = [key |-> key, down |-> TRUE]
                    /\ \A j \in i + 1..n : s[j].key # key

Shifts == {shift_l_make, shift_r_make}
Ctrls == {ctrl_l_make, ctrl_r_make}
Down(s, n, pair) == \E key \in pair : Held(s, n, key)

\* Caps lock is on after the first n events of s.
Capitals(s, n) ==
    Cardinality({j \in 1..n : s[j] = [key |-> caps_lock_make, down |-> TRUE]}) % 2 = 1

\* A key is released when it is down.  One that is down may send its make code again
\* and again, as the keyboard does for the key that was pressed last; what caps lock
\* does then is left out: each repetition changes caps_lock_status.  Of the two shift
\* keys, and of the two ctrl keys, only one is used at a time.
Possible(e) ==
    LET held(key) == Held(keys, Len(keys), key)
    IN  /\ ~e.down => held(e.key)
        /\ e.down /\ e.key = caps_lock_make => ~held(e.key)
        /\ \A pair \in {Shifts, Ctrls} : e.down /\ e.key \in pair =>
              \A key \in pair \ {e.key} : ~held(key)

KeyboardInit ==
    /\ keys = <<>>
    /\ kbd = [ctrl |-> FALSE, shift |-> FALSE, alt |-> FALSE, caps |-> FALSE,
              ext_scancode |-> FALSE, out |-> <<>>]

\* The interrupts that a press or a release causes.
KeyEvent(e) ==
    /\ Len(keys) < MaxEvents
    /\ Possible(e)
    /\ keys' = Append(keys, e)
    /\ kbd' = LET k == IF e.key >= 256 THEN intr_keyboard_hdl(kbd, ext) ELSE kbd
              IN  intr_keyboard_hdl(k, Code(e))

KeyboardSpec == KeyboardInit /\ [][\E e \in Events : KeyEvent(e)]_<<keys, kbd>>

\* What the i-th event of s types, told from the keys that are down.
Typed(s, i) ==
    LET key   == s[i].key
        shift == Down(s, i - 1, Shifts)
        upper == IF key \in TwoChars THEN shift ELSE ~(shift <=> Capitals(s, i - 1))
    IN  IF ~s[i].down \/ key \notin 1..58 \ Invisible THEN <<>>
        ELSE IF key \in OneChar THEN <<<<key, 0>>>>
        ELSE IF upper THEN <<<<key, 1>>>>
        ELSE IF Down(s, i - 1, Ctrls) /\ key \in CtrlKeys THEN <<<<key, 2>>>> ELSE <<<<key, 0>>>>

\* Whatever keys are pressed and released in whatever order, each character key
\* gives the character that the shift, ctrl and caps lock keys call for at that
\* moment, and keys with two codes, known or not, do not disturb that.
DecodesKeys == kbd.out = FlattenSeq([i \in DOMAIN keys |-> Typed(keys, i)])
=============================================================================
