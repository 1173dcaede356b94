------------------------------ MODULE MCConsole ------------------------------
(* The way of a key for TLC: the decoder of Keyboard, the ring and the readers *)
(* of Console, and the line editor of Shell.  Each property is about one of    *)
(* the three, so that a behaviour has steps of one of them and no time is lost *)
(* with interleavings.                                                         *)
EXTENDS Console, Keyboard, Shell

VARIABLE part

parts == <<vars, keys, kbd, typed, rl, part>>

MCInit ==
    /\ Init /\ KeyboardInit
    /\ \/ part \in {"decoder", "console"} /\ ShellInit(0)
       \/ part = "editor" /\ \E start \in 0..Columns * Rows - 1 : ShellInit(start)

MCNext ==
    \/ /\ part = "console" /\ Next
       /\ UNCHANGED <<keys, kbd, typed, rl, part>>
    \/ /\ part = "decoder" /\ \E e \in Events : KeyEvent(e)
       /\ UNCHANGED <<vars, typed, rl, part>>
    \/ /\ part = "editor" /\ (cmd_parse \/ \E c \in Typeable : readline(c))
       /\ UNCHANGED <<vars, keys, kbd, part>>
    \/ part # "console" /\ UNCHANGED parts

MCSpec == MCInit /\ [][MCNext]_parts
=============================================================================
