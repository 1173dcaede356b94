-------------------------------- MODULE Shell --------------------------------
(***************************************************************************)
(* The command line of command/shell.c: readline() with the echo on the    *)
(* screen, and cmd_parse().  Pipelines are left out.                       *)
(* "CR" is what the enter key gives, "BS" backspace, "HT" tab, "ESC" esc,  *)
(* and "LF" is \n.                                                         *)
(***************************************************************************)
EXTENDS Screen

CONSTANTS
    count,       \* the size of cmd_line (512)
    MAX_ARG_NR,  \* the length of argv (16)
    Typeable,    \* the characters of the keyboard
    MaxTyped     \* bound on what is typed into a line

\* The line fits on the screen with room for a row to scroll away.
ASSUME ShellAssumption ==
    count \in 1..Columns * (Rows - 1) /\ MaxTyped \in Nat /\ MAX_ARG_NR \in Nat

VARIABLES
    typed,  \* the keys so far
    rl      \* buf and pos of readline(), how it has returned, the screen and argv

NUL == "NUL"
Token == Blank

print_prompt(s) == console_write(s, <<"ESC", "9", "$", "ESC", "7">>)

\* One turn of the loop of readline(): c is in buf[pos] before anybody looks at it.
\* The turn that finds pos at the end of the buffer ends the loop, with a message
\* that is left out here.
Turn(r, c) ==
    LET buf  == [r.buf EXCEPT ![r.pos] = c]
        line == [i \in 1..r.pos |-> buf[i - 1]]
        here == [r EXCEPT !.buf = buf]
    IN  CASE r.pos = count -> [here EXCEPT !.ret = "full"]
          [] OTHER ->
             CASE c \in {"CR", "LF"} -> [r EXCEPT !.buf = [buf EXCEPT ![r.pos] = NUL], !.ret = "enter",
                                        !.screen = console_write(@, <<"LF">>)]
               [] c = "BS" -> IF buf[0] = "BS" THEN here
                              ELSE [here EXCEPT !.pos = @ - 1,
                                                !.screen = console_write(@, <<"BS">>)]
               [] c = "ctrl-l" -> [r EXCEPT !.buf = [buf EXCEPT ![r.pos] = NUL],
                                  !.screen = console_write(print_prompt(
                                                 console_write(@, <<"FF">>)), line)]
               [] c = "ctrl-u" -> [r EXCEPT !.pos = 0,
                                  !.buf = [i \in DOMAIN buf |-> IF i \in 1..r.pos THEN NUL
                                                                ELSE buf[i]],
                                  !.screen = FoldLeft(LAMBDA s, b : console_write(s, <<b>>), @,
                                                      [i \in 1..r.pos |-> "BS"])]
               [] OTHER -> [here EXCEPT !.pos = @ + 1, !.screen = console_write(@, <<c>>)]

\* main() clears cmd_line, prints the prompt, wherever the cursor is, and calls
\* readline().
ShellInit(start) ==
    /\ typed = <<>>
    /\ rl = [buf |-> [i \in 0..count |-> NUL], pos |-> 0, ret |-> "no", argv |-> <<>>,
             screen |-> print_prompt([ScreenInit EXCEPT !.cur = start])]

readline(c) ==
    /\ rl.ret = "no" /\ Len(typed) < MaxTyped
    /\ typed' = Append(typed, c)
    /\ rl' = Turn(rl, c)

\* cmd_parse() at place i: argv has the places where words begin.  The test for
\* too many words comes when the word is in argv already.
ParseChar(p, i) ==
    LET c    == p.buf[i]
        over == [p EXCEPT !.buf[i] = NUL, !.word = FALSE]
    IN  CASE p.end -> p
          [] ~p.end /\ ~p.word ->
             CASE c = NUL -> [p EXCEPT !.end = TRUE]
               [] c = Token -> p
               [] OTHER -> [p EXCEPT !.word = TRUE, !.argv = Append(@, i)]
          [] OTHER ->
             CASE c \notin {NUL, Token} -> p
               [] Len(p.argv) - 1 > MAX_ARG_NR -> [over EXCEPT !.end = TRUE, !.failed = TRUE]
               [] OTHER -> [over EXCEPT !.end = c = NUL]

\* main() goes on with a line that is not empty.
cmd_parse ==
    LET p == FoldLeft(ParseChar, [buf |-> rl.buf, argv |-> <<>>, word |-> FALSE, end |-> FALSE,
                                  failed |-> FALSE], [i \in 1..count |-> i - 1])
    IN  /\ rl.ret = "enter" /\ rl.buf[0] # NUL
        /\ rl' = [rl EXCEPT !.buf = p.buf, !.argv = p.argv,
                            !.ret = IF p.failed THEN "failed" ELSE "parsed"]
        /\ UNCHANGED typed

Edit(line, c) ==
    CASE c = "BS" -> IF line = <<>> THEN line ELSE Front(line)
      [] c = "ctrl-u" -> <<>>
      [] c \in {"ctrl-l", "CR"} -> line
      [] OTHER -> Append(line, c)

\* The keys edit a line as one expects; readline() has that line in its buffer,
\* with a NUL behind it when it returns, and until then the screen shows it
\* before the cursor, behind the prompt as long as that has not moved off the
\* screen.  Not so when the buffer is full; and tab and esc, which are stored and
\* echoed like letters, spoil the screen, as they move the cursor by another number
\* of places, or by none and take the next character for a colour.  Then cmd_parse()
\* finds the words of the line, if argv is long enough for them.
LineShown ==
    LET line   == FoldLeft(Edit, <<>>, typed)
        text   == <<"$">> \o line
        screen == rl.screen
        Begins == {i \in DOMAIN line : line[i] # Token /\ (i = 1 \/ line[i - 1] = Token)}
        Ends   == {i \in DOMAIN line : line[i] # Token /\ (i = Len(line) \/ line[i + 1] = Token)}
    IN  /\ rl.ret \in {"no", "enter"} =>
              rl.pos = Len(line) /\ \A i \in 1..rl.pos : rl.buf[i - 1] = line[i]
        /\ rl.ret \in {"parsed", "failed"} /\ Cardinality(Begins) <= MAX_ARG_NR =>
              /\ rl.ret = "parsed"
              /\ rl.argv = SetToSortSeq({i - 1 : i \in Begins}, <)
              /\ \A i \in DOMAIN line : line[i] # Token => rl.buf[i - 1] = line[i]
              /\ \A i \in Ends : rl.buf[i] = NUL
        /\ rl.ret = "enter" => rl.buf[rl.pos] = NUL
        /\ rl.ret = "no" /\ ToSet(typed) \cap {"HT", "ESC"} = {} =>
              /\ \A i \in 1..Len(text) : LET at == screen.cur - Len(text) + i - 1
                                         IN  at >= 0 => screen.cell[at] = text[i]
              /\ \A i \in screen.cur..Columns * Rows - 1 : screen.cell[i] = Blank
=============================================================================
