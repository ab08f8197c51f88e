--------------------------- MODULE WeensyConsole ---------------------------
(***************************************************************************)
(* The devices of WeensyOS that processes and kernel share: the console,   *)
(* which every process and the kernel print on with lib.cc's printers, one *)
(* character at a time with a timer interrupt between any two, and the     *)
(* keyboard, whose scan codes keyboard_readc decodes (k-hardware.cc).      *)
(***************************************************************************)
EXTENDS WeensyLib

CONSTANTS
    CONSOLE_ROWS, CONSOLE_COLUMNS,
    Printers,          \* processes that print
    Texts,             \* what they print
    Positions,         \* where they print: a cell, or -1 for the cursor
    MaxPrinted,        \* bound on the characters printed
    MaxBytes           \* bound on the scan codes waiting in the keyboard

VARIABLES
    console, cursorpos,
    printer,           \* each process: Idle or its console_printer and what is left to print
    printed,           \* history: what was printed since the console was cleared
    mixed,             \* history: prints overlapped, or went elsewhere than to the cursor
    modifiers, last_escape,
    off,               \* the machine was turned off
    bytes, down        \* keyboard: scan codes not yet read, keys held down

screen == <<console, cursorpos, printer, printed, mixed>>
keyboard == <<modifiers, last_escape, off, bytes, down>>

-----------------------------------------------------------------------------
(* The console.                                                            *)

Cells == CONSOLE_ROWS * CONSOLE_COLUMNS
Blank == [i \in 0..(Cells - 1) |-> SPACE]
Idle == [cell |-> 0, scroll |-> FALSE, left |-> <<>>, busy |-> FALSE]

Busy == {p \in Printers : printer[p].busy}

console_clear ==
    /\ Busy = {} /\ printed # <<>>
    /\ console' = Blank /\ cursorpos' = 0 /\ printed' = <<>> /\ mixed' = FALSE
    /\ UNCHANGED printer

\* console_puts, console_printf: the printer starts at the cursor if cpos is negative, and
\* only such a printer scrolls.
console_puts(p, cpos, s) ==
    /\ ~printer[p].busy /\ Len(printed) < MaxPrinted
    /\ printer' = [printer EXCEPT ![p] =
         [cell |-> IF cpos < 0 THEN cursorpos ELSE IF cpos <= Cells THEN cpos ELSE 0,
          scroll |-> cpos < 0, left |-> s, busy |-> TRUE]]
    /\ mixed' = (mixed \/ Busy # {} \/ cpos >= 0)
    /\ UNCHANGED <<console, cursorpos, printed>>

\* console_printer::scroll, called with the cell past the end.
Scrolled(mem) ==
    memset(memmove(mem, 0, CONSOLE_COLUMNS, Cells - CONSOLE_COLUMNS),
           Cells - CONSOLE_COLUMNS, NUL, CONSOLE_COLUMNS)

\* A newline fills the row with spaces.
Filled_within(mem, cell) ==
    LET n == (CONSOLE_COLUMNS - (cell % CONSOLE_COLUMNS)) % CONSOLE_COLUMNS
    IN  [mem |-> memset(mem, cell, SPACE, n), cell |-> cell + n]
Filled(mem, cell) ==
    LET n == CONSOLE_COLUMNS - (cell % CONSOLE_COLUMNS)
    IN  [mem |-> memset(mem, cell, SPACE, n), cell |-> cell + n]

\* console_printer::putc: from a cell past the end it scrolls or wraps first.  One step,
\* though the loops of scroll and of a newline may be interrupted too.
putc(p) ==
    LET x == printer[p]
        full == x.cell >= Cells
        mem == IF full /\ x.scroll THEN Scrolled(console) ELSE console
        cell == IF ~full THEN x.cell ELSE IF x.scroll THEN x.cell - CONSOLE_COLUMNS ELSE 0
        c == Head(x.left)
        after == IF c = NL THEN Filled(mem, cell)
                 ELSE [mem |-> [mem EXCEPT ![cell] = c], cell |-> cell + 1]
    IN  /\ x.busy /\ x.left # <<>>
        /\ console' = after.mem
        /\ printer' = [printer EXCEPT ![p].cell = after.cell, ![p].left = Tail(@)]
        /\ printed' = Append(printed, c)
        /\ UNCHANGED <<cursorpos, mixed>>

\* The end of console_puts; move_cursor if the printer started there.
move_cursor(p) ==
    /\ printer[p].busy /\ printer[p].left = <<>>
    /\ cursorpos' = IF printer[p].scroll THEN printer[p].cell ELSE cursorpos
    /\ printer' = [printer EXCEPT ![p] = Idle]
    /\ UNCHANGED <<console, printed, mixed>>

ScreenInit ==
    /\ console = Blank /\ cursorpos = 0 /\ printed = <<>> /\ mixed = FALSE
    /\ printer = [p \in Printers |-> Idle]

ScreenNext ==
    \/ console_clear
    \/ \E p \in Printers : putc(p) \/ move_cursor(p)
    \/ \E p \in Printers, s \in Texts, cpos \in Positions : console_puts(p, cpos, s)

-----------------------------------------------------------------------------
(* The keyboard.                                                           *)

ESCAPE == 224
KEY_SHIFT == 250
KEY_CONTROL == 251
KEY_ALT == 252
KEY_CAPSLOCK == 253

\* Part of keymap: both shift, control and alt keys, a key of each other kind.
keymap ==
    [c \in 0..255 |->
       CASE c \in {42, 54} -> KEY_SHIFT [] c \in {29, 157} -> KEY_CONTROL
         [] c \in {56, 184} -> KEY_ALT [] c = 58 -> KEY_CAPSLOCK
         [] c = 30 -> LOWER_A [] c = 46 -> LOWER_A + 2 [] c = 57 -> SPACE
         [] c = 2 -> 128 [] c = 28 -> 142 [] c = 200 -> 192 [] OTHER -> 0]

\* complex_keymap of the keys 1 and Enter, by the bits of shift and control.
complex_keymap(ch, bits) ==
    IF ch = 142 THEN IF bits >= 2 THEN 13 ELSE NL
    ELSE IF bits = 0 THEN DIGIT0 + 1 ELSE IF bits = 1 THEN 33 ELSE 0

Plain(k) == << <<k>>, <<k + 128>> >>
Escaped(k) == << <<ESCAPE, k>>, <<ESCAPE, k + 128>> >>
\* Keys by what they send when pressed and when released; the cursor key sends a false
\* shift key about itself.
Keys == [lshift |-> Plain(42), rshift |-> Plain(54), lcontrol |-> Plain(29),
         rcontrol |-> Escaped(29), lalt |-> Plain(56), ralt |-> Escaped(56),
         capslock |-> Plain(58), a |-> Plain(30), c |-> Plain(46), one |-> Plain(2),
         enter |-> Plain(28), space |-> Plain(57),
         up |-> << <<ESCAPE, 42, ESCAPE, 72>>, <<ESCAPE, 200, ESCAPE, 170>> >>]

\* The user presses or releases a key, holding two at most.
KeyMoves(k) ==
    LET moved == IF k \in down THEN Keys[k][2] ELSE Keys[k][1]
    IN  /\ ~off /\ Len(bytes) + Len(moved) <= MaxBytes
        /\ k \in down \/ Cardinality(down) < 2
        /\ bytes' = bytes \o moved
        /\ down' = IF k \in down THEN down \ {k} ELSE down \cup {k}
        /\ UNCHANGED <<modifiers, last_escape, off>>

\* keymap[(data & 0x7F) | escape]
key_of_unescaped(data, escape) == keymap[data % 128]
key_of(data, escape) == keymap[(data % 128) + escape]

\* The character of a key that is not a modifier.
typed(ch) ==
    LET control == KEY_CONTROL \in modifiers
        shift == KEY_SHIFT \in modifiers
    IN  CASE ch \in LOWER_A..(LOWER_A + 25) ->
               IF control THEN ch - 96
               ELSE IF shift # (KEY_CAPSLOCK \in modifiers) THEN ch - 32 ELSE ch
          [] ch \in 128..149 ->
               complex_keymap(ch, (IF shift THEN 1 ELSE 0) + (IF control THEN 2 ELSE 0))
          [] ch < 128 /\ ~(ch \in LOWER_A..(LOWER_A + 25)) -> IF control THEN 0 ELSE ch
          [] OTHER -> ch

\* What a key does to the modifiers: a lock toggles, the others are in force from press to
\* release.
Modified(ch, released) ==
    IF released THEN IF ch \in KEY_SHIFT..(KEY_CAPSLOCK - 1) THEN modifiers \ {ch} ELSE modifiers
    ELSE IF ch >= KEY_CAPSLOCK /\ ch \in modifiers THEN modifiers \ {ch}
    ELSE IF ch >= KEY_SHIFT THEN modifiers \cup {ch}
    ELSE modifiers

\* keyboard_readc with a byte to read, called by check_keyboard: 'a' reboots the kernel with
\* its data restored, Control-C turns the machine off.
keyboard_readc ==
    LET data == Head(bytes)
        ch == key_of(data, last_escape)
        released == data >= 128
        returned == IF data = ESCAPE \/ released \/ ch >= KEY_SHIFT THEN 0 ELSE typed(ch)
    IN  /\ ~off /\ bytes # <<>> /\ bytes' = Tail(bytes)
        /\ last_escape' = IF data = ESCAPE THEN 128 ELSE 0
        /\ modifiers' = IF data = ESCAPE THEN modifiers
                        ELSE IF returned = LOWER_A THEN {}
                        ELSE Modified(ch, released)
        /\ off' = (returned = 3)
        /\ UNCHANGED down

KeyboardInit == off = FALSE /\ modifiers = {} /\ last_escape = 0 /\ bytes = <<>> /\ down = {}
KeyboardNext == keyboard_readc \/ \E k \in DOMAIN Keys : KeyMoves(k)

-----------------------------------------------------------------------------
(* Properties.                                                             *)

\* The text as it would be on paper without end: a newline fills its row.
Paper(s) ==
    FoldLeft(LAMBDA rows, c : IF c # NL THEN Append(rows, c)
               ELSE rows \o Repeat(SPACE, CONSOLE_COLUMNS - (Len(rows) % CONSOLE_COLUMNS)),
             <<>>, s)

\* The console shows the end of what was printed, scrolled up by whole rows and blank below,
\* through lines that end at the last column and blank lines, after every character, while
\* one printer at a time goes on from the cursor; any printer, wherever it started and
\* whatever is printed meanwhile, and the cursor stay on the console.
ConsoleShowsText ==
    /\ cursorpos \in 0..Cells /\ \A p \in Printers : printer[p].cell \in 0..Cells
    /\ ~mixed =>
         LET paper == Paper(printed)
             over == IF Len(paper) > Cells THEN Len(paper) - Cells ELSE 0
             up == CONSOLE_COLUMNS * ((over + CONSOLE_COLUMNS - 1) \div CONSOLE_COLUMNS)
         IN  \A i \in 0..(Cells - 1) :
               LET shown == IF console[i] = NUL THEN SPACE ELSE console[i]
               IN  shown = IF up + i < Len(paper) THEN paper[up + i + 1] ELSE SPACE

\* With every scan code read, shift, control and alt are in force only while one of their
\* keys is held, whichever keys were pressed, released or escaped in between and whatever
\* reboots this caused: no modifier sticks.
NoStuckModifier ==
    bytes = <<>> =>
        /\ last_escape = 0
        /\ \A m \in modifiers \ {KEY_CAPSLOCK} :
             \E k \in down : Keys[k][1] \in {<<c>> : c \in {d \in 0..127 : keymap[d] = m}}
                             \/ \E c \in 0..127 : /\ Keys[k][1] = <<ESCAPE, c>>
                                                  /\ keymap[c + 128] = m
=============================================================================
