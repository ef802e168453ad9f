----------------------------- MODULE Console -----------------------------
(***************************************************************************)
(* The console of the emergency shell: scan codes become characters        *)
(* (ps2.c), go to the keyboard listener (kb.c), which is the shell's getch *)
(* (eshell.c); it echoes them through the serial port's listeners          *)
(* (serial.c), of which the shell's write_screen_char is one, and edits    *)
(* the command line.                                                       *)
(*                                                                         *)
(* The keyboard's handler and the timer's run with interrupts disabled: a  *)
(* step for a scan code and a step for a dispatch, each between any two    *)
(* accesses the shell process makes to the cursor while it writes its      *)
(* greeting and blinks the cursor.                                         *)
(* Characters are bytes; the greeting, the prompt and what the commands    *)
(* and the scheduler print are cut down to a few characters.               *)
(***************************************************************************)
EXTENDS Strings

CONSTANTS
    Cols, Rows,      \* the size of the screen: 80 and 25
    LineBytes,       \* the size of a command buffer: a page
    MaxLine,         \* the longest line anybody types, shorter than the buffer
    ListenerSlots,   \* listeners of a serial port: 4
    Keys,            \* the keys that are used
    ExitWord, ClearWord, PrintWord   \* command lines: exit, clear, any that prints a line

ASSUME ConsoleAssumption ==
    /\ Cols \in Nat /\ Rows \in Nat /\ Cols >= 4 /\ Rows >= 3
    /\ LineBytes \in Nat /\ LineBytes % 2 = 0
    /\ MaxLine \in Nat /\ MaxLine < LineBytes
    /\ ListenerSlots \in Nat \ {0}
    \* The keys translated_kb_codes knows.
    /\ Keys \subseteq {"a", "1", "minus", "enter", "backspace", "tab", "f1",
                       "ctrl", "lshift", "rshift", "alt", "caps"}

VARIABLES
    shift_down, caps_lock,   \* ps2.c
    held,                    \* the shift and control keys that are down
    ps2_listener,            \* init_8042 has registered the driver
    g_listener,              \* kb.c: getch is registered
    listeners,               \* serial.c: the keys of port 0's listeners, 0 if there is none
    auto_send_return,
    screen,                  \* eshell.c: x, y, minx, miny; off: a character was
                             \* written outside the frame buffer
    current_command,
    exit,                    \* eshell_settings.exit
    shell,                   \* where eshell is, and what it has read of x and y
    line                     \* what should be in current_command

keyboard == <<shift_down, caps_lock, held>>
wiring == <<ps2_listener, g_listener, listeners, auto_send_return>>
editing == <<current_command, exit, line>>
vars == <<keyboard, wiring, screen, editing, shell>>

BS == 8
NL == 10
CR == 13
Space == 32
Underscore == 95

\* char is signed: a byte of 0x80 and more is below every character.
Printable(c) == c >= Space /\ c < 128

----------------------------------------------------------------------------
(***************************************************************************)
(* eshell.c: the cursor.  disp_str of one character at (x, y) writes cell  *)
(* x + 80 * y - 1 of the frame buffer.                                     *)
(***************************************************************************)
OffScreen(x, y) == x + Cols * y - 1 \notin 0..(Cols * Rows - 1)

\* write_screen_char when nothing interrupts it; s.off tells of a write outside.
Advance(s, c) ==
    CASE c = NL -> [s EXCEPT !.x = 1, !.y = s.y + 1, !.off = s.off \/ OffScreen(s.x, s.y)]
      [] c = CR -> [s EXCEPT !.x = 1]
      [] c = BS -> [s EXCEPT !.x = Max({s.x - 1, s.minx}), !.y = Max({s.y, s.miny})]
      [] OTHER  -> [s EXCEPT !.x = s.x + 1, !.off = s.off \/ OffScreen(s.x, s.y)]

Wrap(s) == IF s.x > Cols THEN [s EXCEPT !.x = 1, !.y = s.y + 1] ELSE s

Scroll(s) == IF s.y >= Rows - 1 THEN [s EXCEPT !.x = 1, !.y = Rows - 2] ELSE s

write_screen_char(s, c) == Scroll(Wrap(Advance(s, c)))

write_screen(s, str) == FoldLeft(write_screen_char, s, str)

(***************************************************************************)
(* serial.c: a character goes to every listener of the port.               *)
(***************************************************************************)
serial_write(s, c) ==
    FoldLeft(LAMBDA t, i : IF listeners[i] # 0 THEN write_screen_char(t, c) ELSE t,
             s, [i \in 1..ListenerSlots |-> i])

\* A backspace also wipes out what it goes back over.
kputc(s, c) ==
    LET sent == serial_write(s, c) IN
    CASE c = BS                     -> serial_write(serial_write(sent, Space), BS)
      [] c = NL /\ auto_send_return -> serial_write(sent, CR)
      [] OTHER                      -> sent

\* Formatting ends in a text that goes out character by character.
kprintf(s, str) == FoldLeft(kputc, s, str)

register_serial_listener(key) ==
    LET free  == {i \in 1..ListenerSlots : listeners[i] = 0}
        index == IF free = {} THEN 1 ELSE Min(free)
    IN  listeners' = [listeners EXCEPT ![index] = key]

\* Fault: the slot is looked for by another key than the listener's.
deregister_serial_listener_none(key) == UNCHANGED listeners

\* index is the last slot with the key, and not initialised if there is none.
deregister_serial_listener(key) ==
    LET found == {i \in 1..ListenerSlots : listeners[i] = key} IN
    \E index \in IF found = {} THEN 1..ListenerSlots ELSE {Max(found)} :
        listeners' = [listeners EXCEPT ![index] = 0]

----------------------------------------------------------------------------
(***************************************************************************)
(* eshell.c: the shell process.  It reads and writes the cursor in steps   *)
(* of its own: px and py are what it has read of x and y.                  *)
(***************************************************************************)
driver_key == 1   \* gen_driver_key of the shell: not 0
Letter == 97

\* What the shell writes before the listeners are registered, and after.
Warning == <<Letter, NL, Letter>>
Prompt == <<Letter, Letter>>
Greeting == <<CR, Letter, NL>> \o Prompt

\* A page kmalloc has handed out, with whatever was in it, after kmemset.
NewCommand == kmemset([i \in 1..LineBytes |-> Letter], LineBytes, NUL)

\* Ports have no listeners; whether the loopback test found one decides only about
\* the output to it.
serial_init == listeners = [i \in 1..ListenerSlots |-> 0]

\* init_8042 registers the driver, or gives up when the self test fails.
init_8042 == ps2_listener \in BOOLEAN

Init ==
    /\ shift_down = FALSE /\ caps_lock = FALSE /\ held = {}
    /\ init_8042
    /\ g_listener = FALSE
    /\ serial_init
    /\ auto_send_return = TRUE
    /\ screen = [x |-> 1, y |-> 0, minx |-> 1, miny |-> 0, off |-> FALSE]
    /\ current_command = [i \in 1..LineBytes |-> NUL]
    /\ exit = FALSE
    /\ line = <<>>
    /\ shell = [pc |-> "start", todo |-> Greeting, px |-> 0, py |-> 0]

Goto(from, to) == shell.pc = from /\ shell' = [shell EXCEPT !.pc = to]

\* Up to the registration of getch no interrupt looks at any of this: one step.
eshell_start ==
    /\ Goto("start", "next")
    /\ screen' = write_screen(screen, Warning)
    /\ auto_send_return' = ~auto_send_return
    /\ current_command' = NewCommand
    /\ register_serial_listener(driver_key)
    /\ g_listener' = TRUE
    /\ UNCHANGED <<keyboard, ps2_listener, exit, line>>

Cursor(field, value) == screen' = [screen EXCEPT ![field] = value]

\* disp_str's arguments are read from x and y.
Position == shell' = [shell EXCEPT !.px = screen.x, !.py = screen.y, !.pc = "put"]

Put(from, to) ==
    /\ shell.pc = from /\ shell' = [shell EXCEPT !.pc = to, !.px = 0, !.py = 0]
    /\ screen' = [screen EXCEPT !.off = screen.off \/ OffScreen(shell.px, shell.py)]

\* write_screen_char of the next character of the greeting.
greet_next ==
    /\ shell.pc = "next" /\ shell.todo # <<>>
    /\ LET c == Head(shell.todo) IN
       \/ c = NL /\ Position /\ UNCHANGED screen
       \/ c = CR /\ Goto("next", "wrap") /\ Cursor("x", 1)
       \/ c \notin {NL, CR} /\ UNCHANGED screen
          /\ shell' = [shell EXCEPT !.px = screen.x, !.py = screen.y, !.pc = "store"]

greet_put ==
    \/ Goto("store", "put") /\ Cursor("x", shell.px + 1)
    \/ Put("put", IF Head(shell.todo) = NL THEN "newline" ELSE "wrap")

\* Fault: the statements are exchanged.
NextRow_swapped(place, load, store, then) ==
    \/ /\ shell.pc = place /\ UNCHANGED screen
       /\ shell' = [shell EXCEPT !.py = screen.y, !.pc = load]
    \/ Goto(load, store) /\ Cursor("y", shell.py + 1)
    \/ Goto(store, then) /\ Cursor("x", 1)

\* The statements x = 1; y++, of a newline and of a line that is full.
NextRow(place, load, store, then) ==
    \/ Goto(place, load) /\ Cursor("x", 1)
    \/ /\ shell.pc = load /\ UNCHANGED screen
       /\ shell' = [shell EXCEPT !.py = screen.y, !.pc = store]
    \/ /\ shell.pc = store /\ shell' = [shell EXCEPT !.pc = then, !.py = 0]
       /\ Cursor("y", shell.py + 1)

greet_newline == NextRow("newline", "newline_load", "newline_store", "wrap")

greet_wrap ==
    \/ Goto("wrap", IF screen.x > Cols THEN "full" ELSE "scroll") /\ UNCHANGED screen
    \/ NextRow("full", "full_load", "full_store", "scroll")

\* The lines are moved up, and the character is done.
greet_scroll ==
    \/ screen.y >= Rows - 1 /\ Goto("scroll", "scroll_y") /\ UNCHANGED screen
    \/ Goto("scroll_y", "scroll_x") /\ Cursor("y", Rows - 2)
    \/ /\ \/ shell.pc = "scroll" /\ screen.y < Rows - 1 /\ UNCHANGED screen
          \/ shell.pc = "scroll_x" /\ Cursor("x", 1)
       /\ shell' = [shell EXCEPT !.pc = "next", !.todo = Tail(shell.todo)]

\* minx = x; miny = y after the prompt.
greet_prompt ==
    \/ shell.todo = <<>> /\ Goto("next", "miny") /\ Cursor("minx", screen.x)
    \/ Goto("miny", "loop") /\ Cursor("miny", screen.y)

\* A turn of the loop: tmp_putc with a blank or an underscore.
blink ==
    \/ shell.pc = "loop" /\ ~exit /\ UNCHANGED screen
       /\ shell' = [shell EXCEPT !.px = screen.x, !.py = screen.y, !.pc = "cursor"]
    \/ Put("cursor", "loop")

eshell_end ==
    \/ exit /\ Goto("loop", "deregister") /\ auto_send_return' = ~auto_send_return
       /\ UNCHANGED listeners
    \/ Goto("deregister", "done") /\ deregister_serial_listener(driver_key)
       /\ UNCHANGED auto_send_return

eshell ==
    \/ eshell_start
    \/ /\ greet_next \/ greet_put \/ greet_newline \/ greet_wrap \/ greet_scroll
          \/ greet_prompt \/ blink
       /\ UNCHANGED <<keyboard, wiring, editing>>
    \/ eshell_end /\ UNCHANGED <<keyboard, ps2_listener, g_listener, screen, editing>>

----------------------------------------------------------------------------
(***************************************************************************)
(* eshell.c: getch, called in the keyboard interrupt.  s is the screen     *)
(* after the echo.                                                         *)
(***************************************************************************)
Is(word) == kstrcmp(current_command, Literal(word)) = 0

\* What the command does to the screen.
exec_command(s) ==
    CASE Is(ExitWord)  -> write_screen(s, <<Letter, NL>>)
      [] Is(ClearWord) -> [s EXCEPT !.x = 1, !.y = 0]
      [] Is(PrintWord) -> kprintf(s, <<Letter, NL>>)
      [] OTHER         -> s

\* Fault: the new page is not cleared.
getch_enter_dirty(s) ==
    LET p == write_screen(exec_command(s), Prompt) IN
    /\ exit' = (exit \/ Is(ExitWord))
    /\ screen' = IF exit' THEN exec_command(s) ELSE [p EXCEPT !.minx = p.x, !.miny = p.y]
    /\ UNCHANGED current_command
    /\ line' = <<>>

getch_enter(s) ==
    LET p == write_screen(exec_command(s), Prompt) IN
    /\ exit' = (exit \/ Is(ExitWord))
    /\ screen' = IF exit' THEN exec_command(s) ELSE [p EXCEPT !.minx = p.x, !.miny = p.y]
    /\ current_command' = NewCommand
    /\ line' = <<>>

\* On an empty line the 0 goes to the byte before the buffer.
getch_backspace(s) ==
    LET last == kstrlen(current_command) IN
    /\ current_command' = IF last = 0 THEN current_command
                          ELSE [current_command EXCEPT ![last] = NUL]
    /\ line' = IF line = <<>> THEN <<>> ELSE Front(line)
    /\ screen' = s
    /\ UNCHANGED exit

\* Bound: MaxLine.  A line longer than its buffer would run past it.
getch_text(s, c) ==
    /\ Len(line) < MaxLine
    /\ current_command' = kstrcat(current_command, current_command, <<c, NUL>>)
    /\ line' = Append(line, c)
    /\ screen' = s
    /\ UNCHANGED exit

getch(c) ==
    LET s == kprintf(screen, <<c>>) IN
    CASE c = NL       -> getch_enter(s)
      [] c = BS       -> getch_backspace(s)
      [] Printable(c) -> getch_text(s, c)
      [] OTHER        -> screen' = s /\ UNCHANGED <<current_command, exit, line>>

----------------------------------------------------------------------------
(***************************************************************************)
(* ps2.c: scan codes.  The table gives the modifiers values of kb.h, and   *)
(* both shift keys the same one; the control key has the value of LSHFT.   *)
(***************************************************************************)
LSHFT == 129
RSHFT == 130
LALT == 131
CAPS == 132

translated_kb_codes(k) ==
    CASE k = "a" -> Letter
      [] k = "1" -> 49
      [] k = "minus" -> 45
      [] k = "enter" -> NL
      [] k = "backspace" -> BS
      [] k = "tab" -> 9
      [] k = "f1" -> 144
      [] k = "ctrl" -> LSHFT
      [] k \in {"lshift", "rshift"} -> RSHFT
      [] k = "alt" -> LALT
      [] k = "caps" -> CAPS

shifted_nums == <<41, 33, 64, 35, 36, 37, 94, 38, 42, 40>>
signs         == <<96, 45, 61, 59, 39, 44, 46, 47, 91, 93, 92>>
shifted_signs == <<126, 95, 43, 58, 34, 60, 62, 63, 123, 125, 124>>

\* With shift, a key that has no other character gives a blank: Enter and
\* backspace are among them.
get_ascii(scanned, shift) ==
    CASE ~shift                       -> scanned
      [] shift /\ scanned \in 97..122 -> scanned - 32
      [] shift /\ scanned \in 48..57  -> shifted_nums[scanned - 47]
      [] shift /\ Contains(signs, scanned) ->
            shifted_signs[CHOOSE i \in DOMAIN signs : signs[i] = scanned]
      [] OTHER                        -> Space

\* A key goes down, or repeats: a modifier, or a character for the listener.
ps2_handler_press ==
    \E k \in Keys :
        LET code == translated_kb_codes(k) IN
        /\ held' = (IF code \in {LSHFT, RSHFT} THEN held \cup {k} ELSE held)
        /\ shift_down' = (shift_down \/ code \in {LSHFT, RSHFT})
        /\ caps_lock' = (IF code = CAPS THEN ~caps_lock ELSE caps_lock)
        /\ IF code \notin {LSHFT, RSHFT, CAPS, LALT} /\ ps2_listener /\ g_listener
           THEN getch(get_ascii(code, shift_down \/ caps_lock))
           ELSE UNCHANGED <<screen, editing>>
        /\ UNCHANGED <<wiring, shell>>

\* Fault: only one of the two codes ends shift.
ps2_handler_release_one ==
    \E k \in held :
        /\ held' = held \ {k}
        /\ shift_down' = (shift_down /\ translated_kb_codes(k) # LSHFT)
        /\ UNCHANGED <<caps_lock, wiring, screen, editing, shell>>

\* A key goes up; only those that set shift make a difference.
ps2_handler_release ==
    \E k \in held :
        /\ held' = held \ {k}
        /\ shift_down' = (shift_down /\ translated_kb_codes(k) \notin {LSHFT, RSHFT})
        /\ UNCHANGED <<caps_lock, wiring, screen, editing, shell>>

\* The prefix of an extended key, 0xE0, is looked up past the end of the table: a
\* byte that is there by chance may count as the release of shift.
ps2_handler_extended ==
    /\ shift_down' \in {shift_down, FALSE}
    /\ UNCHANGED <<caps_lock, held, wiring, screen, editing, shell>>

(***************************************************************************)
(* scheduler.c: schedule, called in the timer interrupt, prints a line     *)
(* whenever it dispatches: through the listener of the shell it moves the  *)
(* cursor, behind the prompt as well.                                      *)
(***************************************************************************)
Dispatched == <<Letter, NL>>

schedule ==
    /\ screen' = kprintf(screen, Dispatched)
    /\ UNCHANGED <<keyboard, wiring, editing, shell>>

Next ==
    \/ eshell
    \/ ps2_handler_press \/ ps2_handler_release \/ ps2_handler_extended
    \/ schedule

Spec == Init /\ [][Next]_vars

----------------------------------------------------------------------------
\* No character is written outside the frame buffer, although the keyboard and the
\* line schedule prints may move the cursor between any two steps of the shell's
\* write_screen_char (eshell.c; scheduler.c, schedule).
OnScreen == ~screen.off

\* The command buffer holds what was typed since Enter less what backspaces took
\* back: kstrcat writes no terminator and relies on the buffer being 0 behind the
\* text (string.c, kstrcat; eshell.c, getch).
LineAsTyped ==
    /\ Text(current_command) = line
    /\ \A i \in (Len(line) + 1)..LineBytes : current_command[i] = NUL

\* shift_down does not stay set when no key that sets it is down, in whatever order
\* the shift and control keys go down and up (ps2.c, ps2_handler).
NoStuckShift ==
    shift_down => \E k \in held : translated_kb_codes(k) \in {LSHFT, RSHFT}

\* Once the shell has ended, keys are no longer echoed to the screen, although
\* getch goes on listening, and schedule's lines no longer reach it (eshell.c, the
\* end of eshell; serial.c, deregister_serial_listener).
NoEchoAfterEnd == [][shell.pc = "done" /\ line' # <<>> => UNCHANGED screen]_vars
==========================================================================
