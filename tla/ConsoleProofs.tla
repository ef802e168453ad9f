--------------------------- MODULE ConsoleProofs ---------------------------
(***************************************************************************)
(* Theorems about Console, for every size of the screen and of the command *)
(* buffer and every set of keys.                                           *)
(***************************************************************************)
EXTENDS Console, NaturalsInduction, WellFoundedInduction, SequenceTheorems, TLAPS

\* What is held down are keys that set shift.
ShiftInv ==
    /\ NoStuckShift
    /\ \A k \in held : translated_kb_codes(k) \in {LSHFT, RSHFT}

\* shift_down is cleared before the last key that sets it is up, in whatever order the
\* shift and control keys go down and up, repeat and are extended.
THEOREM NoStuckShiftAlways == Spec => []NoStuckShift
<1>1. Init => ShiftInv
  BY DEF Init, ShiftInv, NoStuckShift
<1>2. ShiftInv /\ [Next]_vars => ShiftInv'
  <2> SUFFICES ASSUME ShiftInv, [Next]_vars
               PROVE  ShiftInv'
    OBVIOUS
  <2>1. CASE eshell \/ schedule \/ UNCHANGED vars
    <3>1. UNCHANGED <<shift_down, held>>
      BY <2>1 DEF eshell, eshell_start, schedule, vars, keyboard
    <3> QED
      BY <3>1 DEF ShiftInv, NoStuckShift
  <2>2. CASE ps2_handler_press
    <3>1. PICK k \in Keys :
            /\ held' = (IF translated_kb_codes(k) \in {LSHFT, RSHFT} THEN held \cup {k} ELSE held)
            /\ shift_down' = (shift_down \/ translated_kb_codes(k) \in {LSHFT, RSHFT})
      BY <2>2 DEF ps2_handler_press
    <3>2. CASE translated_kb_codes(k) \in {LSHFT, RSHFT}
      BY <3>1, <3>2 DEF ShiftInv, NoStuckShift
    <3>3. CASE translated_kb_codes(k) \notin {LSHFT, RSHFT}
      BY <3>1, <3>3 DEF ShiftInv, NoStuckShift
    <3> QED
      BY <3>2, <3>3
  <2>3. CASE ps2_handler_release
    <3>1. PICK k \in held :
            /\ held' = held \ {k}
            /\ shift_down' = (shift_down /\ translated_kb_codes(k) \notin {LSHFT, RSHFT})
      BY <2>3 DEF ps2_handler_release
    <3>2. ~shift_down'
      BY <3>1 DEF ShiftInv
    <3> QED
      BY <3>1, <3>2 DEF ShiftInv, NoStuckShift
  <2>4. CASE ps2_handler_extended
    <3>1. held' = held /\ (shift_down' = shift_down \/ shift_down' = FALSE)
      BY <2>4 DEF ps2_handler_extended
    <3>2. CASE shift_down' = shift_down
      BY <3>1, <3>2 DEF ShiftInv, NoStuckShift
    <3>3. CASE shift_down' = FALSE
      BY <3>1, <3>3 DEF ShiftInv, NoStuckShift
    <3> QED
      BY <3>1, <3>2, <3>3
  <2> QED
    BY <2>1, <2>2, <2>3, <2>4 DEF Next
<1>3. ShiftInv => NoStuckShift
  BY DEF ShiftInv
<1> QED
  BY <1>1, <1>2, <1>3, PTL DEF Spec

----------------------------------------------------------------------------
\* A buffer whose text has n characters.
LEMMA Length ==
    ASSUME NEW s, NEW n \in Nat, n < Len(s), Len(s) \in Nat, s[n + 1] = NUL,
           \A i \in 1..n : s[i] # NUL
    PROVE  kstrlen(s) = n
<1> DEFINE First(i) == s[i] = NUL /\ \A j \in 1..(i - 1) : s[j] # NUL
           z == CHOOSE i \in 1..Len(s) : First(i)
<1>1. n + 1 \in 1..Len(s) /\ First(n + 1)
  OBVIOUS
<1>2. \A i \in 1..Len(s) : First(i) => i = n + 1
  <2> SUFFICES ASSUME NEW i \in 1..Len(s), First(i), i # n + 1
               PROVE  FALSE
    OBVIOUS
  <2>1. CASE i <= n
    <3>1. i \in 1..n
      BY <2>1
    <3> QED
      BY <3>1
  <2>2. CASE i > n + 1
    <3>1. n + 1 \in 1..(i - 1)
      BY <2>2
    <3> QED
      BY <3>1
  <2> QED
    BY <2>1, <2>2
<1>3. z \in 1..Len(s) /\ First(z)
  <2> HIDE DEF First
  <2> QED
    BY <1>1
<1>4. z = n + 1
  BY <1>2, <1>3
<1>5. kstrlen(s) = z - 1
  BY DEF kstrlen, Scan
<1> HIDE DEF z
<1> QED
  BY <1>4, <1>5

\* A command buffer that holds a line, with zeroes behind it.
Buffer(text) == [i \in 1..LineBytes |-> IF i <= Len(text) THEN text[i] ELSE NUL]

\* A line: characters other than NUL, shorter than the buffer.
IsLine(text) ==
    /\ text \in Seq(Int)
    /\ Len(text) <= MaxLine
    /\ \A i \in 1..Len(text) : text[i] # NUL

LineInv ==
    /\ IsLine(line)
    /\ current_command = Buffer(line)
    /\ "pc" \in DOMAIN shell
    /\ shell.pc = "start" => line = <<>> /\ ~g_listener

LEMMA BufferLength ==
    ASSUME NEW text, IsLine(text)
    PROVE  /\ Len(Buffer(text)) = LineBytes
           /\ kstrlen(Buffer(text)) = Len(text)
<1>1. LineBytes \in Nat /\ Len(text) \in Nat /\ Len(text) < LineBytes
  BY ConsoleAssumption DEF IsLine
<1>2. Len(Buffer(text)) = LineBytes
  BY <1>1 DEF Buffer
<1>3. /\ Buffer(text)[Len(text) + 1] = NUL
      /\ \A i \in 1..Len(text) : Buffer(text)[i] # NUL
  BY <1>1 DEF Buffer, IsLine
<1> QED
  BY <1>1, <1>2, <1>3, Length

LEMMA EmptyBuffer == NewCommand = Buffer(<<>>) /\ IsLine(<<>>)
<1>1. 2 * (LineBytes \div 2) = LineBytes /\ LineBytes \in Nat /\ MaxLine \in Nat
  BY ConsoleAssumption
<1>2. IsLine(<<>>)
  BY <1>1 DEF IsLine
<1>3. NewCommand = [i \in 1..LineBytes |-> NUL]
  BY <1>1 DEF NewCommand, kmemset
<1>4. Buffer(<<>>) = [i \in 1..LineBytes |-> NUL]
  BY <1>1 DEF Buffer
<1> QED
  BY <1>2, <1>3, <1>4

\* A character goes behind the line.
LEMMA Appended ==
    ASSUME NEW text, IsLine(text), Len(text) < MaxLine, NEW c \in Int, c # NUL
    PROVE  /\ kstrcat(Buffer(text), Buffer(text), <<c, NUL>>) = Buffer(Append(text, c))
           /\ IsLine(Append(text, c))
<1> DEFINE n == Len(text)
           b == Buffer(text)
           longer == Append(text, c)
<1>1. LineBytes \in Nat /\ n \in Nat /\ n + 1 < LineBytes
  BY ConsoleAssumption DEF IsLine
<1>2. kstrlen(b) = n
  BY BufferLength
<1>3. kstrlen(<<c, NUL>>) = 1
  BY Length DEF NUL
<1>4. Len(longer) = n + 1 /\ longer[n + 1] = c /\ \A i \in 1..n : longer[i] = text[i]
  BY DEF IsLine
<1>5. IsLine(longer)
  <2>1. longer \in Seq(Int) /\ Len(longer) <= MaxLine
    BY <1>1, <1>4, ConsoleAssumption DEF IsLine
  <2>2. \A i \in 1..Len(longer) : longer[i] # NUL
    BY <1>1, <1>4 DEF IsLine
  <2> QED
    BY <2>1, <2>2 DEF IsLine
<1> HIDE DEF longer
<1>6. \A i \in 1..LineBytes : b[i] = IF i <= n THEN text[i] ELSE NUL
  BY DEF Buffer
<1>7. \A i \in 1..LineBytes : Buffer(longer)[i] = IF i <= n + 1 THEN longer[i] ELSE NUL
  BY <1>4 DEF Buffer
<1>8. DOMAIN b = 1..LineBytes /\ DOMAIN Buffer(longer) = 1..LineBytes
  BY DEF Buffer
<1>9. kstrcat(b, b, <<c, NUL>>) =
        [i \in 1..LineBytes |-> IF i <= n THEN b[i]
                                ELSE IF i <= n + 1 THEN <<c, NUL>>[i - n] ELSE b[i]]
  BY <1>2, <1>3, <1>8 DEF kstrcat
<1> HIDE DEF b
<1>10. \A i \in 1..LineBytes :
          (IF i <= n THEN b[i] ELSE IF i <= n + 1 THEN <<c, NUL>>[i - n] ELSE b[i])
            = Buffer(longer)[i]
  <2> SUFFICES ASSUME NEW i \in 1..LineBytes
               PROVE  (IF i <= n THEN b[i] ELSE IF i <= n + 1 THEN <<c, NUL>>[i - n] ELSE b[i])
                        = Buffer(longer)[i]
    OBVIOUS
  <2>1. CASE i <= n
    BY <1>1, <1>4, <1>6, <1>7, <2>1
  <2>2. CASE i = n + 1
    BY <1>1, <1>4, <1>6, <1>7, <2>2
  <2>3. CASE i > n + 1
    BY <1>1, <1>4, <1>6, <1>7, <2>3
  <2> QED
    BY <1>1, <2>1, <2>2, <2>3
<1>11. Buffer(longer) = [i \in 1..LineBytes |-> Buffer(longer)[i]]
  BY DEF Buffer
<1>12. kstrcat(b, b, <<c, NUL>>) = Buffer(longer)
  BY <1>9, <1>10, <1>11
<1> QED
  BY <1>5, <1>12 DEF b, longer

\* A backspace takes the last character away.
LEMMA Shortened ==
    ASSUME NEW text, IsLine(text), text # <<>>
    PROVE  /\ [Buffer(text) EXCEPT ![Len(text)] = NUL] = Buffer(Front(text))
           /\ IsLine(Front(text))
<1> DEFINE n == Len(text)
           shorter == Front(text)
<1>1. LineBytes \in Nat /\ n \in Nat /\ n > 0 /\ n < LineBytes
  BY ConsoleAssumption DEF IsLine
<1>2. /\ shorter \in Seq(Int) /\ Len(shorter) = n - 1
      /\ \A i \in 1..(n - 1) : shorter[i] = text[i]
  <2>1. \A i \in 1..(n - 1) : text[i] \in Int
    BY <1>1 DEF IsLine
  <2>2. 1 \in Int /\ n - 1 \in Int
    BY <1>1
  <2> HIDE DEF n
  <2>3. /\ SubSeq(text, 1, n - 1) \in Seq(Int)
        /\ Len(SubSeq(text, 1, n - 1)) = IF 1 <= n - 1 THEN n - 1 - 1 + 1 ELSE 0
        /\ \A i \in 1..(n - 1 - 1 + 1) : SubSeq(text, 1, n - 1)[i] = text[1 + i - 1]
    BY <2>1, <2>2, SubSeqProperties
  <2>4. shorter = SubSeq(text, 1, n - 1)
    BY DEF Front, n
  <2> QED
    BY <1>1, <2>3, <2>4
<1>3. IsLine(shorter)
  <2>1. Len(shorter) <= MaxLine
    BY <1>1, <1>2, ConsoleAssumption DEF IsLine
  <2>2. \A i \in 1..Len(shorter) : shorter[i] # NUL
    BY <1>1, <1>2 DEF IsLine
  <2> QED
    BY <1>2, <2>1, <2>2 DEF IsLine
<1> HIDE DEF shorter
<1>4. \A i \in 1..LineBytes : [Buffer(text) EXCEPT ![n] = NUL][i] = Buffer(shorter)[i]
  BY <1>1, <1>2 DEF Buffer
<1>5. [Buffer(text) EXCEPT ![n] = NUL] = [i \in 1..LineBytes |-> [Buffer(text) EXCEPT ![n] = NUL][i]]
  BY DEF Buffer
<1>6. Buffer(shorter) = [i \in 1..LineBytes |-> Buffer(shorter)[i]]
  BY DEF Buffer
<1>7. [Buffer(text) EXCEPT ![n] = NUL] = Buffer(shorter)
  BY <1>4, <1>5, <1>6
<1> QED
  BY <1>3, <1>7 DEF shorter

----------------------------------------------------------------------------
\* The characters the keyboard hands over are numbers.
LEMMA Shifted == ASSUME NEW code \in Int PROVE get_ascii(code, TRUE) \in Int
<1>0. Contains(signs, code) => code \notin 97..122 /\ code \notin 48..57
  <2>1. Len(signs) = 11
    BY DEF signs
  <2>2. \A i \in 1..11 : signs[i] \notin 97..122 /\ signs[i] \notin 48..57
    BY DEF signs
  <2> QED
    BY <2>1, <2>2 DEF Contains
<1>1. CASE code \in 97..122
  BY <1>0, <1>1 DEF get_ascii
<1>2. CASE code \notin 97..122 /\ code \in 48..57
  <2>1. get_ascii(code, TRUE) = shifted_nums[code - 47]
    BY <1>0, <1>2 DEF get_ascii
  <2>2. \A i \in 1..10 : shifted_nums[i] \in Int
    BY DEF shifted_nums
  <2>3. code - 47 \in 1..10
    BY <1>2
  <2> QED
    BY <2>1, <2>2, <2>3
<1>3. CASE code \notin 97..122 /\ code \notin 48..57 /\ Contains(signs, code)
  <2> DEFINE j == CHOOSE i \in DOMAIN signs : signs[i] = code
  <2>1. DOMAIN signs = 1..11 /\ Len(signs) = 11
    BY DEF signs
  <2>2. j \in 1..11
    BY <1>3, <2>1 DEF Contains
  <2>3. get_ascii(code, TRUE) = shifted_signs[j]
    BY <1>3 DEF get_ascii
  <2>4. \A i \in 1..11 : shifted_signs[i] \in Int
    BY DEF shifted_signs
  <2> HIDE DEF j
  <2> QED
    BY <2>2, <2>3, <2>4
<1>4. CASE code \notin 97..122 /\ code \notin 48..57 /\ ~Contains(signs, code)
  BY <1>4 DEF get_ascii, Space
<1> QED
  BY <1>1, <1>2, <1>3, <1>4

LEMMA Characters ==
    ASSUME NEW k \in Keys, NEW shift, NEW caps
    PROVE  get_ascii(translated_kb_codes(k), shift \/ caps) \in Int
<1> DEFINE code == translated_kb_codes(k)
<1>1. code \in Int
  BY ConsoleAssumption DEF translated_kb_codes, Letter, NL, BS, LSHFT, RSHFT, LALT, CAPS
<1> HIDE DEF code
<1>2. get_ascii(code, FALSE) \in Int
  BY <1>1 DEF get_ascii
<1> QED
  BY <1>1, <1>2, Shifted DEF code

\* getch keeps the buffer and the line in step, whatever it does to the screen.
LEMMA GetchLine ==
    ASSUME LineInv, NEW c \in Int, getch(c)
    PROVE  IsLine(line)' /\ current_command' = Buffer(line')
<1>1. CASE c = NL
  <2>1. line' = <<>> /\ current_command' = NewCommand
    BY <1>1 DEF getch, getch_enter, NL, BS, Printable, Space
  <2> QED
    BY <2>1, EmptyBuffer DEF IsLine
<1>2. CASE c = BS
  <2> DEFINE n == kstrlen(current_command)
  <2>1. /\ current_command' = IF n = 0 THEN current_command ELSE [current_command EXCEPT ![n] = NUL]
        /\ line' = IF line = <<>> THEN <<>> ELSE Front(line)
    BY <1>2 DEF getch, getch_backspace, NL, BS, Printable, Space
  <2>2. n = Len(line)
    BY BufferLength DEF LineInv
  <2>3. line \in Seq(Int)
    BY DEF LineInv, IsLine
  <2> HIDE DEF n
  <2>4. CASE line = <<>>
    BY <2>1, <2>2, <2>4 DEF LineInv, IsLine
  <2>5. CASE line # <<>>
    <3>1. n # 0
      BY <2>2, <2>3, <2>5
    <3>2. line' = Front(line) /\ current_command' = [Buffer(line) EXCEPT ![Len(line)] = NUL]
      BY <2>1, <2>2, <2>5, <3>1 DEF LineInv
    <3>3. IsLine(line)
      BY DEF LineInv
    <3> QED
      BY <2>5, <3>2, <3>3, Shortened DEF IsLine
  <2> QED
    BY <2>4, <2>5
<1>3. CASE c # NL /\ c # BS /\ Printable(c)
  <2>1. /\ Len(line) < MaxLine
        /\ line' = Append(line, c)
        /\ current_command' = kstrcat(current_command, current_command, <<c, NUL>>)
    BY <1>3 DEF getch, getch_text
  <2>2. c # NUL
    BY <1>3 DEF Printable, Space, NUL
  <2> QED
    BY <2>1, <2>2, Appended DEF LineInv, IsLine
<1>4. CASE c # NL /\ c # BS /\ ~Printable(c)
  <2>1. UNCHANGED <<current_command, line>>
    BY <1>4 DEF getch
  <2> QED
    BY <2>1 DEF LineInv, IsLine
<1> QED
  BY <1>1, <1>2, <1>3, <1>4

\* The shell process leaves the line alone once it listens.
LEMMA ShellLine ==
    ASSUME LineInv, eshell
    PROVE  LineInv'
<1>1. CASE eshell_start
  <2>1. /\ shell.pc = "start" /\ shell' = [shell EXCEPT !.pc = "next"]
        /\ current_command' = NewCommand /\ line' = line
    BY <1>1 DEF eshell_start, Goto
  <2>2. "pc" \in DOMAIN shell' /\ shell'.pc # "start"
    BY <2>1 DEF LineInv
  <2> QED
    BY <2>1, <2>2, EmptyBuffer DEF LineInv, IsLine
<1>2. CASE ~eshell_start
  <2>1. UNCHANGED current_command /\ UNCHANGED line /\ UNCHANGED g_listener
    BY <1>2 DEF eshell, editing, wiring
  <2>2. "pc" \in DOMAIN shell' /\ shell'.pc # "start"
    <3>1. CASE greet_next
      BY <3>1 DEF greet_next, Position, Goto, LineInv
    <3>2. CASE greet_put
      BY <3>2 DEF greet_put, Put, Goto, LineInv
    <3>3. CASE greet_newline
      BY <3>3 DEF greet_newline, NextRow, Goto, LineInv
    <3>4. CASE greet_wrap
      BY <3>4 DEF greet_wrap, NextRow, Goto, LineInv
    <3>5. CASE greet_scroll
      BY <3>5 DEF greet_scroll, Goto, LineInv
    <3>6. CASE greet_prompt
      BY <3>6 DEF greet_prompt, Goto, LineInv
    <3>7. CASE blink
      BY <3>7 DEF blink, Put, LineInv
    <3>8. CASE eshell_end
      BY <3>8 DEF eshell_end, Goto, LineInv
    <3> QED
      BY <1>2, <3>1, <3>2, <3>3, <3>4, <3>5, <3>6, <3>7, <3>8 DEF eshell
  <2> QED
    BY <2>1, <2>2 DEF LineInv, IsLine
<1> QED
  BY <1>1, <1>2

LEMMA LineInit == Init => LineInv
<1> SUFFICES ASSUME Init
             PROVE  LineInv
  OBVIOUS
<1>1. IsLine(<<>>) /\ line = <<>>
  BY EmptyBuffer DEF Init
<1>2. current_command = Buffer(<<>>)
  BY ConsoleAssumption DEF Init, Buffer
<1> QED
  BY <1>1, <1>2 DEF Init, LineInv

LEMMA LineStep ==
    ASSUME LineInv, [Next]_vars
    PROVE  LineInv'
<1>1. CASE eshell
  BY <1>1, ShellLine
<1>2. CASE ps2_handler_press
  <2>1. PICK k \in Keys :
          /\ \/ /\ g_listener
                /\ getch(get_ascii(translated_kb_codes(k), shift_down \/ caps_lock))
             \/ UNCHANGED <<screen, editing>>
          /\ UNCHANGED <<wiring, shell>>
    BY <1>2 DEF ps2_handler_press
  <2>2. UNCHANGED shell /\ UNCHANGED g_listener
    BY <2>1 DEF wiring
  <2>3. CASE UNCHANGED <<screen, editing>>
    BY <2>2, <2>3 DEF editing, LineInv, IsLine
  <2>4. CASE /\ g_listener
             /\ getch(get_ascii(translated_kb_codes(k), shift_down \/ caps_lock))
    <3>1. IsLine(line)' /\ current_command' = Buffer(line')
      BY <2>4, Characters, GetchLine
    <3> QED
      BY <2>2, <2>4, <3>1 DEF LineInv
  <2> QED
    BY <2>1, <2>3, <2>4
<1>3. CASE ps2_handler_release \/ ps2_handler_extended \/ schedule \/ UNCHANGED vars
  <2>1. UNCHANGED editing /\ UNCHANGED shell /\ UNCHANGED wiring
    BY <1>3 DEF ps2_handler_release, ps2_handler_extended, schedule, vars
  <2> QED
    BY <2>1 DEF editing, wiring, LineInv, IsLine
<1> QED
  BY <1>1, <1>2, <1>3 DEF Next

\* The command buffer holds the line that was typed and zeroes behind it, although
\* kstrcat writes no terminator: each buffer is cleared when it is taken, a backspace
\* leaves a zero, and no key reaches getch before the first buffer is there.
THEOREM LineAsTypedAlways == Spec => []LineAsTyped
<1>1. LineInv /\ [Next]_vars => LineInv'
  BY LineStep
<1>2. LineInv => LineAsTyped
  <2> SUFFICES ASSUME LineInv
               PROVE  LineAsTyped
    OBVIOUS
  <2>1. LineBytes \in Nat /\ Len(line) \in Nat /\ Len(line) < LineBytes
    BY ConsoleAssumption DEF LineInv, IsLine
  <2>2. kstrlen(current_command) = Len(line)
    BY BufferLength DEF LineInv
  <2>3. Text(current_command) = [i \in 1..Len(line) |-> line[i]]
    <3>1. \A i \in 1..Len(line) : current_command[i] = line[i]
      BY <2>1 DEF LineInv, Buffer
    <3> QED
      BY <2>2, <3>1 DEF Text
  <2>4. line = [i \in 1..Len(line) |-> line[i]]
    BY DEF LineInv, IsLine
  <2>5. \A i \in (Len(line) + 1)..LineBytes : current_command[i] = NUL
    BY <2>1 DEF LineInv, Buffer
  <2> QED
    BY <2>3, <2>4, <2>5 DEF LineAsTyped
<1> QED
  BY <1>1, <1>2, LineInit, PTL DEF Spec

----------------------------------------------------------------------------
(***************************************************************************)
(* The screen.  A fold over a text of two or three characters is unfolded; *)
(* what the recursive function in its definition is, is shown by giving a  *)
(* function that satisfies the same equation.                              *)
(***************************************************************************)
LEMMA MaxOf ==
    ASSUME NEW S \in SUBSET Int, NEW m \in S, \A x \in S : x <= m
    PROVE  Max(S) = m
<1>1. m \in S /\ \A y \in S : m >= y
  OBVIOUS
<1>2. \A z \in S : (\A y \in S : z >= y) => z = m
  OBVIOUS
<1> QED
  BY <1>1, <1>2 DEF Max

LEMMA MaxSmall ==
    /\ Max({1}) = 1 /\ Max({2}) = 2 /\ Max({3}) = 3
    /\ Max({1, 2}) = 2 /\ Max({1, 3}) = 3 /\ Max({2, 3}) = 3 /\ Max({1, 2, 3}) = 3
<1>1. Max({1}) = 1
  BY MaxOf
<1>2. Max({2}) = 2
  BY MaxOf
<1>3. Max({3}) = 3
  BY MaxOf
<1>4. Max({1, 2}) = 2
  BY MaxOf
<1>5. Max({1, 3}) = 3
  BY MaxOf
<1>6. Max({2, 3}) = 3
  BY MaxOf
<1>7. Max({1, 2, 3}) = 3
  BY MaxOf
<1> QED
  BY <1>1, <1>2, <1>3, <1>4, <1>5, <1>6, <1>7

\* The parts of a text that the folds go over, without their last character.
LEMMA SmallSets ==
    /\ \A t \in SUBSET {1} : t = {} \/ t = {1}
    /\ \A t \in SUBSET {1, 2} : t = {} \/ t = {1} \/ t = {2} \/ t = {1, 2}
    /\ \A t \in SUBSET {1, 2, 3} :
         \/ t = {} \/ t = {1} \/ t = {2} \/ t = {3}
         \/ t = {1, 2} \/ t = {1, 3} \/ t = {2, 3} \/ t = {1, 2, 3}
    /\ {1} \ {1} = {} /\ {2} \ {2} = {} /\ {3} \ {3} = {}
    /\ {1, 2} \ {2} = {1} /\ {1, 3} \ {3} = {1} /\ {2, 3} \ {3} = {2}
    /\ {1, 2, 3} \ {3} = {1, 2}
<1>1. \A t \in SUBSET {1} : t = {} \/ t = {1}
  OBVIOUS
<1>2. \A t \in SUBSET {1, 2} : t = {} \/ t = {1} \/ t = {2} \/ t = {1, 2}
  OBVIOUS
<1>3. \A t \in SUBSET {1, 2, 3} :
         \/ t = {} \/ t = {1} \/ t = {2} \/ t = {3}
         \/ t = {1, 2} \/ t = {1, 3} \/ t = {2, 3} \/ t = {1, 2, 3}
  OBVIOUS
<1>4. {1} \ {1} = {} /\ {2} \ {2} = {} /\ {3} \ {3} = {}
  OBVIOUS
<1>5. {1, 2} \ {2} = {1} /\ {1, 3} \ {3} = {1} /\ {2, 3} \ {3} = {2}
  OBVIOUS
<1>6. {1, 2, 3} \ {3} = {1, 2}
  OBVIOUS
<1> QED
  BY <1>1, <1>2, <1>3, <1>4, <1>5, <1>6

LEMMA Write3 ==
    ASSUME NEW s, NEW a, NEW b, NEW c
    PROVE  write_screen(s, <<a, b, c>>) =
             write_screen_char(write_screen_char(write_screen_char(s, a), b), c)
<1> DEFINE D == {1, 2, 3}
           Str == <<a, b, c>>
           W1(t) == IF 1 \in t THEN write_screen_char(s, a) ELSE s
           W2(t) == IF 2 \in t THEN write_screen_char(W1(t), b) ELSE W1(t)
           W3(t) == IF 3 \in t THEN write_screen_char(W2(t), c) ELSE W2(t)
           G(f, t) == IF t = {} THEN s ELSE write_screen_char(f[t \ {Max(t)}], Str[Max(t)])
           iter == CHOOSE f : f = [t \in SUBSET D |-> G(f, t)]
           w == [t \in SUBSET D |-> W3(t)]
<1>1. DOMAIN Str = D
  OBVIOUS
<1>2. write_screen(s, Str) = iter[D]
  BY <1>1 DEF write_screen, FoldLeft, MapThenFoldSet
<1>3. Str[1] = a /\ Str[2] = b /\ Str[3] = c
  OBVIOUS
<1>4. ASSUME NEW t \in SUBSET D
      PROVE  W3(t) = G(w, t)
  <2> HIDE DEF Str
  <2>1. CASE t = {}
    BY <2>1
  <2>2. CASE t = {1}
    <3>1. Max(t) = 1 /\ t \ {Max(t)} = {}
      BY <2>2, MaxSmall, SmallSets
    <3>2. G(w, t) = write_screen_char(w[{}], Str[1]) /\ w[{}] = s
      BY <2>2, <3>1
    <3>3. W3(t) = write_screen_char(s, a)
      BY <2>2
    <3> QED
      BY <1>3, <3>2, <3>3
  <2>3. CASE t = {2}
    <3>1. Max(t) = 2 /\ t \ {Max(t)} = {}
      BY <2>3, MaxSmall, SmallSets
    <3>2. G(w, t) = write_screen_char(w[{}], Str[2]) /\ w[{}] = s
      BY <2>3, <3>1
    <3>3. W3(t) = write_screen_char(s, b)
      BY <2>3
    <3> QED
      BY <1>3, <3>2, <3>3
  <2>4. CASE t = {1, 2}
    <3>1. Max(t) = 2 /\ t \ {Max(t)} = {1}
      BY <2>4, MaxSmall, SmallSets
    <3>2. G(w, t) = write_screen_char(w[{1}], Str[2]) /\ w[{1}] = write_screen_char(s, a)
      BY <2>4, <3>1
    <3>3. W3(t) = write_screen_char(write_screen_char(s, a), b)
      BY <2>4
    <3> QED
      BY <1>3, <3>2, <3>3
  <2>5. CASE t = {3}
    <3>1. Max(t) = 3 /\ t \ {Max(t)} = {}
      BY <2>5, MaxSmall, SmallSets
    <3>2. G(w, t) = write_screen_char(w[{}], Str[3]) /\ w[{}] = s
      BY <2>5, <3>1
    <3>3. W3(t) = write_screen_char(s, c)
      BY <2>5
    <3> QED
      BY <1>3, <3>2, <3>3
  <2>6. CASE t = {1, 3}
    <3>1. Max(t) = 3 /\ t \ {Max(t)} = {1}
      BY <2>6, MaxSmall, SmallSets
    <3>2. G(w, t) = write_screen_char(w[{1}], Str[3]) /\ w[{1}] = write_screen_char(s, a)
      BY <2>6, <3>1
    <3>3. W3(t) = write_screen_char(write_screen_char(s, a), c)
      BY <2>6
    <3> QED
      BY <1>3, <3>2, <3>3
  <2>7. CASE t = {2, 3}
    <3>1. Max(t) = 3 /\ t \ {Max(t)} = {2}
      BY <2>7, MaxSmall, SmallSets
    <3>2. G(w, t) = write_screen_char(w[{2}], Str[3]) /\ w[{2}] = write_screen_char(s, b)
      BY <2>7, <3>1
    <3>3. W3(t) = write_screen_char(write_screen_char(s, b), c)
      BY <2>7
    <3> QED
      BY <1>3, <3>2, <3>3
  <2>8. CASE t = {1, 2, 3}
    <3>1. Max(t) = 3 /\ t \ {Max(t)} = {1, 2}
      BY <2>8, MaxSmall, SmallSets
    <3>2. G(w, t) = write_screen_char(w[{1, 2}], Str[3]) /\ w[{1, 2}] = write_screen_char(write_screen_char(s, a), b)
      BY <2>8, <3>1
    <3>3. W3(t) = write_screen_char(write_screen_char(write_screen_char(s, a), b), c)
      BY <2>8
    <3> QED
      BY <1>3, <3>2, <3>3
  <2> QED
    BY <2>1, <2>2, <2>3, <2>4, <2>5, <2>6, <2>7, <2>8, SmallSets
<1>5. w = [t \in SUBSET D |-> G(w, t)]
  BY <1>4
<1>6. iter = [t \in SUBSET D |-> G(iter, t)]
  BY <1>5
<1> HIDE DEF iter, Str
<1>7. iter[{}] = s
  BY <1>3, <1>6, MaxSmall, SmallSets
<1>8. iter[{1}] = write_screen_char(iter[{}], a)
  <2>1. {1} \in SUBSET D /\ {1} # {}
    OBVIOUS
  <2>2. Max({1}) = 1 /\ {1} \ {1} = {}
    BY MaxSmall, SmallSets
  <2>3. iter[{1}] = G(iter, {1})
    BY <1>6, <2>1
  <2> QED
    BY <1>3, <2>1, <2>2, <2>3
<1>9. iter[{1, 2}] = write_screen_char(iter[{1}], b)
  <2>1. {1, 2} \in SUBSET D /\ {1, 2} # {}
    OBVIOUS
  <2>2. Max({1, 2}) = 2 /\ {1, 2} \ {2} = {1}
    BY MaxSmall, SmallSets
  <2>3. iter[{1, 2}] = G(iter, {1, 2})
    BY <1>6, <2>1
  <2> QED
    BY <1>3, <2>1, <2>2, <2>3
<1>10. iter[{1, 2, 3}] = write_screen_char(iter[{1, 2}], c)
  <2>1. {1, 2, 3} \in SUBSET D /\ {1, 2, 3} # {}
    OBVIOUS
  <2>2. Max({1, 2, 3}) = 3 /\ {1, 2, 3} \ {3} = {1, 2}
    BY MaxSmall, SmallSets
  <2>3. iter[{1, 2, 3}] = G(iter, {1, 2, 3})
    BY <1>6, <2>1
  <2> QED
    BY <1>3, <2>1, <2>2, <2>3
<1> QED
  BY <1>2, <1>7, <1>8, <1>9, <1>10 DEF Str

LEMMA Write2 ==
    ASSUME NEW s, NEW a, NEW b
    PROVE  write_screen(s, <<a, b>>) =
             write_screen_char(write_screen_char(s, a), b)
<1> DEFINE D == {1, 2}
           Str == <<a, b>>
           W1(t) == IF 1 \in t THEN write_screen_char(s, a) ELSE s
           W2(t) == IF 2 \in t THEN write_screen_char(W1(t), b) ELSE W1(t)
           G(f, t) == IF t = {} THEN s ELSE write_screen_char(f[t \ {Max(t)}], Str[Max(t)])
           iter == CHOOSE f : f = [t \in SUBSET D |-> G(f, t)]
           w == [t \in SUBSET D |-> W2(t)]
<1>1. DOMAIN Str = D
  OBVIOUS
<1>2. write_screen(s, Str) = iter[D]
  BY <1>1 DEF write_screen, FoldLeft, MapThenFoldSet
<1>3. Str[1] = a /\ Str[2] = b
  OBVIOUS
<1>4. ASSUME NEW t \in SUBSET D
      PROVE  W2(t) = G(w, t)
  <2> HIDE DEF Str
  <2>1. CASE t = {}
    BY <2>1
  <2>2. CASE t = {1}
    <3>1. Max(t) = 1 /\ t \ {Max(t)} = {}
      BY <2>2, MaxSmall, SmallSets
    <3>2. G(w, t) = write_screen_char(w[{}], Str[1]) /\ w[{}] = s
      BY <2>2, <3>1
    <3>3. W2(t) = write_screen_char(s, a)
      BY <2>2
    <3> QED
      BY <1>3, <3>2, <3>3
  <2>3. CASE t = {2}
    <3>1. Max(t) = 2 /\ t \ {Max(t)} = {}
      BY <2>3, MaxSmall, SmallSets
    <3>2. G(w, t) = write_screen_char(w[{}], Str[2]) /\ w[{}] = s
      BY <2>3, <3>1
    <3>3. W2(t) = write_screen_char(s, b)
      BY <2>3
    <3> QED
      BY <1>3, <3>2, <3>3
  <2>4. CASE t = {1, 2}
    <3>1. Max(t) = 2 /\ t \ {Max(t)} = {1}
      BY <2>4, MaxSmall, SmallSets
    <3>2. G(w, t) = write_screen_char(w[{1}], Str[2]) /\ w[{1}] = write_screen_char(s, a)
      BY <2>4, <3>1
    <3>3. W2(t) = write_screen_char(write_screen_char(s, a), b)
      BY <2>4
    <3> QED
      BY <1>3, <3>2, <3>3
  <2> QED
    BY <2>1, <2>2, <2>3, <2>4, SmallSets
<1>5. w = [t \in SUBSET D |-> G(w, t)]
  BY <1>4
<1>6. iter = [t \in SUBSET D |-> G(iter, t)]
  BY <1>5
<1> HIDE DEF iter, Str
<1>7. iter[{}] = s
  BY <1>3, <1>6, MaxSmall, SmallSets
<1>8. iter[{1}] = write_screen_char(iter[{}], a)
  <2>1. {1} \in SUBSET D /\ {1} # {}
    OBVIOUS
  <2>2. Max({1}) = 1 /\ {1} \ {1} = {}
    BY MaxSmall, SmallSets
  <2>3. iter[{1}] = G(iter, {1})
    BY <1>6, <2>1
  <2> QED
    BY <1>3, <2>1, <2>2, <2>3
<1>9. iter[{1, 2}] = write_screen_char(iter[{1}], b)
  <2>1. {1, 2} \in SUBSET D /\ {1, 2} # {}
    OBVIOUS
  <2>2. Max({1, 2}) = 2 /\ {1, 2} \ {2} = {1}
    BY MaxSmall, SmallSets
  <2>3. iter[{1, 2}] = G(iter, {1, 2})
    BY <1>6, <2>1
  <2> QED
    BY <1>3, <2>1, <2>2, <2>3
<1> QED
  BY <1>2, <1>7, <1>8, <1>9 DEF Str

LEMMA Print1 ==
    ASSUME NEW s, NEW a
    PROVE  kprintf(s, <<a>>) =
             kputc(s, a)
<1> DEFINE D == {1}
           Str == <<a>>
           W1(t) == IF 1 \in t THEN kputc(s, a) ELSE s
           G(f, t) == IF t = {} THEN s ELSE kputc(f[t \ {Max(t)}], Str[Max(t)])
           iter == CHOOSE f : f = [t \in SUBSET D |-> G(f, t)]
           w == [t \in SUBSET D |-> W1(t)]
<1>1. DOMAIN Str = D
  OBVIOUS
<1>2. kprintf(s, Str) = iter[D]
  BY <1>1 DEF kprintf, FoldLeft, MapThenFoldSet
<1>3. Str[1] = a
  OBVIOUS
<1>4. ASSUME NEW t \in SUBSET D
      PROVE  W1(t) = G(w, t)
  <2> HIDE DEF Str
  <2>1. CASE t = {}
    BY <2>1
  <2>2. CASE t = {1}
    <3>1. Max(t) = 1 /\ t \ {Max(t)} = {}
      BY <2>2, MaxSmall, SmallSets
    <3>2. G(w, t) = kputc(w[{}], Str[1]) /\ w[{}] = s
      BY <2>2, <3>1
    <3>3. W1(t) = kputc(s, a)
      BY <2>2
    <3> QED
      BY <1>3, <3>2, <3>3
  <2> QED
    BY <2>1, <2>2, SmallSets
<1>5. w = [t \in SUBSET D |-> G(w, t)]
  BY <1>4
<1>6. iter = [t \in SUBSET D |-> G(iter, t)]
  BY <1>5
<1> HIDE DEF iter, Str
<1>7. iter[{}] = s
  BY <1>3, <1>6, MaxSmall, SmallSets
<1>8. iter[{1}] = kputc(iter[{}], a)
  <2>1. {1} \in SUBSET D /\ {1} # {}
    OBVIOUS
  <2>2. Max({1}) = 1 /\ {1} \ {1} = {}
    BY MaxSmall, SmallSets
  <2>3. iter[{1}] = G(iter, {1})
    BY <1>6, <2>1
  <2> QED
    BY <1>3, <2>1, <2>2, <2>3
<1> QED
  BY <1>2, <1>7, <1>8 DEF Str

LEMMA Print2 ==
    ASSUME NEW s, NEW a, NEW b
    PROVE  kprintf(s, <<a, b>>) =
             kputc(kputc(s, a), b)
<1> DEFINE D == {1, 2}
           Str == <<a, b>>
           W1(t) == IF 1 \in t THEN kputc(s, a) ELSE s
           W2(t) == IF 2 \in t THEN kputc(W1(t), b) ELSE W1(t)
           G(f, t) == IF t = {} THEN s ELSE kputc(f[t \ {Max(t)}], Str[Max(t)])
           iter == CHOOSE f : f = [t \in SUBSET D |-> G(f, t)]
           w == [t \in SUBSET D |-> W2(t)]
<1>1. DOMAIN Str = D
  OBVIOUS
<1>2. kprintf(s, Str) = iter[D]
  BY <1>1 DEF kprintf, FoldLeft, MapThenFoldSet
<1>3. Str[1] = a /\ Str[2] = b
  OBVIOUS
<1>4. ASSUME NEW t \in SUBSET D
      PROVE  W2(t) = G(w, t)
  <2> HIDE DEF Str
  <2>1. CASE t = {}
    BY <2>1
  <2>2. CASE t = {1}
    <3>1. Max(t) = 1 /\ t \ {Max(t)} = {}
      BY <2>2, MaxSmall, SmallSets
    <3>2. G(w, t) = kputc(w[{}], Str[1]) /\ w[{}] = s
      BY <2>2, <3>1
    <3>3. W2(t) = kputc(s, a)
      BY <2>2
    <3> QED
      BY <1>3, <3>2, <3>3
  <2>3. CASE t = {2}
    <3>1. Max(t) = 2 /\ t \ {Max(t)} = {}
      BY <2>3, MaxSmall, SmallSets
    <3>2. G(w, t) = kputc(w[{}], Str[2]) /\ w[{}] = s
      BY <2>3, <3>1
    <3>3. W2(t) = kputc(s, b)
      BY <2>3
    <3> QED
      BY <1>3, <3>2, <3>3
  <2>4. CASE t = {1, 2}
    <3>1. Max(t) = 2 /\ t \ {Max(t)} = {1}
      BY <2>4, MaxSmall, SmallSets
    <3>2. G(w, t) = kputc(w[{1}], Str[2]) /\ w[{1}] = kputc(s, a)
      BY <2>4, <3>1
    <3>3. W2(t) = kputc(kputc(s, a), b)
      BY <2>4
    <3> QED
      BY <1>3, <3>2, <3>3
  <2> QED
    BY <2>1, <2>2, <2>3, <2>4, SmallSets
<1>5. w = [t \in SUBSET D |-> G(w, t)]
  BY <1>4
<1>6. iter = [t \in SUBSET D |-> G(iter, t)]
  BY <1>5
<1> HIDE DEF iter, Str
<1>7. iter[{}] = s
  BY <1>3, <1>6, MaxSmall, SmallSets
<1>8. iter[{1}] = kputc(iter[{}], a)
  <2>1. {1} \in SUBSET D /\ {1} # {}
    OBVIOUS
  <2>2. Max({1}) = 1 /\ {1} \ {1} = {}
    BY MaxSmall, SmallSets
  <2>3. iter[{1}] = G(iter, {1})
    BY <1>6, <2>1
  <2> QED
    BY <1>3, <2>1, <2>2, <2>3
<1>9. iter[{1, 2}] = kputc(iter[{1}], b)
  <2>1. {1, 2} \in SUBSET D /\ {1, 2} # {}
    OBVIOUS
  <2>2. Max({1, 2}) = 2 /\ {1, 2} \ {2} = {1}
    BY MaxSmall, SmallSets
  <2>3. iter[{1, 2}] = G(iter, {1, 2})
    BY <1>6, <2>1
  <2> QED
    BY <1>3, <2>1, <2>2, <2>3
<1> QED
  BY <1>2, <1>7, <1>8, <1>9 DEF Str

\* Every set of numbers has a least one, and one that is bounded a greatest one.
LEMMA Least ==
    ASSUME NEW T \in SUBSET Nat, T # {}
    PROVE  \E n \in T : \A m \in T : n <= m
<1> DEFINE R == OpToRel(<, Nat)
<1>1. \A x, y \in Nat : x < y => <<x, y>> \in R
  BY DEF OpToRel
<1>2. IsWellFoundedOn(R, Nat)
  BY NatLessThanWellFounded
<1> HIDE DEF R
<1>3. PICK x \in T : \A y \in T : ~(<<y, x>> \in R)
  BY <1>2, WFMin
<1>4. \A y \in T : ~(y < x)
  BY <1>1, <1>3
<1> QED
  BY <1>4

LEMMA Greatest ==
    ASSUME NEW n \in Nat, NEW T \in SUBSET (1..n), T # {}
    PROVE  Max(T) \in T /\ \A m \in T : m <= Max(T)
<1> DEFINE B == {k \in Nat : \A m \in T : m <= k}
<1>1. n \in B
  OBVIOUS
<1>2. PICK b \in B : \A k \in B : b <= k
  <2>1. B \in SUBSET Nat /\ B # {}
    BY <1>1
  <2> HIDE DEF B
  <2> QED
    BY <2>1, Least
<1>3. b \in T
  <2> SUFFICES ASSUME b \notin T
               PROVE  FALSE
    OBVIOUS
  <2>1. PICK e \in T : e \in 1..n
    OBVIOUS
  <2>2. b >= 1
    BY <2>1, <1>2
  <2>3. \A m \in T : m <= b - 1
    BY <1>2
  <2>4. b - 1 \in B
    BY <2>2, <2>3
  <2> QED
    BY <1>2, <2>4
<1>4. Max(T) = b
  BY <1>2, <1>3, MaxOf
<1> QED
  BY <1>2, <1>3, <1>4

\* A character goes to the listener in the first slot when the others are free.
LEMMA ToFirst ==
    ASSUME NEW s, NEW c, \A i \in 2..ListenerSlots : listeners[i] = 0
    PROVE  serial_write(s, c) = IF listeners[1] # 0 THEN write_screen_char(s, c) ELSE s
<1> DEFINE n == ListenerSlots
           D == 1..n
           Slots == [i \in 1..n |-> i]
           op(t, i) == IF listeners[i] # 0 THEN write_screen_char(t, c) ELSE t
           r == IF listeners[1] # 0 THEN write_screen_char(s, c) ELSE s
           G(f, t) == IF t = {} THEN s ELSE op(f[t \ {Max(t)}], Slots[Max(t)])
           iter == CHOOSE f : f = [t \in SUBSET D |-> G(f, t)]
           w == [t \in SUBSET D |-> IF 1 \in t THEN r ELSE s]
<1>1. n \in Nat /\ n >= 1
  BY ConsoleAssumption
<1>2. serial_write(s, c) = iter[D]
  <2>1. DOMAIN Slots = D
    OBVIOUS
  <2> QED
    BY <2>1 DEF serial_write, FoldLeft, MapThenFoldSet
<1>3. ASSUME NEW t \in SUBSET D, t # {}
      PROVE  Max(t) \in t /\ \A m \in t : m <= Max(t)
  BY <1>1, <1>3, Greatest
<1>4. ASSUME NEW t \in SUBSET D
      PROVE  w[t] = G(w, t)
  <2>1. CASE t = {}
    BY <2>1
  <2>2. CASE t # {}
    <3> DEFINE m == Max(t)
    <3>1. m \in t /\ m \in D /\ \A k \in t : k <= m
      BY <2>2, <1>3
    <3> HIDE DEF m
    <3>2. t \ {m} \in SUBSET D
      OBVIOUS
    <3>3. G(w, t) = op(w[t \ {m}], m)
      BY <2>2, <3>1 DEF m
    <3>4. CASE m = 1
      <4>1. t = {1}
        <5>1. \A k \in t : k = 1
          BY <1>1, <3>1, <3>4
        <5> QED
          BY <2>2, <5>1
      <4>2. w[t \ {m}] = s /\ w[t] = r
        BY <3>2, <3>4, <4>1
      <4> QED
        BY <3>3, <3>4, <4>2
    <3>5. CASE m # 1
      <4>1. listeners[m] = 0
        BY <1>1, <3>1, <3>5
      <4>2. 1 \in t <=> 1 \in t \ {m}
        BY <3>5
      <4> QED
        BY <3>2, <3>3, <4>1, <4>2
    <3> QED
      BY <3>4, <3>5
  <2> QED
    BY <2>1, <2>2
<1>5. w = [t \in SUBSET D |-> G(w, t)]
  <2>1. w = [t \in SUBSET D |-> w[t]]
    OBVIOUS
  <2> HIDE DEF w, G
  <2> QED
    BY <1>4, <2>1
<1>6. iter = [t \in SUBSET D |-> G(iter, t)]
  BY <1>5
<1> HIDE DEF iter
<1>7. ASSUME NEW k \in D
      PROVE  /\ 1..k \in SUBSET D /\ 1..k # {} /\ Max(1..k) = k
             /\ (1..k) \ {k} = 1..(k - 1)
             /\ iter[1..k] = op(iter[1..(k - 1)], k)
  <2>1. 1..k \in SUBSET D /\ 1..k # {}
    BY <1>1
  <2>2. Max(1..k) = k
    <3>1. 1..k \in SUBSET Int /\ k \in 1..k /\ \A x \in 1..k : x <= k
      BY <1>1
    <3> QED
      BY <3>1, MaxOf
  <2>3. (1..k) \ {k} = 1..(k - 1)
    BY <1>1
  <2>4. iter[1..k] = G(iter, 1..k)
    BY <1>6, <2>1
  <2>5. Slots[k] = k
    OBVIOUS
  <2> HIDE DEF op, Slots
  <2>6. iter[1..k] = op(iter[1..(k - 1)], k)
    BY <2>1, <2>2, <2>3, <2>4, <2>5
  <2> QED
    BY <2>1, <2>2, <2>3, <2>6
<1>8. iter[1..1] = r
  <2>1. iter[{}] = s
    BY <1>6
  <2>2. 1 \in D /\ 1..(1 - 1) = {}
    BY <1>1
  <2> QED
    BY <1>7, <2>1, <2>2
<1> DEFINE T == {k \in D : iter[1..k] # r}
<1>9. T = {}
  <2> SUFFICES ASSUME T # {}
               PROVE  FALSE
    OBVIOUS
  <2>1. PICK k \in T : \A m \in T : k <= m
    <3>1. T \in SUBSET Nat
      BY <1>1
    <3> HIDE DEF T
    <3> QED
      BY <3>1, Least
  <2>2. k \in D /\ iter[1..k] # r /\ k # 1
    BY <1>8
  <2>3. k - 1 \in D /\ k - 1 \notin T /\ listeners[k] = 0
    BY <1>1, <2>1, <2>2
  <2>4. iter[1..(k - 1)] = r
    BY <2>3
  <2>5. iter[1..k] = op(iter[1..(k - 1)], k)
    BY <1>7, <2>2
  <2> QED
    BY <2>2, <2>3, <2>4, <2>5
<1>10. n \in D
  BY <1>1
<1> QED
  BY <1>2, <1>9, <1>10

----------------------------------------------------------------------------
(***************************************************************************)
(* The invariant of the screen.  Where the shell is when the cursor may be *)
(* past the last column or below the last row that text stays in; at every *)
(* point the keyboard's handler or the timer's may come in and write from  *)
(* there.                                                                  *)
(***************************************************************************)
Screens == [x : 1..(Cols + 1), y : 0..(Rows - 1), minx : 1..Cols, miny : 0..(Rows - 2),
            off : {FALSE}]

\* A screen on which the next character may be written.
Writable(s) == s \in Screens /\ (s.x > Cols => s.y <= Rows - 2)

\* A screen after a character.
Settled(s) == s \in Screens /\ s.x <= Cols /\ s.y <= Rows - 2

ShellInv ==
    /\ DOMAIN shell = {"pc", "todo", "px", "py"}
    /\ shell.px \in 0..Cols /\ shell.py \in 0..(Rows - 2)
    /\ shell.pc \in {"store", "put", "cursor"} => shell.px >= 1

ScreenInv ==
    /\ Writable(screen)
    /\ screen.x > Cols => shell.pc \in {"put", "newline", "wrap", "full"}
    /\ screen.y > Rows - 2 => shell.pc \in {"wrap", "scroll", "scroll_y"}

\* The shell's listener is in the first slot from the start to the end of the shell.
ListenerInv ==
    /\ listeners \in [1..ListenerSlots -> {0, driver_key}]
    /\ \A i \in 2..ListenerSlots : listeners[i] = 0
    /\ listeners[1] = 0 <=> shell.pc \in {"start", "done"}

ConsoleInv == ShellInv /\ ScreenInv /\ ListenerInv

LEMMA Inside ==
    ASSUME NEW x \in 1..(Cols + 1), NEW y \in 0..(Rows - 1), x > Cols => y <= Rows - 2
    PROVE  ~OffScreen(x, y)
<1>0. Cols \in Nat /\ Rows \in Nat /\ Cols >= 4 /\ Rows >= 3
  BY ConsoleAssumption
<1> DEFINE a == Cols * y
<1>1. a \in Nat /\ Cols * Rows \in Nat
  BY <1>0
<1>2. y <= Rows - 1 => a + Cols <= Cols * Rows
  BY <1>0
<1>3. y <= Rows - 2 => a + Cols + Cols <= Cols * Rows
  BY <1>0
<1> HIDE DEF a
<1>4. x + a - 1 \in 0..(Cols * Rows - 1)
  BY <1>0, <1>1, <1>2, <1>3
<1> QED
  BY <1>4 DEF OffScreen, a

LEMMA Max2 ==
    ASSUME NEW a \in Int, NEW b \in Int
    PROVE  Max({a, b}) = IF a >= b THEN a ELSE b
<1>1. CASE a >= b
  BY <1>1, MaxOf
<1>2. CASE a < b
  BY <1>2, MaxOf
<1> QED
  BY <1>1, <1>2

\* Screens with a cursor anywhere.
Frames == [x : Int, y : Int, minx : Int, miny : Int, off : {FALSE}]

\* The cursor of a frame is moved.
Moved(s, a, b) == [s EXCEPT !.x = a, !.y = b]

LEMMA Fields ==
    ASSUME NEW s \in Frames, NEW a \in Int, NEW b \in Int
    PROVE  /\ Moved(s, a, b) \in Frames
           /\ Moved(s, a, b).x = a /\ Moved(s, a, b).y = b
           /\ Moved(s, a, b).minx = s.minx /\ Moved(s, a, b).miny = s.miny
  BY DEF Frames, Moved

LEMMA ScreenFrames ==
    ASSUME NEW s
    PROVE  s \in Screens <=> /\ s \in Frames
                             /\ s.x \in 1..(Cols + 1) /\ s.y \in 0..(Rows - 1)
                             /\ s.minx \in 1..Cols /\ s.miny \in 0..(Rows - 2)
<1>1. Cols \in Nat /\ Rows \in Nat
  BY ConsoleAssumption
<1>2. 1..(Cols + 1) \subseteq Int /\ 0..(Rows - 1) \subseteq Int
      /\ 1..Cols \subseteq Int /\ 0..(Rows - 2) \subseteq Int
  BY <1>1
<1> QED
  BY <1>2 DEF Screens, Frames

\* What one character does to the cursor, the wrap and the scroll left out.
LEMMA Advanced ==
    ASSUME NEW s, Writable(s), NEW c
    PROVE  /\ c = NL => Advance(s, c) = Moved(s, 1, s.y + 1)
           /\ c = CR => Advance(s, c) = Moved(s, 1, s.y)
           /\ c = BS => Advance(s, c) = Moved(s, IF s.x - 1 >= s.minx THEN s.x - 1 ELSE s.minx,
                                                 IF s.y >= s.miny THEN s.y ELSE s.miny)
           /\ c # NL /\ c # CR /\ c # BS => Advance(s, c) = Moved(s, s.x + 1, s.y)
<1>1. /\ s \in Frames
      /\ s.x \in 1..(Cols + 1) /\ s.y \in 0..(Rows - 1) /\ (s.x > Cols => s.y <= Rows - 2)
  BY ScreenFrames DEF Writable
<1>2. s.x \in Int /\ s.y \in Int /\ s.minx \in Int /\ s.miny \in Int /\ s.off = FALSE
  BY <1>1 DEF Frames
<1>3. (s.off \/ OffScreen(s.x, s.y)) = s.off
  BY <1>1, <1>2, Inside
<1>4. /\ Max({s.x - 1, s.minx}) = IF s.x - 1 >= s.minx THEN s.x - 1 ELSE s.minx
      /\ Max({s.y, s.miny}) = IF s.y >= s.miny THEN s.y ELSE s.miny
  BY <1>2, Max2
<1>5. /\ [s EXCEPT !.x = 1, !.y = s.y + 1, !.off = s.off] = Moved(s, 1, s.y + 1)
      /\ [s EXCEPT !.x = s.x + 1, !.off = s.off] = Moved(s, s.x + 1, s.y)
      /\ [s EXCEPT !.x = 1] = Moved(s, 1, s.y)
  BY <1>1 DEF Frames, Moved
<1>6. NL # CR /\ NL # BS /\ CR # BS
  BY DEF NL, CR, BS
<1>7. ASSUME c = NL PROVE Advance(s, c) = Moved(s, 1, s.y + 1)
  BY <1>3, <1>5, <1>6, <1>7 DEF Advance
<1>8. ASSUME c = CR PROVE Advance(s, c) = Moved(s, 1, s.y)
  BY <1>5, <1>6, <1>8 DEF Advance
<1>9. ASSUME c = BS
      PROVE  Advance(s, c) = Moved(s, IF s.x - 1 >= s.minx THEN s.x - 1 ELSE s.minx,
                                      IF s.y >= s.miny THEN s.y ELSE s.miny)
  BY <1>4, <1>6, <1>9 DEF Advance, Moved
<1>10. ASSUME c # NL, c # CR, c # BS PROVE Advance(s, c) = Moved(s, s.x + 1, s.y)
  BY <1>3, <1>5, <1>10 DEF Advance
<1> QED
  BY <1>7, <1>8, <1>9, <1>10

\* Whatever is written from a writable screen, the cursor ends where the next character
\* has room, and the prompt stays where it is.
LEMMA WriteChar ==
    ASSUME NEW s, Writable(s), NEW c
    PROVE  /\ Settled(write_screen_char(s, c))
           /\ write_screen_char(s, c).minx = s.minx /\ write_screen_char(s, c).miny = s.miny
<1> DEFINE m == Advance(s, c)
           v == Wrap(m)
           In(t, right, bottom) ==
             /\ t \in Frames /\ t.x \in 1..right /\ t.y \in 0..bottom
             /\ t.minx = s.minx /\ t.miny = s.miny
<1>1. Cols \in Nat /\ Rows \in Nat /\ Cols >= 4 /\ Rows >= 3
  BY ConsoleAssumption
<1>2. /\ In(s, Cols + 1, Rows - 1) /\ s.minx \in 1..Cols /\ s.miny \in 0..(Rows - 2)
      /\ (s.x > Cols => s.y <= Rows - 2)
  BY ScreenFrames DEF Writable
<1>3. ASSUME NEW a \in 1..(Cols + 2), NEW b \in 0..Rows
      PROVE  /\ In(Moved(s, a, b), Cols + 2, Rows)
             /\ Moved(s, a, b).x = a /\ Moved(s, a, b).y = b
  <2>1. a \in Int /\ b \in Int
    BY <1>1
  <2>2. /\ Moved(s, a, b) \in Frames
        /\ Moved(s, a, b).x = a /\ Moved(s, a, b).y = b
        /\ Moved(s, a, b).minx = s.minx /\ Moved(s, a, b).miny = s.miny
    BY <1>2, <2>1, Fields
  <2> QED
    BY <1>1, <2>2
<1>4. In(m, Cols + 2, Rows) /\ (m.x > Cols => m.y <= Rows - 1)
  <2>1. CASE c = NL
    <3>1. 1 \in 1..(Cols + 2) /\ s.y + 1 \in 0..Rows /\ m = Moved(s, 1, s.y + 1)
      BY <1>1, <1>2, <2>1, Advanced
    <3> QED
      BY <1>1, <1>2, <1>3, <3>1
  <2>2. CASE c = CR
    <3>1. 1 \in 1..(Cols + 2) /\ s.y \in 0..Rows /\ m = Moved(s, 1, s.y)
      BY <1>1, <1>2, <2>2, Advanced
    <3> QED
      BY <1>1, <1>2, <1>3, <3>1
  <2>3. CASE c = BS
    <3>1. PICK a \in 1..Cols, b \in 0..Rows : m = Moved(s, a, b)
      BY <1>1, <1>2, <2>3, Advanced
    <3> QED
      BY <1>1, <1>2, <1>3, <3>1
  <2>4. CASE c # NL /\ c # CR /\ c # BS
    <3>1. s.x + 1 \in 1..(Cols + 2) /\ s.y \in 0..Rows /\ m = Moved(s, s.x + 1, s.y)
      BY <1>1, <1>2, <2>4, Advanced
    <3> QED
      BY <1>1, <1>2, <1>3, <3>1
  <2> QED
    BY <2>1, <2>2, <2>3, <2>4
<1> HIDE DEF m
<1>5. In(v, Cols, Rows)
  <2>1. CASE m.x > Cols
    <3>1. v = Moved(m, 1, m.y + 1) /\ m.y + 1 \in 0..Rows
      BY <1>1, <1>4, <2>1 DEF Wrap, Moved
    <3> QED
      BY <1>1, <1>4, <3>1, Fields
  <2>2. CASE m.x <= Cols
    BY <1>1, <1>4, <2>2 DEF Wrap
  <2> QED
    BY <1>1, <1>4, <2>1, <2>2
<1> HIDE DEF v
<1>6. In(Scroll(v), Cols, Rows - 2)
  <2>1. CASE v.y >= Rows - 1
    <3>1. Scroll(v) = Moved(v, 1, Rows - 2) /\ Rows - 2 \in 0..(Rows - 2)
      BY <1>1, <2>1 DEF Scroll, Moved
    <3> QED
      BY <1>1, <1>5, <3>1, Fields
  <2>2. CASE v.y < Rows - 1
    BY <1>1, <1>5, <2>2 DEF Scroll
  <2> QED
    BY <1>1, <1>5, <2>1, <2>2
<1>7. write_screen_char(s, c) = Scroll(v)
  BY DEF write_screen_char, v, m
<1> HIDE DEF v
<1>8. Settled(Scroll(v))
  BY <1>1, <1>2, <1>6, ScreenFrames DEF Settled
<1> QED
  BY <1>6, <1>7, <1>8

LEMMA SettledWritable == \A s : Settled(s) => Writable(s)
<1>1. Cols \in Nat /\ Rows \in Nat
  BY ConsoleAssumption
<1> QED
  BY <1>1, ScreenFrames DEF Settled, Writable

\* The fields of a screen, with their bounds.
LEMMA WritableFields ==
    ASSUME NEW s, Writable(s)
    PROVE  s \in Frames /\ s.x \in Int /\ s.y \in Int /\ s.minx \in Int /\ s.miny \in Int
<1>1. s \in Frames
  BY ScreenFrames DEF Writable
<1> QED
  BY <1>1 DEF Frames

LEMMA SettledFields ==
    ASSUME NEW s, Settled(s)
    PROVE  /\ s \in Frames /\ s.x \in 1..Cols /\ s.y \in 0..(Rows - 2)
           /\ s.minx \in 1..Cols /\ s.miny \in 0..(Rows - 2)
           /\ s.x \in Int /\ s.y \in Int
<1>1. Cols \in Nat /\ Rows \in Nat
  BY ConsoleAssumption
<1> QED
  BY <1>1, ScreenFrames DEF Settled

LEMMA SettledBounds == \A s : Settled(s) => ~(s.x > Cols) /\ ~(s.y > Rows - 2)
<1>1. Cols \in Nat /\ Rows \in Nat
  BY ConsoleAssumption
<1> QED
  BY <1>1, SettledFields

----------------------------------------------------------------------------
(***************************************************************************)
(* What is written through the serial port.                                *)
(***************************************************************************)
\* Nobody but the shell listens.
Alone == \A i \in 2..ListenerSlots : listeners[i] = 0

\* A screen to write on through the port: nothing is written if nobody listens.
Ready(s) == Alone /\ Writable(s) /\ (listeners[1] = 0 => Settled(s))

Kept(s, t) == Settled(t) /\ t.minx = s.minx /\ t.miny = s.miny

LEMMA KeptTwice ==
    ASSUME NEW r, NEW s, NEW t, Kept(r, s), Kept(s, t)
    PROVE  Kept(r, t)
  BY DEF Kept

LEMMA KeptReady ==
    ASSUME NEW r, NEW s, Alone, Kept(r, s)
    PROVE  Ready(s)
  BY SettledWritable DEF Kept, Ready

LEMMA SerialKept ==
    ASSUME NEW s, NEW c, Ready(s)
    PROVE  Kept(s, serial_write(s, c))
<1>1. serial_write(s, c) = IF listeners[1] # 0 THEN write_screen_char(s, c) ELSE s
  BY ToFirst DEF Ready, Alone
<1>2. Kept(s, write_screen_char(s, c))
  BY WriteChar DEF Ready, Kept
<1>3. listeners[1] = 0 => Kept(s, s)
  BY DEF Ready, Kept
<1> QED
  BY <1>1, <1>2, <1>3

LEMMA PutcKept ==
    ASSUME NEW s, NEW c, Ready(s)
    PROVE  Kept(s, kputc(s, c))
<1> DEFINE a == serial_write(s, c)
           b == serial_write(a, Space)
           d == serial_write(b, BS)
           e == serial_write(a, CR)
<1>0. Alone
  BY DEF Ready
<1>1. Kept(s, a) /\ Ready(a)
  BY <1>0, SerialKept, KeptReady
<1>2. kputc(s, c) = a \/ kputc(s, c) = d \/ kputc(s, c) = e
  BY DEF kputc
<1> HIDE DEF a
<1>3. Kept(a, b) /\ Ready(b)
  BY <1>0, <1>1, SerialKept, KeptReady
<1>4. Kept(a, e)
  BY <1>1, SerialKept
<1> HIDE DEF b, e
<1>5. Kept(b, d)
  BY <1>3, SerialKept
<1> HIDE DEF d
<1>6. Kept(a, d)
  BY <1>3, <1>5, KeptTwice
<1>7. Kept(s, d) /\ Kept(s, e)
  BY <1>1, <1>4, <1>6, KeptTwice
<1> QED
  BY <1>1, <1>2, <1>7

LEMMA PrintKept ==
    ASSUME NEW s, NEW a, Ready(s)
    PROVE  Kept(s, kprintf(s, <<a>>))
  BY PutcKept, Print1

LEMMA PrintTwoKept ==
    ASSUME NEW s, NEW a, NEW b, Ready(s)
    PROVE  Kept(s, kprintf(s, <<a, b>>))
<1>1. Kept(s, kputc(s, a)) /\ Ready(kputc(s, a))
  BY PutcKept, KeptReady DEF Ready
<1>2. Kept(kputc(s, a), kputc(kputc(s, a), b))
  BY <1>1, PutcKept
<1>3. Kept(s, kputc(kputc(s, a), b))
  BY <1>1, <1>2, KeptTwice
<1> QED
  BY <1>3, Print2

LEMMA WriteKept ==
    ASSUME NEW s, NEW a, NEW b, Writable(s)
    PROVE  Kept(s, write_screen(s, <<a, b>>))
<1> DEFINE t == write_screen_char(s, a)
<1>1. Kept(s, t) /\ Writable(t)
  BY WriteChar, SettledWritable DEF Kept
<1> HIDE DEF t
<1>2. Kept(t, write_screen_char(t, b))
  BY <1>1, WriteChar DEF Kept
<1>3. Kept(s, write_screen_char(t, b))
  BY <1>1, <1>2, KeptTwice
<1> QED
  BY <1>3, Write2 DEF t

\* Every command leaves the cursor on the screen.
LEMMA ExecKept ==
    ASSUME NEW s, Alone, Settled(s)
    PROVE  Settled(exec_command(s))
<1>1. Writable(s) /\ Ready(s)
  BY SettledWritable DEF Ready
<1>2. Settled(write_screen(s, <<Letter, NL>>)) /\ Settled(kprintf(s, <<Letter, NL>>))
  BY <1>1, WriteKept, PrintTwoKept DEF Kept
<1>3. Settled([s EXCEPT !.x = 1, !.y = 0])
  <2>1. Cols \in Nat /\ Rows \in Nat /\ Cols >= 4 /\ Rows >= 3
    BY ConsoleAssumption
  <2>2. s \in Frames /\ s.minx \in 1..Cols /\ s.miny \in 0..(Rows - 2)
    BY ScreenFrames DEF Settled
  <2>3. /\ Moved(s, 1, 0) \in Frames /\ Moved(s, 1, 0).x = 1 /\ Moved(s, 1, 0).y = 0
        /\ Moved(s, 1, 0).minx = s.minx /\ Moved(s, 1, 0).miny = s.miny
    BY <2>2, Fields
  <2>4. Settled(Moved(s, 1, 0))
    BY <2>1, <2>2, <2>3, ScreenFrames DEF Settled
  <2> QED
    BY <2>4 DEF Moved
<1>4. \/ exec_command(s) = write_screen(s, <<Letter, NL>>)
      \/ exec_command(s) = [s EXCEPT !.x = 1, !.y = 0]
      \/ exec_command(s) = kprintf(s, <<Letter, NL>>)
      \/ exec_command(s) = s
  BY DEF exec_command
<1> QED
  BY <1>2, <1>3, <1>4

\* The keyboard leaves the cursor on the screen, wherever it found it.
LEMMA GetchSettled ==
    ASSUME Ready(screen), NEW c \in Int, getch(c)
    PROVE  Settled(screen')
<1> DEFINE s == kprintf(screen, <<c>>)
           e == exec_command(s)
           p == write_screen(e, Prompt)
<1>1. Settled(s)
  BY PrintKept DEF Kept
<1> HIDE DEF s
<1>2. CASE c = NL
  <2>1. screen' = e \/ screen' = [p EXCEPT !.minx = p.x, !.miny = p.y]
    BY <1>2 DEF getch, getch_enter, NL, BS, Printable, Space, s
  <2>2. Settled(e)
    BY <1>1, ExecKept DEF Ready
  <2> HIDE DEF e
  <2>3. Settled(p)
    BY <2>2, SettledWritable, WriteKept DEF Kept, Prompt
  <2> HIDE DEF p
  <2>4. Settled([p EXCEPT !.minx = p.x, !.miny = p.y])
    <3> DEFINE q == [p EXCEPT !.minx = p.x, !.miny = p.y]
    <3>1. p \in Frames /\ p.x \in 1..Cols /\ p.y \in 0..(Rows - 2) /\ p.y \in 0..(Rows - 1)
          /\ p.x \in 1..(Cols + 1)
      <4>1. Cols \in Nat /\ Rows \in Nat
        BY ConsoleAssumption
      <4> QED
        BY <2>3, <4>1, ScreenFrames DEF Settled
    <3>2. q \in Frames /\ q.x = p.x /\ q.y = p.y /\ q.minx = p.x /\ q.miny = p.y
      BY <3>1 DEF Frames
    <3> HIDE DEF q
    <3>3. Settled(q)
      BY <2>3, <3>1, <3>2, ScreenFrames DEF Settled
    <3> QED
      BY <3>3 DEF q
  <2> QED
    BY <2>1, <2>2, <2>4
<1>3. CASE c # NL
  <2>1. screen' = s
    BY <1>3 DEF getch, getch_backspace, getch_text, s
  <2> QED
    BY <1>1, <2>1
<1> QED
  BY <1>2, <1>3

----------------------------------------------------------------------------
(***************************************************************************)
(* The steps of the shell process.                                         *)
(***************************************************************************)
\* Where the cursor may be, in bounds: the invariant with the types out of the way.
CursorInv ==
    /\ screen \in Frames
    /\ screen.minx \in 1..Cols /\ screen.miny \in 0..(Rows - 2)
    /\ screen.x \in 1..(Cols + 1) /\ screen.y \in 0..(Rows - 1)
    /\ screen.x > Cols => screen.y <= Rows - 2
    /\ screen.x > Cols => shell.pc \in {"put", "newline", "wrap", "full"}
    /\ screen.y > Rows - 2 => shell.pc \in {"wrap", "scroll", "scroll_y"}

LEMMA CursorScreen == ScreenInv <=> CursorInv
  BY ScreenFrames DEF ScreenInv, CursorInv, Writable

LEMMA CursorScreenNext == ScreenInv' <=> CursorInv'
  BY ScreenFrames DEF ScreenInv, CursorInv, Writable

\* One of the fields of the cursor is assigned.
LEMMA CursorX ==
    ASSUME screen \in Frames, NEW a \in Int, Cursor("x", a)
    PROVE  /\ screen' \in Frames /\ screen'.x = a /\ screen'.y = screen.y
           /\ screen'.minx = screen.minx /\ screen'.miny = screen.miny
  BY DEF Cursor, Frames

LEMMA CursorY ==
    ASSUME screen \in Frames, NEW a \in Int, Cursor("y", a)
    PROVE  /\ screen' \in Frames /\ screen'.x = screen.x /\ screen'.y = a
           /\ screen'.minx = screen.minx /\ screen'.miny = screen.miny
  BY DEF Cursor, Frames

\* Where the shell goes.
LEMMA GotoFields ==
    ASSUME ShellInv, NEW from, NEW to, Goto(from, to)
    PROVE  /\ shell.pc = from /\ shell'.pc = to /\ DOMAIN shell' = DOMAIN shell
           /\ shell'.px = shell.px /\ shell'.py = shell.py
  BY DEF ShellInv, Goto

\* disp_str at the position that was read writes inside the frame buffer.
LEMMA PutFields ==
    ASSUME ShellInv, screen \in Frames, NEW from, NEW to, Put(from, to),
           from \in {"put", "cursor"}
    PROVE  /\ shell.pc = from /\ shell'.pc = to /\ DOMAIN shell' = DOMAIN shell
           /\ shell'.px = 0 /\ shell'.py = 0
           /\ screen' = screen
<1>1. Cols \in Nat /\ Rows \in Nat /\ Rows >= 3
  BY ConsoleAssumption
<1>2. shell.pc = from
  BY DEF Put
<1>3. ~OffScreen(shell.px, shell.py)
  <2>1. /\ shell.px \in 1..(Cols + 1) /\ shell.py \in 0..(Rows - 1)
        /\ (shell.px > Cols => shell.py <= Rows - 2)
    BY <1>1, <1>2 DEF ShellInv
  <2> QED
    BY <2>1, Inside
<1>4. screen.off = FALSE /\ DOMAIN screen = {"x", "y", "minx", "miny", "off"}
  BY DEF Frames
<1>5. screen' = [screen EXCEPT !.off = FALSE]
  BY <1>3, <1>4 DEF Put
<1>6. screen' = screen
  BY <1>5 DEF Frames
<1>7. /\ shell'.pc = to /\ DOMAIN shell' = DOMAIN shell
      /\ shell'.px = 0 /\ shell'.py = 0
  BY DEF Put, ShellInv
<1> QED
  BY <1>2, <1>6, <1>7

\* x and y are read.
LEMMA ReadFields ==
    ASSUME ShellInv, NEW to,
           shell' = [shell EXCEPT !.px = screen.x, !.py = screen.y, !.pc = to]
    PROVE  /\ shell'.pc = to /\ DOMAIN shell' = DOMAIN shell
           /\ shell'.px = screen.x /\ shell'.py = screen.y
  BY DEF ShellInv

LEMMA RowFields ==
    ASSUME ShellInv, CursorInv, NEW place, NEW load, NEW store, NEW then,
           NextRow(place, load, store, then),
           place \notin {"wrap", "scroll", "scroll_y"},
           load \notin {"store", "put", "cursor", "newline", "wrap", "full", "scroll", "scroll_y"},
           store \notin {"store", "put", "cursor", "newline", "wrap", "full", "scroll", "scroll_y"},
           then \in {"wrap", "scroll"}
    PROVE  ShellInv' /\ CursorInv'
<1>1. Cols \in Nat /\ Rows \in Nat /\ Cols >= 4 /\ Rows >= 3
  BY ConsoleAssumption
<1>2. CASE Goto(place, load) /\ Cursor("x", 1)
  <2>1. /\ shell.pc = place /\ shell'.pc = load /\ DOMAIN shell' = DOMAIN shell
        /\ shell'.px = shell.px /\ shell'.py = shell.py
    BY <1>2, GotoFields
  <2>2. /\ screen' \in Frames /\ screen'.x = 1 /\ screen'.y = screen.y
        /\ screen'.minx = screen.minx /\ screen'.miny = screen.miny
    BY <1>2, CursorX DEF CursorInv
  <2>3. ShellInv'
    BY <2>1 DEF ShellInv
  <2>4. screen.y <= Rows - 2
    BY <1>1, <2>1 DEF CursorInv
  <2>5. CursorInv'
    BY <1>1, <2>1, <2>2, <2>4 DEF CursorInv
  <2> QED
    BY <2>3, <2>5
<1>3. CASE /\ shell.pc = load /\ UNCHANGED screen
           /\ shell' = [shell EXCEPT !.py = screen.y, !.pc = store]
  <2>1. /\ shell'.pc = store /\ DOMAIN shell' = DOMAIN shell
        /\ shell'.px = shell.px /\ shell'.py = screen.y
    BY <1>3 DEF ShellInv
  <2>2. screen.y \in 0..(Rows - 2) /\ screen.x \in 1..Cols
    BY <1>1, <1>3 DEF CursorInv
  <2>3. ShellInv'
    BY <2>1, <2>2 DEF ShellInv
  <2>4. CursorInv'
    BY <1>1, <1>3, <2>1, <2>2 DEF CursorInv
  <2> QED
    BY <2>3, <2>4
<1>4. CASE /\ shell.pc = store /\ shell' = [shell EXCEPT !.pc = then, !.py = 0]
           /\ Cursor("y", shell.py + 1)
  <2>1. /\ shell'.pc = then /\ DOMAIN shell' = DOMAIN shell
        /\ shell'.px = shell.px /\ shell'.py = 0
    BY <1>4 DEF ShellInv
  <2>2. shell.py + 1 \in 0..(Rows - 1) /\ screen.x \in 1..Cols
    BY <1>1, <1>4 DEF ShellInv, CursorInv
  <2>3. /\ screen' \in Frames /\ screen'.x = screen.x /\ screen'.y = shell.py + 1
        /\ screen'.minx = screen.minx /\ screen'.miny = screen.miny
    BY <1>4, <2>2, CursorY DEF CursorInv
  <2>4. ShellInv'
    BY <1>1, <2>1 DEF ShellInv
  <2>5. CursorInv'
    BY <1>1, <2>1, <2>2, <2>3 DEF CursorInv
  <2> QED
    BY <2>4, <2>5
<1> QED
  BY <1>2, <1>3, <1>4 DEF NextRow

\* One character of the greeting, up to the scroll.
LEMMA GreetInv ==
    ASSUME ShellInv, CursorInv, greet_next \/ greet_put \/ greet_newline \/ greet_wrap
    PROVE  ShellInv' /\ CursorInv'
<1>1. Cols \in Nat /\ Rows \in Nat /\ Cols >= 4 /\ Rows >= 3
  BY ConsoleAssumption
<1>2. CASE greet_next
  <2>1. shell.pc = "next"
    BY <1>2 DEF greet_next
  <2>2. screen.x \in 1..Cols /\ screen.y \in 0..(Rows - 2)
    BY <1>1, <2>1 DEF CursorInv
  <2>3. CASE \E to \in {"put", "store"} :
               /\ shell' = [shell EXCEPT !.px = screen.x, !.py = screen.y, !.pc = to]
               /\ UNCHANGED screen
    <3>1. PICK to \in {"put", "store"} :
               /\ shell' = [shell EXCEPT !.px = screen.x, !.py = screen.y, !.pc = to]
               /\ UNCHANGED screen
      BY <2>3
    <3>2. /\ shell'.pc = to /\ DOMAIN shell' = DOMAIN shell
          /\ shell'.px = screen.x /\ shell'.py = screen.y
      BY <3>1, ReadFields
    <3>3. ShellInv'
      BY <1>1, <2>2, <3>1, <3>2 DEF ShellInv
    <3>4. CursorInv'
      BY <1>1, <2>2, <3>1, <3>2 DEF CursorInv
    <3> QED
      BY <3>3, <3>4
  <2>4. CASE Goto("next", "wrap") /\ Cursor("x", 1)
    <3>1. /\ shell'.pc = "wrap" /\ DOMAIN shell' = DOMAIN shell
          /\ shell'.px = shell.px /\ shell'.py = shell.py
      BY <2>4, GotoFields
    <3>2. /\ screen' \in Frames /\ screen'.x = 1 /\ screen'.y = screen.y
          /\ screen'.minx = screen.minx /\ screen'.miny = screen.miny
      BY <2>4, CursorX DEF CursorInv
    <3>3. ShellInv'
      BY <3>1 DEF ShellInv
    <3>4. CursorInv'
      BY <1>1, <2>2, <3>1, <3>2 DEF CursorInv
    <3> QED
      BY <3>3, <3>4
  <2> QED
    BY <1>2, <2>3, <2>4 DEF greet_next, Position
<1>3. CASE greet_put
  <2>1. CASE Goto("store", "put") /\ Cursor("x", shell.px + 1)
    <3>1. /\ shell.pc = "store" /\ shell'.pc = "put" /\ DOMAIN shell' = DOMAIN shell
          /\ shell'.px = shell.px /\ shell'.py = shell.py
      BY <2>1, GotoFields
    <3>2. shell.px + 1 \in 1..(Cols + 1) /\ shell.px + 1 \in Int /\ screen.y \in 0..(Rows - 2)
      BY <1>1, <3>1 DEF ShellInv, CursorInv
    <3>3. /\ screen' \in Frames /\ screen'.x = shell.px + 1 /\ screen'.y = screen.y
          /\ screen'.minx = screen.minx /\ screen'.miny = screen.miny
      BY <2>1, <3>2, CursorX DEF CursorInv
    <3>4. ShellInv'
      BY <3>1 DEF ShellInv
    <3>5. CursorInv'
      BY <1>1, <3>1, <3>2, <3>3 DEF CursorInv
    <3> QED
      BY <3>4, <3>5
  <2>2. CASE \E to \in {"newline", "wrap"} : Put("put", to)
    <3>1. PICK to \in {"newline", "wrap"} : Put("put", to)
      BY <2>2
    <3>2. /\ shell.pc = "put" /\ shell'.pc = to /\ DOMAIN shell' = DOMAIN shell
          /\ shell'.px = 0 /\ shell'.py = 0 /\ screen' = screen
      BY <3>1, PutFields DEF CursorInv
    <3>3. ShellInv'
      BY <1>1, <3>2 DEF ShellInv
    <3>4. CursorInv'
      BY <1>1, <3>2 DEF CursorInv
    <3> QED
      BY <3>3, <3>4
  <2>3. (IF Head(shell.todo) = NL THEN "newline" ELSE "wrap") \in {"newline", "wrap"}
    OBVIOUS
  <2> QED
    BY <1>3, <2>1, <2>2, <2>3 DEF greet_put
<1>4. CASE greet_newline
  BY <1>4, RowFields DEF greet_newline
<1>5. CASE greet_wrap
  <2>1. CASE /\ Goto("wrap", IF screen.x > Cols THEN "full" ELSE "scroll")
             /\ UNCHANGED screen
    <3>1. CASE screen.x > Cols
      <4>1. Goto("wrap", "full")
        BY <2>1, <3>1
      <4>2. /\ shell'.pc = "full" /\ DOMAIN shell' = DOMAIN shell
            /\ shell'.px = shell.px /\ shell'.py = shell.py
        BY <4>1, GotoFields
      <4> QED
        BY <1>1, <2>1, <3>1, <4>2 DEF ShellInv, CursorInv
    <3>2. CASE ~(screen.x > Cols)
      <4>1. Goto("wrap", "scroll")
        BY <2>1, <3>2
      <4>2. /\ shell'.pc = "scroll" /\ DOMAIN shell' = DOMAIN shell
            /\ shell'.px = shell.px /\ shell'.py = shell.py
        BY <4>1, GotoFields
      <4> QED
        BY <1>1, <2>1, <3>2, <4>2 DEF ShellInv, CursorInv
    <3> QED
      BY <3>1, <3>2
  <2>2. CASE NextRow("full", "full_load", "full_store", "scroll")
    BY <2>2, RowFields
  <2> QED
    BY <1>5, <2>1, <2>2 DEF greet_wrap
<1> QED
  BY <1>2, <1>3, <1>4, <1>5

\* The scroll, the prompt and the blinking cursor.
LEMMA LoopInv ==
    ASSUME ShellInv, CursorInv, greet_scroll \/ greet_prompt \/ blink
    PROVE  ShellInv' /\ CursorInv'
<1>1. Cols \in Nat /\ Rows \in Nat /\ Cols >= 4 /\ Rows >= 3
  BY ConsoleAssumption
<1>2. CASE screen.y >= Rows - 1 /\ Goto("scroll", "scroll_y") /\ UNCHANGED screen
  <2>1. /\ shell.pc = "scroll" /\ shell'.pc = "scroll_y" /\ DOMAIN shell' = DOMAIN shell
        /\ shell'.px = shell.px /\ shell'.py = shell.py
    BY <1>2, GotoFields
  <2> QED
    BY <1>1, <1>2, <2>1 DEF ShellInv, CursorInv
<1>3. CASE Goto("scroll_y", "scroll_x") /\ Cursor("y", Rows - 2)
  <2>1. /\ shell.pc = "scroll_y" /\ shell'.pc = "scroll_x" /\ DOMAIN shell' = DOMAIN shell
        /\ shell'.px = shell.px /\ shell'.py = shell.py
    BY <1>3, GotoFields
  <2>2. /\ screen' \in Frames /\ screen'.x = screen.x /\ screen'.y = Rows - 2
        /\ screen'.minx = screen.minx /\ screen'.miny = screen.miny
    BY <1>1, <1>3, CursorY DEF CursorInv
  <2> QED
    BY <1>1, <2>1, <2>2 DEF ShellInv, CursorInv
<1>4. CASE /\ \/ shell.pc = "scroll" /\ screen.y < Rows - 1 /\ UNCHANGED screen
              \/ shell.pc = "scroll_x" /\ Cursor("x", 1)
           /\ shell' = [shell EXCEPT !.pc = "next", !.todo = Tail(shell.todo)]
  <2>1. /\ shell'.pc = "next" /\ DOMAIN shell' = DOMAIN shell
        /\ shell'.px = shell.px /\ shell'.py = shell.py
    BY <1>4 DEF ShellInv
  <2>2. /\ screen' \in Frames /\ screen'.x \in 1..Cols /\ screen'.y \in 0..(Rows - 2)
        /\ screen'.minx = screen.minx /\ screen'.miny = screen.miny
    <3>1. CASE shell.pc = "scroll" /\ screen.y < Rows - 1 /\ UNCHANGED screen
      BY <1>1, <3>1 DEF CursorInv
    <3>2. CASE shell.pc = "scroll_x" /\ Cursor("x", 1)
      <4>1. /\ screen' \in Frames /\ screen'.x = 1 /\ screen'.y = screen.y
            /\ screen'.minx = screen.minx /\ screen'.miny = screen.miny
        BY <3>2, CursorX DEF CursorInv
      <4> QED
        BY <1>1, <3>2, <4>1 DEF CursorInv
    <3> QED
      BY <1>4, <3>1, <3>2
  <2>3. ShellInv'
    BY <2>1 DEF ShellInv
  <2>4. CursorInv'
    BY <1>1, <2>1, <2>2 DEF CursorInv
  <2> QED
    BY <2>3, <2>4
<1>5. CASE Goto("next", "miny") /\ Cursor("minx", screen.x)
  <2>1. /\ shell.pc = "next" /\ shell'.pc = "miny" /\ DOMAIN shell' = DOMAIN shell
        /\ shell'.px = shell.px /\ shell'.py = shell.py
    BY <1>5, GotoFields
  <2>2. /\ screen' \in Frames /\ screen'.x = screen.x /\ screen'.y = screen.y
        /\ screen'.minx = screen.x /\ screen'.miny = screen.miny
    BY <1>5 DEF CursorInv, Cursor, Frames
  <2> QED
    BY <1>1, <2>1, <2>2 DEF ShellInv, CursorInv
<1>6. CASE Goto("miny", "loop") /\ Cursor("miny", screen.y)
  <2>1. /\ shell.pc = "miny" /\ shell'.pc = "loop" /\ DOMAIN shell' = DOMAIN shell
        /\ shell'.px = shell.px /\ shell'.py = shell.py
    BY <1>6, GotoFields
  <2>2. /\ screen' \in Frames /\ screen'.x = screen.x /\ screen'.y = screen.y
        /\ screen'.minx = screen.minx /\ screen'.miny = screen.y
    BY <1>6 DEF CursorInv, Cursor, Frames
  <2> QED
    BY <1>1, <2>1, <2>2 DEF ShellInv, CursorInv
<1>7. CASE blink
  <2>1. CASE /\ shell.pc = "loop" /\ UNCHANGED screen
             /\ shell' = [shell EXCEPT !.px = screen.x, !.py = screen.y, !.pc = "cursor"]
    <3>1. /\ shell'.pc = "cursor" /\ DOMAIN shell' = DOMAIN shell
          /\ shell'.px = screen.x /\ shell'.py = screen.y
      BY <2>1, ReadFields
    <3>2. screen.x \in 1..Cols /\ screen.y \in 0..(Rows - 2)
      BY <1>1, <2>1 DEF CursorInv
    <3> QED
      BY <1>1, <2>1, <3>1, <3>2 DEF ShellInv, CursorInv
  <2>2. CASE Put("cursor", "loop")
    <3>1. /\ shell.pc = "cursor" /\ shell'.pc = "loop" /\ DOMAIN shell' = DOMAIN shell
          /\ shell'.px = 0 /\ shell'.py = 0 /\ screen' = screen
      BY <2>2, PutFields DEF CursorInv
    <3> QED
      BY <1>1, <3>1 DEF ShellInv, CursorInv
  <2> QED
    BY <1>7, <2>1, <2>2 DEF blink
<1> QED
  BY <1>2, <1>3, <1>4, <1>5, <1>6, <1>7 DEF greet_scroll, greet_prompt

\* The shell's listener is there from its first step to its last.
LEMMA Running ==
    ASSUME ShellInv, greet_next \/ greet_put \/ greet_newline \/ greet_wrap \/ greet_scroll
                       \/ greet_prompt \/ blink
    PROVE  shell.pc \notin {"start", "done"} /\ shell'.pc \notin {"start", "done"}
<1>1. CASE greet_next
  BY <1>1 DEF greet_next, Position, Goto, ShellInv
<1>2. CASE greet_put
  BY <1>2 DEF greet_put, Put, Goto, ShellInv
<1>3. CASE greet_newline
  BY <1>3 DEF greet_newline, NextRow, Goto, ShellInv
<1>4. CASE greet_wrap
  BY <1>4 DEF greet_wrap, NextRow, Goto, ShellInv
<1>5. CASE greet_scroll
  BY <1>5 DEF greet_scroll, Goto, ShellInv
<1>6. CASE greet_prompt
  BY <1>6 DEF greet_prompt, Goto, ShellInv
<1>7. CASE blink
  BY <1>7 DEF blink, Put, ShellInv
<1> QED
  BY <1>1, <1>2, <1>3, <1>4, <1>5, <1>6, <1>7

LEMMA StartInv ==
    ASSUME ShellInv, CursorInv, ListenerInv, eshell_start
    PROVE  ShellInv' /\ CursorInv' /\ ListenerInv'
<1>1. Cols \in Nat /\ Rows \in Nat /\ Cols >= 4 /\ Rows >= 3
      /\ ListenerSlots \in Nat /\ ListenerSlots >= 1
  BY ConsoleAssumption
<1>2. /\ shell.pc = "start" /\ shell'.pc = "next" /\ DOMAIN shell' = DOMAIN shell
      /\ shell'.px = shell.px /\ shell'.py = shell.py
  BY GotoFields DEF eshell_start
<1>3. Settled(screen')
  <2> DEFINE s1 == write_screen_char(screen, Letter)
             s2 == write_screen_char(s1, NL)
             s3 == write_screen_char(s2, Letter)
  <2>1. screen' = s3
    BY Write3 DEF eshell_start, Warning
  <2>2. Writable(screen)
    BY CursorScreen DEF ScreenInv
  <2>3. Writable(s1)
    BY <2>2, WriteChar, SettledWritable
  <2> HIDE DEF s1
  <2>4. Writable(s2)
    BY <2>3, WriteChar, SettledWritable
  <2> HIDE DEF s2
  <2>5. Settled(s3)
    BY <2>4, WriteChar
  <2> QED
    BY <2>1, <2>5
<1>4. CursorInv'
  BY <1>1, <1>3, ScreenFrames DEF Settled, CursorInv
<1>5. ShellInv'
  BY <1>2 DEF ShellInv
<1>6. ListenerInv'
  <2> DEFINE free == {i \in 1..ListenerSlots : listeners[i] = 0}
  <2>1. free = 1..ListenerSlots
    BY <1>1, <1>2 DEF ListenerInv
  <2>2. Min(1..ListenerSlots) = 1
    <3>1. 1 \in 1..ListenerSlots /\ \A y \in 1..ListenerSlots : 1 <= y
      BY <1>1
    <3>2. \A z \in 1..ListenerSlots : (\A y \in 1..ListenerSlots : z <= y) => z = 1
      BY <1>1
    <3> QED
      BY <3>1, <3>2 DEF Min
  <2>3. free # {}
    BY <1>1, <2>1
  <2>4. listeners' = [listeners EXCEPT ![1] = driver_key]
    BY <2>1, <2>2, <2>3 DEF eshell_start, register_serial_listener
  <2> QED
    BY <1>1, <1>2, <2>4 DEF ListenerInv, driver_key
<1> QED
  BY <1>4, <1>5, <1>6

LEMMA EndInv ==
    ASSUME ShellInv, CursorInv, ListenerInv, eshell_end, UNCHANGED screen
    PROVE  ShellInv' /\ CursorInv' /\ ListenerInv'
<1>1. Cols \in Nat /\ Rows \in Nat /\ Cols >= 4 /\ Rows >= 3
      /\ ListenerSlots \in Nat /\ ListenerSlots >= 1
  BY ConsoleAssumption
<1>2. CASE Goto("loop", "deregister") /\ UNCHANGED listeners
  <2>1. /\ shell.pc = "loop" /\ shell'.pc = "deregister" /\ DOMAIN shell' = DOMAIN shell
        /\ shell'.px = shell.px /\ shell'.py = shell.py
    BY <1>2, GotoFields
  <2> QED
    BY <1>1, <1>2, <2>1 DEF ShellInv, CursorInv, ListenerInv
<1>3. CASE Goto("deregister", "done") /\ deregister_serial_listener(driver_key)
  <2>1. /\ shell.pc = "deregister" /\ shell'.pc = "done" /\ DOMAIN shell' = DOMAIN shell
        /\ shell'.px = shell.px /\ shell'.py = shell.py
    BY <1>3, GotoFields
  <2> DEFINE found == {i \in 1..ListenerSlots : listeners[i] = driver_key}
  <2>2. found = {1}
    BY <1>1, <2>1 DEF ListenerInv, driver_key
  <2>3. listeners' = [listeners EXCEPT ![1] = 0]
    BY <1>3, <2>2, MaxSmall DEF deregister_serial_listener
  <2>4. ListenerInv'
    BY <1>1, <2>1, <2>3 DEF ListenerInv, driver_key
  <2> QED
    BY <1>1, <2>1, <2>4 DEF ShellInv, CursorInv
<1> QED
  BY <1>2, <1>3 DEF eshell_end

\* The steps of the shell process keep the cursor on the screen.
LEMMA ShellScreen ==
    ASSUME ShellInv, ScreenInv, ListenerInv, eshell
    PROVE  ShellInv' /\ ScreenInv' /\ ListenerInv'
<1>1. CursorInv
  BY CursorScreen
<1>2. CASE eshell_start
  BY <1>1, <1>2, StartInv, CursorScreenNext
<1>3. CASE /\ greet_next \/ greet_put \/ greet_newline \/ greet_wrap \/ greet_scroll
                \/ greet_prompt \/ blink
           /\ UNCHANGED <<keyboard, wiring, editing>>
  <2>1. ShellInv' /\ CursorInv'
    BY <1>1, <1>3, GreetInv, LoopInv
  <2>2. shell.pc \notin {"start", "done"} /\ shell'.pc \notin {"start", "done"}
    BY <1>3, Running
  <2>3. UNCHANGED listeners
    BY <1>3 DEF wiring
  <2>4. ListenerInv'
    BY <2>2, <2>3 DEF ListenerInv
  <2> QED
    BY <2>1, <2>4, CursorScreenNext
<1>4. CASE eshell_end /\ UNCHANGED screen
  BY <1>1, <1>4, EndInv, CursorScreenNext
<1> QED
  BY <1>2, <1>3, <1>4 DEF eshell

\* The screen is ready for the keyboard wherever the shell is.
LEMMA AlwaysReady ==
    ASSUME ScreenInv, ListenerInv
    PROVE  Ready(screen)
<1>1. Alone
  BY DEF Alone, ListenerInv
<1>2. ASSUME listeners[1] = 0 PROVE Settled(screen)
  <2>1. shell.pc \in {"start", "done"}
    BY <1>2 DEF ListenerInv
  <2>2. ~(screen.x > Cols) /\ ~(screen.y > Rows - 2)
    BY <2>1 DEF ScreenInv
  <2>3. Cols \in Nat /\ Rows \in Nat
    BY ConsoleAssumption
  <2> QED
    BY <2>2, <2>3, ScreenFrames DEF ScreenInv, Writable, Settled
<1> QED
  BY <1>1, <1>2 DEF Ready, ScreenInv

LEMMA ScreenStep ==
    ASSUME ShellInv, ScreenInv, ListenerInv, [Next]_vars
    PROVE  ShellInv' /\ ScreenInv' /\ ListenerInv'
<1>1. CASE eshell
  BY <1>1, ShellScreen
<1>2. CASE ps2_handler_press
  <2>1. PICK k \in Keys :
          /\ \/ getch(get_ascii(translated_kb_codes(k), shift_down \/ caps_lock))
             \/ UNCHANGED <<screen, editing>>
          /\ UNCHANGED <<wiring, shell>>
    BY <1>2 DEF ps2_handler_press
  <2>2. UNCHANGED shell /\ UNCHANGED listeners
    BY <2>1 DEF wiring
  <2>3. ShellInv' /\ ListenerInv'
    BY <2>2 DEF ShellInv, ListenerInv
  <2>4. CASE UNCHANGED <<screen, editing>>
    BY <2>2, <2>3, <2>4 DEF ScreenInv, Writable
  <2>5. CASE getch(get_ascii(translated_kb_codes(k), shift_down \/ caps_lock))
    <3>1. Settled(screen')
      BY <2>5, Characters, AlwaysReady, GetchSettled
    <3>2. Writable(screen') /\ screen'.x <= Cols /\ screen'.y <= Rows - 2
      BY <3>1, SettledWritable DEF Settled
    <3>3. ~(screen'.x > Cols) /\ ~(screen'.y > Rows - 2)
      BY <3>1, SettledBounds
    <3>4. ScreenInv'
      BY <3>2, <3>3 DEF ScreenInv
    <3> QED
      BY <2>3, <3>4
  <2> QED
    BY <2>1, <2>4, <2>5
<1>3. CASE schedule
  <2>1. UNCHANGED shell /\ UNCHANGED listeners /\ screen' = kprintf(screen, <<Letter, NL>>)
    BY <1>3 DEF schedule, wiring, Dispatched
  <2>2. Settled(screen')
    BY <2>1, AlwaysReady, PrintTwoKept DEF Kept
  <2>3. Writable(screen') /\ ~(screen'.x > Cols) /\ ~(screen'.y > Rows - 2)
    BY <2>2, SettledWritable, SettledBounds
  <2>4. ShellInv' /\ ListenerInv'
    BY <2>1 DEF ShellInv, ListenerInv
  <2> QED
    BY <2>3, <2>4 DEF ScreenInv
<1>4. CASE ps2_handler_release \/ ps2_handler_extended \/ UNCHANGED vars
  <2>1. UNCHANGED screen /\ UNCHANGED shell /\ UNCHANGED wiring
    BY <1>4 DEF ps2_handler_release, ps2_handler_extended, vars
  <2> QED
    BY <2>1 DEF wiring, ShellInv, ScreenInv, ListenerInv, Writable
<1> QED
  BY <1>1, <1>2, <1>3, <1>4 DEF Next

LEMMA ScreenInit == Init => ShellInv /\ ScreenInv /\ ListenerInv
<1> SUFFICES ASSUME Init
             PROVE  ShellInv /\ ScreenInv /\ ListenerInv
  OBVIOUS
<1>1. Cols \in Nat /\ Rows \in Nat /\ Cols >= 4 /\ Rows >= 3
      /\ ListenerSlots \in Nat /\ ListenerSlots >= 1
  BY ConsoleAssumption
<1>2. ShellInv
  BY <1>1 DEF Init, ShellInv
<1>3. ScreenInv
  BY <1>1 DEF Init, ScreenInv, Writable, Screens
<1>4. ListenerInv
  BY <1>1 DEF Init, serial_init, ListenerInv, driver_key
<1> QED
  BY <1>2, <1>3, <1>4

\* No character is written outside the frame buffer: wherever the keyboard handler or the
\* timer's line comes in between the shell's accesses to the cursor, it starts from a cursor one past the last
\* column at most, or on the last row, and leaves one that the shell may go on from; what
\* the shell has read before is on the screen as well.
THEOREM OnScreenAlways == Spec => []OnScreen
<1> DEFINE Inv == ShellInv /\ ScreenInv /\ ListenerInv
<1>1. Init => Inv
  BY ScreenInit
<1>2. Inv /\ [Next]_vars => Inv'
  BY ScreenStep
<1>3. Inv => OnScreen
  BY DEF ScreenInv, Writable, Screens, OnScreen
<1> HIDE DEF Inv
<1> QED
  BY <1>1, <1>2, <1>3, PTL DEF Spec

\* Keys reach getch after the shell has ended, but what they echo has no listener left,
\* and schedule's lines have none: the screen stays as it was, until Enter runs a command.
THEOREM NoEchoAfterEndAlways == Spec => NoEchoAfterEnd
<1>0. Init => ConsoleInv
  BY ScreenInit DEF ConsoleInv
<1>1. ConsoleInv /\ [Next]_vars => ConsoleInv'
  BY ScreenStep DEF ConsoleInv
<1>2. ConsoleInv /\ [Next]_vars => [shell.pc = "done" /\ line' # <<>> => UNCHANGED screen]_vars
  <2> SUFFICES ASSUME ConsoleInv, Next, shell.pc = "done", line' # <<>>
               PROVE  UNCHANGED screen
    OBVIOUS
  <2>1. ~eshell
    <3>1. ~eshell_start /\ ~eshell_end /\ ~greet_next
      BY DEF eshell_start, eshell_end, Goto, greet_next
    <3>2. ~greet_put /\ ~greet_newline /\ ~greet_wrap
      BY DEF greet_put, greet_newline, greet_wrap, NextRow, Put, Goto
    <3>3. ~greet_scroll /\ ~greet_prompt /\ ~blink
      BY DEF greet_scroll, greet_prompt, blink, Put, Goto
    <3> QED
      BY <3>1, <3>2, <3>3 DEF eshell
  <2>2. \A t, d : serial_write(t, d) = t
    <3>1. listeners[1] = 0 /\ Alone
      BY DEF ConsoleInv, ListenerInv, Alone
    <3> QED
      BY <3>1, ToFirst DEF Alone
  <2>3. \A t, d : kputc(t, d) = t
    BY <2>2 DEF kputc
  <2>4. CASE ps2_handler_press
    <3>1. PICK k \in Keys :
            \/ getch(get_ascii(translated_kb_codes(k), shift_down \/ caps_lock))
            \/ UNCHANGED <<screen, editing>>
      BY <2>4 DEF ps2_handler_press
    <3> DEFINE c == get_ascii(translated_kb_codes(k), shift_down \/ caps_lock)
    <3>2. CASE getch(c)
      <4> HIDE DEF c
      <4>1. c # NL
        <5> SUFFICES ASSUME c = NL
                     PROVE  FALSE
          OBVIOUS
        <5>1. line' = <<>>
          BY <3>2 DEF getch, getch_enter, NL, BS, Printable, Space
        <5> QED
          BY <5>1
      <4>2. screen' = kprintf(screen, <<c>>)
        BY <3>2, <4>1 DEF getch, getch_backspace, getch_text
      <4> QED
        BY <2>3, <4>2, Print1
    <3> QED
      BY <3>1, <3>2
  <2>5. CASE ps2_handler_release \/ ps2_handler_extended
    BY <2>5 DEF ps2_handler_release, ps2_handler_extended
  <2>6. CASE schedule
    <3>1. screen' = kprintf(screen, <<Letter, NL>>)
      BY <2>6 DEF schedule, Dispatched
    <3> QED
      BY <2>3, <3>1, Print2
  <2> QED
    BY <2>1, <2>4, <2>5, <2>6 DEF Next
<1> QED
  BY <1>0, <1>1, <1>2, PTL DEF Spec, NoEchoAfterEnd
============================================================================
