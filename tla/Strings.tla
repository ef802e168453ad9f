----------------------------- MODULE Strings -----------------------------
(***************************************************************************)
(* The kernel's string library.  A string in memory is a buffer: a         *)
(* sequence of bytes, of which those before the first 0 are its text.      *)
(* Functions that write through a pointer return the buffer afterwards;    *)
(* kstrtok also returns its static pointer.                                *)
(***************************************************************************)
EXTENDS Naturals, Integers, Sequences, SequencesExt, FiniteSetsExt

CONSTANTS
    WordBits   \* the width of unsigned int: 32

ASSUME StringsAssumption == WordBits \in Nat \ {0}

NUL == 0
Word == 2^WordBits

\* A string literal: its characters and the terminating 0.
Literal(chars) == Append(chars, NUL)

\* Position of the first byte from p on that satisfies Stop.
Scan(s, p, Stop(_)) == CHOOSE i \in p..Len(s) : Stop(s[i]) /\ \A j \in p..(i - 1) : ~Stop(s[j])

kstrlen(s) == LET zero(c) == c = NUL IN Scan(s, 1, zero) - 1

Text(s) == [i \in 1..kstrlen(s) |-> s[i]]

\* The string a pointer into s points to.
From(s, p) == [i \in 1..(Len(s) - p + 1) |-> s[p + i - 1]]

\* The difference of the lengths, and of the first bytes that differ if they are
\* equal.
kstrcmp(s, c) ==
    LET differ == {i \in 1..kstrlen(s) : s[i] # c[i]}
    IN  IF kstrlen(s) # kstrlen(c) THEN kstrlen(s) - kstrlen(c)
        ELSE IF differ = {} THEN 0
        ELSE s[Min(differ)] - c[Min(differ)]

\* Copies `bytes' bytes of s to d, the terminating 0 only if it is among them.
kmemcpy(s, d, bytes) == [i \in DOMAIN d |-> IF i <= bytes THEN s[i] ELSE d[i]]

\* Two bytes at a time; the only value the kernel sets is 0.
kmemset(d, bytes, val) == [i \in DOMAIN d |-> IF i <= 2 * (bytes \div 2) THEN val ELSE d[i]]

\* Copies first and then second to dest.  No 0 is written after them: the last
\* statement, dest[kstrlen(dest)] = 0, writes the 0 that is there already.
kstrcat(dest, first, second) ==
    [i \in DOMAIN dest |->
        IF i <= kstrlen(first) THEN first[i]
        ELSE IF i <= kstrlen(first) + kstrlen(second) THEN second[i - kstrlen(first)]
        ELSE dest[i]]

----------------------------------------------------------------------------
\* The digits of ltostr's table: 0-9 and then A-Z.
Digit(d) == IF d < 10 THEN 48 + d ELSE 55 + d

\* Fault: the loop ends with the padding although digits are left.
ltostr_cut(number, base, padding) ==
    LET n == IF padding > 1 THEN padding ELSE 1
    IN  Literal([i \in 1..n |-> Digit((number \div base^(n - i)) % base)])

\* At least one digit, at least `padding' digits, and as many as the number has.
ltostr(number, base, padding) ==
    LET enough == CHOOSE k \in 1..WordBits : number < base^k /\ (k = 1 \/ number >= base^(k - 1))
        n      == IF padding > enough THEN padding ELSE enough
    IN  Literal([i \in 1..n |-> Digit((number \div base^(n - i)) % base)])

kstrtol(str) == FoldLeft(LAMBDA ret, c : (ret * 10 + c - 48) % Word, 0, Text(str))

----------------------------------------------------------------------------
is_delim(c, delim) == c \in ToSet(Text(delim))

Null == 0

\* Fault: the character after a delimiter is lost.
kstrtok_skip(str, static_str, to_tok, delim) ==
    LET from    == IF to_tok = Null THEN static_str ELSE to_tok
        word(c) == ~is_delim(c, delim)
        stop(c) == c = NUL \/ is_delim(c, delim)
        ret     == Scan(str, from, word)
        end     == Scan(str, ret, stop)
    IN  IF from = Null \/ str[ret] = NUL
        THEN [ret |-> Null, str |-> str, static_str |-> static_str]
        ELSE [ret |-> ret,
              str |-> [str EXCEPT ![end] = NUL],
              static_str |-> IF end < Len(str) - 1 THEN end + 2 ELSE Len(str)]

\* The next token of str: delimiters are skipped, the one after the token is
\* overwritten with 0 and static_str is left behind it.  When only delimiters are
\* left the result is Null and static_str stays as it was.  A pointer is a position
\* in str, Null the null pointer.
kstrtok(str, static_str, to_tok, delim) ==
    LET from    == IF to_tok = Null THEN static_str ELSE to_tok
        word(c) == ~is_delim(c, delim)
        stop(c) == c = NUL \/ is_delim(c, delim)
        ret     == Scan(str, from, word)
        end     == Scan(str, ret, stop)
    IN  IF from = Null \/ str[ret] = NUL
        THEN [ret |-> Null, str |-> str, static_str |-> static_str]
        ELSE [ret |-> ret,
              str |-> [str EXCEPT ![end] = NUL],
              static_str |-> IF str[end] = NUL THEN end ELSE end + 1]
==========================================================================
