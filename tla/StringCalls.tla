--------------------------- MODULE StringCalls ---------------------------
(***************************************************************************)
(* The kernel's sequences of calls to the string library: opening files,   *)
(* each walking its path with kstrtok until there are no more names, and   *)
(* numbers written by ltostr and read by kstrtol.  static_str lives on     *)
(* from one walk to the next.  The path is copied without its terminator   *)
(* to a page that nobody clears, so what the walk takes apart is the path  *)
(* and what the page held behind it, up to the first 0.                    *)
(***************************************************************************)
EXTENDS Strings, FiniteSets

CONSTANTS
    Chars,        \* the characters of paths, among them the slash
    MaxPath,      \* the longest path
    MaxRest,      \* the most that an old page holds behind it before a 0
    MaxPadding    \* the widest padding asked for

Slash == 47

ASSUME CallsAssumption ==
    /\ Slash \in Chars /\ NUL \notin Chars /\ Chars \subseteq 1..255
    /\ MaxPath \in Nat /\ MaxRest \in Nat /\ MaxPadding \in Nat

VARIABLES
    path,         \* the text in the page when the walk began: the path, and what was behind it
    str,          \* str_to_tok, the copy that kstrtok cuts up
    static_str,   \* kstrtok's static pointer
    token,        \* the caller's token: a position, or Null
    names,        \* the names the walk has come across
    number        \* the number last converted, and what came back

vars == <<path, str, static_str, token, names, number>>

Paths == UNION {[1..n -> Chars] : n \in 0..MaxPath}

\* What a page may hold behind the copy.
Rests == UNION {[1..n -> Chars \cup {NUL}] : n \in 0..MaxRest}

delim == Literal(<<Slash>>)

NoNumber == [given |-> 0, back |-> 0]

Init ==
    /\ path = <<>> /\ str = Literal(<<>>)
    /\ static_str = Null /\ token = Null
    /\ names = <<>>
    /\ number = NoNumber

\* kstrtok is called, and the caller looks at the token it was given.
Call(s, to_tok, before) ==
    LET r == kstrtok(s, static_str, to_tok, delim) IN
    /\ str' = r.str
    /\ static_str' = r.static_str
    /\ token' = r.ret
    /\ names' = IF r.ret = Null THEN before ELSE Append(before, Text(From(r.str, r.ret)))

\* fat32_open_file of any path but "/", up to the first token.
fat32_open_file ==
    /\ token = Null
    /\ \E p \in Paths, rest \in Rests :
          LET page == kmemcpy(Literal(p), Literal([i \in 1..Len(p) |-> NUL] \o rest), Len(p)) IN
          /\ kstrcmp(Literal(p), delim) # 0
          /\ path' = Text(page)
          /\ Call(page, 1, <<>>)
    /\ number' = NoNumber

\* The next turn of its loop.  The string "/" is the root directory itself.
next_name ==
    /\ token # Null
    /\ Call(str, Null, names)
    /\ UNCHANGED <<path, number>>

\* A number is formatted and read again, as kmain does before there is a process
\* to open a file.
convert ==
    /\ static_str = Null /\ path = <<>>
    /\ \E n \in 0..(Word - 1), padding \in 0..MaxPadding :
          number' = [given |-> n, back |-> kstrtol(ltostr(n, 10, padding))]
    /\ UNCHANGED <<path, str, static_str, token, names>>

\* search_dir has no such name: fat32_open_file returns in the middle of the path.
not_found ==
    /\ token # Null
    /\ path' = <<>> /\ str' = Literal(<<>>) /\ names' = <<>>
    /\ token' = Null
    /\ UNCHANGED <<static_str, number>>

Next == fat32_open_file \/ next_name \/ not_found \/ convert

Spec == Init /\ [][Next]_vars

----------------------------------------------------------------------------
\* The names a text is made of: its longest runs without a slash.
Parts(p) ==
    LET starts == SetToSortSeq({i \in DOMAIN p : p[i] # Slash /\ (i = 1 \/ p[i - 1] = Slash)}, <)
        end(i) == Min({j \in i..Len(p) : j = Len(p) \/ p[j + 1] = Slash})
    IN  [k \in DOMAIN starts |-> SubSeq(p, starts[k], end(starts[k]))]

\* The calls of kstrtok for one path return exactly the names in the page it was copied
\* to, in order and whole, although each call cuts the string the next one reads and
\* the pointer they go on from may be left over from another path (string.c, kstrtok).
\* Where the page was clear these are the names of the path (fat.c, fat32_open_file).
TokensAreParts ==
    /\ IsPrefix(names, Parts(path))
    /\ token = Null => names = Parts(path)

\* A number formatted by ltostr with any padding is read back by kstrtol as itself
\* (main.c prints such a pair as a test).
NumbersComeBack == number.back = number.given
==========================================================================
