----------------------------- MODULE WeensyLib -----------------------------
(***************************************************************************)
(* The pure functions of WeensyOS's C library (lib.cc, lib.hh), shared by  *)
(* the kernel and the processes.  A character is its code, a string the    *)
(* sequence of its characters, its end a NUL.  unsigned long is taken      *)
(* modulo Word, long is its signed half, and RAND_MAX is the largest int.  *)
(***************************************************************************)
EXTENDS Integers, Sequences, FiniteSets, SequencesExt

CONSTANTS Word, RAND_MAX

LONG_MAX == Word \div 2 - 1

NUL == 0
NL == 10
SPACE == 32
PLUS == 43
MINUS == 45
DIGIT0 == 48
UPPER_A == 65
UPPER_X == 88
LOWER_A == 97
LOWER_X == 120

\* s[k] of a pointer into a string: the NUL is there, too.
at(s, k) == IF k \in DOMAIN s THEN s[k] ELSE NUL

isspace(c) == c \in 9..13 \/ c = SPACE
isupper(c) == c \in UPPER_A..(UPPER_A + 25)
tolower(c) == IF isupper(c) THEN c + LOWER_A - UPPER_A ELSE c

-----------------------------------------------------------------------------
(* Memory: a function from addresses to bytes.                             *)

Steps(n) == [k \in 1..n |-> k - 1]

memcpy(mem, d, s, n) ==
    FoldLeft(LAMBDA m, k : [m EXCEPT ![d + k] = m[s + k]], mem, Steps(n))

memmove(mem, d, s, n) ==
    IF s < d /\ s + n > d
    THEN FoldLeft(LAMBDA m, k : [m EXCEPT ![d + k] = m[s + k]], mem, Reverse(Steps(n)))
    ELSE memcpy(mem, d, s, n)

memset(mem, v, c, n) == FoldLeft(LAMBDA m, k : [m EXCEPT ![v + k] = c], mem, Steps(n))

\* The bytes of two blocks compare as those of the first place they differ in.
memcmp(a, b, n) ==
    LET k == SelectInSeq([i \in 1..n |-> a[i] # b[i]], LAMBDA differ : differ)
    IN  IF k = 0 THEN 0 ELSE IF a[k] > b[k] THEN 1 ELSE -1

\* The place of a character, 0 if it is nowhere.
memchr(s, c, n) == SelectInSeq(SubSeq(s, 1, n), LAMBDA x : x = c)

-----------------------------------------------------------------------------
(* Strings.                                                                *)

sign(x, y) == IF x > y THEN 1 ELSE IF x < y THEN -1 ELSE 0

strlen(s) == Len(s)
strnlen(s, maxlen) == IF Len(s) < maxlen THEN Len(s) ELSE maxlen

strchr(s, c) == memchr(Append(s, NUL), c, strlen(s) + 1)
strcpy(mem, dst, s) == FoldLeft(LAMBDA m, k : [m EXCEPT ![dst + k] = at(s, k + 1)],
                                mem, Steps(strlen(s) + 1))

\* The comparing loops stop at an end or at a difference; the strncmp ones take a NUL once
\* n has run out.
cased(c, nocase) == IF nocase THEN tolower(c) ELSE c
stops(ac, bc) == ac = NUL \/ bc = NUL \/ ac # bc

RECURSIVE strcmp_from(_, _, _, _)
strcmp_from(a, b, k, nocase) ==
    LET ac == cased(at(a, k), nocase)
        bc == cased(at(b, k), nocase)
    IN  IF stops(ac, bc) THEN sign(ac, bc) ELSE strcmp_from(a, b, k + 1, nocase)

RECURSIVE strncmp_from(_, _, _, _, _)
strncmp_from(a, b, n, k, nocase) ==
    LET ac == IF n # 0 THEN cased(at(a, k), nocase) ELSE NUL
        bc == IF n # 0 THEN cased(at(b, k), nocase) ELSE NUL
    IN  IF stops(ac, bc) THEN sign(ac, bc) ELSE strncmp_from(a, b, n - 1, k + 1, nocase)

strcmp(a, b) == strcmp_from(a, b, 1, FALSE)
strncmp(a, b, n) == strncmp_from(a, b, n, 1, FALSE)
strcasecmp(a, b) == strcmp_from(a, b, 1, TRUE)
strncasecmp(a, b, n) == strncmp_from(a, b, n, 1, TRUE)

-----------------------------------------------------------------------------
(* strtoul and strtol return the value and the position of *endptr.        *)

RECURSIVE SkipSpaces(_, _)
SkipSpaces(s, k) == IF isspace(at(s, k)) THEN SkipSpaces(s, k + 1) ELSE k

NoDigit == -1
digit(c, base) ==
    IF c \in DIGIT0..(DIGIT0 + base - 1) THEN c - DIGIT0
    ELSE IF base > 10 /\ c \in LOWER_A..(LOWER_A + base - 11) THEN c - LOWER_A + 10
    ELSE IF base > 10 /\ c \in UPPER_A..(UPPER_A + base - 11) THEN c - UPPER_A + 10
    ELSE NoDigit

too_large_digitless(x, d, base) == x > (Word - 1) \div base
too_large(x, d, base) == x > (Word - 1 - d) \div base

\* The loop over the digits: the value so far, or an overflow that is remembered.
RECURSIVE Digits(_, _, _, _, _)
Digits(s, k, base, x, overflow) ==
    LET d == digit(at(s, k), base)
    IN  IF d = NoDigit THEN [value |-> IF overflow THEN Word - 1 ELSE x, end |-> k]
        ELSE IF too_large(x, d, base) THEN Digits(s, k + 1, base, x, TRUE)
        ELSE Digits(s, k + 1, base, x * base + d, overflow)

Negated(u) == (Word - u) % Word

strtoul_at(s, from, base0) ==
    LET k0 == SkipSpaces(s, from)
        negative == at(s, k0) = MINUS
        k1 == IF negative \/ at(s, k0) = PLUS THEN k0 + 1 ELSE k0
        hex == at(s, k1) = DIGIT0 /\ at(s, k1 + 1) \in {LOWER_X, UPPER_X}
        base == IF base0 # 0 THEN base0
                ELSE IF hex THEN 16 ELSE IF at(s, k1) = DIGIT0 THEN 8 ELSE 10
        k2 == IF hex /\ base0 \in {0, 16} THEN k1 + 2 ELSE k1
        r == Digits(s, k2, base, 0, FALSE)
    IN  [r EXCEPT !.value = IF negative THEN Negated(@) ELSE @]
strtoul(s, base) == strtoul_at(s, 1, base)

\* The sign is taken here and the rest left to strtoul; the bound is on the magnitude.
strtol(s, base) ==
    LET k == SkipSpaces(s, 1)
        negative == at(s, k) = MINUS
        r == strtoul_at(s, IF negative THEN k + 1 ELSE k, base)
        bound == IF negative THEN LONG_MAX + 1 ELSE LONG_MAX
        u == IF r.value > bound THEN bound ELSE r.value
    IN  [r EXCEPT !.value = IF negative THEN -u ELSE u]

-----------------------------------------------------------------------------
(* rand                                                                    *)

\* An int holds -(RAND_MAX + 1) to RAND_MAX and wraps.
ToInt(n) == LET m == n % (2 * (RAND_MAX + 1)) IN IF m > RAND_MAX THEN m - 2 * (RAND_MAX + 1) ELSE m

\* rand(min, max) when rand() returned r and max - min + 1 was computed to be span: the
\* product is unsigned long, the sum is cut to an int.
scaled(r, min, span) == ToInt((min + ((r * (span % Word)) % Word) \div (RAND_MAX + 1)) % Word)

\* max - min + 1 overflows an int at max - min = RAND_MAX: what then comes of it is up to
\* the compiler, which wraps it or has widened the operands for the product.
rand(r, min, max) == {scaled(r, min, span) : span \in {ToInt(max - min + 1), max - min + 1}}

-----------------------------------------------------------------------------
(* printer::vprintf.  A directive is what the loop has read of the format: *)
(* flags, width (-1 if none), precision (-1 if none), conversion, value.   *)

Repeat(c, n) == [k \in 1..n |-> c]

RECURSIVE fill_numbuf(_, _, _)
fill_numbuf(val, base, letter) ==
    LET d == val % base
        c == IF d < 10 THEN DIGIT0 + d ELSE letter + d - 10
    IN  IF val \div base = 0 THEN <<c>>
        ELSE Append(fill_numbuf(val \div base, base, letter), c)

Hex(d) == d.conv \in {"x", "X", "p"}
Numeric(d) == d.conv \in {"d", "u", "x", "X", "p"}

\* The sign or base before the digits.
Prefix(d) ==
    CASE d.conv = "d" /\ d.val < 0 -> <<MINUS>>
      [] d.conv = "d" /\ d.val >= 0 /\ "+" \in d.flags -> <<PLUS>>
      [] d.conv = "d" /\ d.val >= 0 /\ "+" \notin d.flags /\ " " \in d.flags -> <<SPACE>>
      [] Hex(d) /\ (d.conv = "p" \/ ("#" \in d.flags /\ d.val # 0)) ->
            <<DIGIT0, IF d.conv = "X" THEN UPPER_X ELSE LOWER_X>>
      [] OTHER -> <<>>

Zeros(d, len, prefix) ==
    IF ~Numeric(d) THEN 0
    ELSE IF d.precision >= 0 THEN IF d.precision > len THEN d.precision - len ELSE 0
    ELSE IF "0" \in d.flags /\ "-" \notin d.flags /\ len + Len(prefix) < d.width
         THEN d.width - len - Len(prefix)
         ELSE 0

\* What a directive puts: padding, prefix, zeros, digits or text, padding.
vprintf(d) ==
    LET data == IF ~Numeric(d) THEN d.val
                ELSE fill_numbuf(IF d.val < 0 THEN -d.val ELSE d.val, IF Hex(d) THEN 16 ELSE 10,
                                 IF d.conv = "X" THEN UPPER_A ELSE LOWER_A)
        prefix == Prefix(d)
        len == IF d.precision >= 0 /\ ~Numeric(d) THEN strnlen(data, d.precision) ELSE strlen(data)
        zeros == Zeros(d, len, prefix)
        width == d.width - len - zeros - Len(prefix)
        padding == Repeat(SPACE, IF width > 0 THEN width ELSE 0)
        body == prefix \o Repeat(DIGIT0, zeros) \o SubSeq(data, 1, len)
    IN  IF "-" \in d.flags THEN body \o padding ELSE padding \o body

\* The buffer s of at least size bytes (from address 0) after vsnprintf(s, size, ...) has
\* put out; the length of out is returned.
Put(sp, c) == IF sp.s < sp.end THEN [sp EXCEPT !.mem[sp.s] = c, !.s = @ + 1] ELSE sp
vsnprintf(mem, size, out) ==
    LET sp == FoldLeft(Put, [mem |-> mem, s |-> 0, end |-> size], out)
    IN  IF size = 0 THEN sp.mem
        ELSE IF sp.s < sp.end THEN [sp.mem EXCEPT ![sp.s] = NUL]
        ELSE [sp.mem EXCEPT ![size - 1] = NUL]
=============================================================================
