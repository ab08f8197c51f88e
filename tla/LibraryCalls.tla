---------------------------- MODULE LibraryCalls ----------------------------
(***************************************************************************)
(* Calls of WeensyOS's C library over bounded inputs, each compared with   *)
(* what the function is for.  The calls keep no state: call is the one     *)
(* under way.                                                              *)
(***************************************************************************)
EXTENDS WeensyLib

CONSTANTS
    Values,            \* numbers to print
    Widths,            \* field widths and precisions, -1 for none
    DigitChars,        \* characters of the numbers to read
    MaxDigits,         \* bound on their digits
    MaxBlock           \* bound on blocks of memory and on the strings compared

VARIABLE call

NoCall == [op |-> "none"]
Strings(chars, n) == UNION {[1..k -> chars] : k \in 0..n}
Block == [i \in 0..(MaxBlock - 1) |-> LOWER_A + i]

CallInit == call = NoCall

PrintNumber(conv) ==
    \E flags \in SUBSET {"#", "0", "-", " ", "+"}, w \in Widths, p \in Widths, v \in Values :
        /\ conv = "d" => v \in -(LONG_MAX + 1)..LONG_MAX
        /\ conv # "d" => v \in 0..(Word - 1)
        /\ call' = [op |-> "print", flags |-> flags, width |-> w, precision |-> p,
                    conv |-> conv, val |-> v]

PrintText ==
    \E flags \in SUBSET {"0", "-"}, w \in Widths, p \in Widths, s \in Strings({LOWER_A}, 2) :
        call' = [op |-> "print_text", flags |-> flags, width |-> w, precision |-> p,
                 conv |-> "s", val |-> s]

Read ==
    \E before \in {<<>>, <<PLUS>>, <<MINUS>>, <<SPACE, MINUS>>, <<9, SPACE>>}, hex \in BOOLEAN,
       ds \in Strings(DigitChars, MaxDigits), base \in {0, 8, 10, 16}, after \in {<<>>, <<SPACE>>} :
        /\ hex => base \in {0, 16}
        /\ call' = [op |-> "read", before |-> before, hex |-> hex, digits |-> ds,
                    base |-> base, after |-> after]

Copy == \E d, s \in 0..MaxBlock, n \in 0..MaxBlock :
    /\ d + n <= MaxBlock /\ s + n <= MaxBlock
    /\ call' = [op |-> "copy", d |-> d, s |-> s, n |-> n]

Format == \E out \in Strings({LOWER_A, UPPER_A}, MaxBlock + 1), size \in 0..MaxBlock :
    call' = [op |-> "format", out |-> out, size |-> size]

Compare == \E a, b \in Strings({LOWER_A, UPPER_A, UPPER_A + 1}, 2), n \in 0..3 :
    call' = [op |-> "compare", a |-> a, b |-> b, n |-> n]

Random == \E min, max \in -(RAND_MAX + 1)..RAND_MAX :
    /\ min <= max /\ max - min <= RAND_MAX
    /\ call' = [op |-> "random", min |-> min, max |-> max]

CallNext ==
    \/ /\ call = NoCall
       /\ \/ \E conv \in {"d", "u", "x", "X", "p"} : PrintNumber(conv)
          \/ PrintText \/ Read \/ Copy \/ Format \/ Compare \/ Random
    \/ call # NoCall /\ call' = NoCall

-----------------------------------------------------------------------------
(* What the functions are for.                                             *)

Larger(x, y) == IF x > y THEN x ELSE y
Smaller(x, y) == IF x < y THEN x ELSE y

\* A printed number is read back as itself, in a field exactly as wide as asked for or needed.
PrintedReadsBack ==
    LET out == vprintf(call)
        base == IF Hex(call) THEN 16 ELSE 10
        magnitude == fill_numbuf(IF call.val < 0 THEN -call.val ELSE call.val, base, LOWER_A)
    IN  /\ call.val = IF call.conv = "d" THEN strtol(out, 10).value ELSE strtoul(out, base).value
        /\ Len(out) = Larger(call.width,
                             Len(Prefix(call)) +
                             IF call.precision >= 0 THEN Larger(call.precision, Len(magnitude))
                             ELSE Len(magnitude))

\* A printed text is cut to its precision and stands at its side of a field of its width.
PrintedInField ==
    LET out == vprintf(call)
        kept == IF call.precision = -1 THEN Len(call.val) ELSE Smaller(Len(call.val), call.precision)
        first == IF "-" \in call.flags THEN 1 ELSE Len(out) - kept + 1
    IN  /\ Len(out) = Larger(call.width, kept)
        /\ \A k \in DOMAIN out :
             out[k] = IF k \in first..(first + kept - 1) THEN call.val[k - first + 1] ELSE SPACE

\* The number the digits write, without bound, and what is left after them: strtol returns
\* the closest long, strtoul the closest unsigned long and, after a minus, its negation.
ReadAgrees ==
    LET base == CASE call.base # 0 -> call.base
                  [] call.hex -> 16
                  [] ~call.hex /\ call.base = 0 ->
                       IF call.digits # <<>> /\ call.digits[1] = DIGIT0 THEN 8 ELSE 10
        minus == MINUS \in {call.before[k] : k \in DOMAIN call.before}
        n == CHOOSE k \in 0..Len(call.digits) :
               /\ \A i \in 1..k : digit(call.digits[i], base) # NoDigit
               /\ k < Len(call.digits) => digit(call.digits[k + 1], base) = NoDigit
        exact == FoldLeft(LAMBDA x, c : x * base + digit(c, base), 0, SubSeq(call.digits, 1, n))
        start == call.before \o IF call.hex THEN <<DIGIT0, LOWER_X>> ELSE <<>>
        s == start \o call.digits \o call.after
        long == strtol(s, call.base)
        ulong == strtoul(s, call.base)
    IN  /\ long.value = IF minus THEN Larger(-exact, -(LONG_MAX + 1)) ELSE Smaller(exact, LONG_MAX)
        /\ LET clamped == Smaller(exact, Word - 1)
           IN  ulong.value = IF minus THEN (Word - clamped) % Word ELSE clamped
        /\ n > 0 => long.end = Len(start) + n + 1 /\ ulong.end = long.end

\* A block copied over itself arrives as it was.
CopyAgrees ==
    LET moved == memmove(Block, call.d, call.s, call.n)
    IN  \A i \in DOMAIN Block :
          moved[i] = IF i \in call.d..(call.d + call.n - 1) THEN Block[i - call.d + call.s] ELSE Block[i]

\* A formatted string is cut to its buffer, ended, and nothing past its end is touched.
FormatAgrees ==
    LET kept == Smaller(Len(call.out), call.size - 1)
        mem == vsnprintf(Block, call.size, call.out)
        copied == strcpy(Block, 0, SubSeq(call.out, 1, kept))
    IN  IF call.size = 0 THEN mem = Block
        ELSE /\ mem = copied
             /\ \A i \in DOMAIN Block :
                  mem[i] = IF i < kept THEN call.out[i + 1] ELSE IF i = kept THEN NUL ELSE Block[i]

\* a comes before b in the dictionary.
Before(a, b) ==
    \E k \in 1..Len(b) : /\ \A i \in 1..(k - 1) : i \in DOMAIN a /\ a[i] = b[i]
                         /\ k = Len(a) + 1 \/ (k \in DOMAIN a /\ a[k] < b[k])
Orders(r, a, b) == r = IF a = b THEN 0 ELSE IF Before(a, b) THEN -1 ELSE 1

Lowered(s) == [k \in DOMAIN s |-> tolower(s[k])]

CompareAgrees ==
    LET a == call.a
        b == call.b
        an == SubSeq(a, 1, Smaller(Len(a), call.n))
        bn == SubSeq(b, 1, Smaller(Len(b), call.n))
        upto == Smaller(Smaller(Len(a), Len(b)), call.n)
    IN  /\ Orders(strcmp(a, b), a, b) /\ Orders(strcasecmp(a, b), Lowered(a), Lowered(b))
        /\ Orders(strncmp(a, b, call.n), an, bn)
        /\ Orders(strncasecmp(a, b, call.n), Lowered(an), Lowered(bn))
        /\ Orders(memcmp(a, b, upto), SubSeq(a, 1, upto), SubSeq(b, 1, upto))
        /\ \A c \in {NUL, UPPER_A} : strchr(a, c) = 0 <=> c # NUL /\ \A k \in DOMAIN a : a[k] # c

Drawn == UNION {rand(r, call.min, call.max) : r \in 0..RAND_MAX}

\* rand stays between its bounds and reaches all that lies between them, for the spans whose
\* width an int holds.  Its comment (lib.cc:238-240) admits one more, max - min = RAND_MAX, whose
\* width overflows: what it then returns is between the bounds only if the compiler has widened
\* the product's operands, and min less the draw, below the bounds, where the int has wrapped.
RandomAgrees ==
    /\ call.max - call.min < RAND_MAX => Drawn = call.min..call.max
    /\ call.max - call.min = RAND_MAX =>
         Drawn = (call.min..call.max) \cup {ToInt(call.min - r) : r \in 0..RAND_MAX}

\* Each call of the library does what it is for, at the edges of its integers and buffers:
\* numbers read back as printed in every field, text is cut and padded to its field, strtol
\* clamps to a long, strtoul clamps the magnitude and negates it after a minus (so that it is
\* 1 from -Word down), memmove copies a block over itself, vsnprintf ends its buffer and stays in
\* it, the comparisons are dictionary order, rand(min, max) keeps to its bounds, except at the
\* widest span it admits.
LibraryAgrees ==
    CASE call.op = "print" -> PrintedReadsBack
      [] call.op = "print_text" -> PrintedInField
      [] call.op = "read" -> ReadAgrees
      [] call.op = "copy" -> CopyAgrees
      [] call.op = "format" -> FormatAgrees
      [] call.op = "compare" -> CompareAgrees
      [] call.op = "random" -> RandomAgrees
      [] OTHER -> TRUE
=============================================================================
