-------------------------------- MODULE KLib --------------------------------
(***************************************************************************)
(* The algorithms of kernel/lib/klib.c.  A string is a sequence of         *)
(* characters without its terminating NUL, and a piece of memory a         *)
(* function from offsets to characters.                                    *)
(***************************************************************************)
EXTENDS Integers, Sequences, SequencesExt

NUL == "NUL"

Separators == {"/", "\\"}

\* From the end back to a separator, or to before the first character.
get_file_name(name) ==
    LET s[i \in 0 .. Len(name)] ==
            IF i > 0 /\ name[i] \notin Separators THEN s[i - 1] ELSE i
    IN  SubSeq(name, s[Len(name)] + 1, Len(name))

\* The string at offset 0 of a piece of memory.
StringAt(mem) ==
    LET len == CHOOSE n \in DOMAIN mem :
                   n >= 0 /\ mem[n] = NUL /\ \A i \in 0 .. n - 1 : mem[i] # NUL
    IN  [i \in 1 .. len |-> mem[i - 1]]

\* It stops only at the end of dest or of src.
k_strcpy(dest, src) == SubSeq(src, 1, IF Len(dest) < Len(src) THEN Len(dest) ELSE Len(src))

\* Mutant: the NUL comes after what was copied, whether or not there is room.
k_strncpy_unchecked(dest, src, size) ==
    LET n == IF Len(src) < size THEN Len(src) ELSE size
    IN  [i \in DOMAIN dest |->
            IF i = n THEN NUL ELSE IF i \in 0 .. n - 1 THEN src[i + 1] ELSE dest[i]]

\* At the end size is 0 just if the terminating NUL of src is what did not fit: the
\* last character gives way to it.  If src is longer, size is -1, and the NUL goes
\* behind the dest of the caller.
k_strncpy(dest, src, size) ==
    LET n   == IF Len(src) < size THEN Len(src) ELSE size
        end == IF Len(src) = size - 1 THEN n - 1 ELSE n
    IN  [i \in DOMAIN dest |->
            IF i = end THEN NUL ELSE IF i \in 0 .. n - 1 THEN src[i + 1] ELSE dest[i]]

CharAt(s, i) == IF i > Len(s) THEN NUL ELSE s[i]

\* size is not counted down: if it is not 0, only the ends of the strings count.
k_strncmp(s1, s2, size) ==
    LET stop[i \in 1 .. Len(s1) + 1] ==
            IF CharAt(s1, i) # NUL /\ CharAt(s1, i) = CharAt(s2, i) /\ size # 0
            THEN stop[i + 1] ELSE i
        a == CharAt(s1, stop[1])
        b == CharAt(s2, stop[1])
    IN  IF a = NUL \/ b = NUL \/ a = b THEN 0 ELSE 1

\* From the first byte to the last.
k_memcpy(mem, dest, src, size) ==
    LET copied[n \in 0 .. size] ==
            IF n = 0 THEN mem
            ELSE [copied[n - 1] EXCEPT ![dest + n - 1] = copied[n - 1][src + n - 1]]
    IN  copied[size]

-----------------------------------------------------------------------------
\* The operators / and % of C.
Quot(n, b) == IF n >= 0 THEN n \div b ELSE -((-n) \div b)
Rem(n, b)  == n - b * Quot(n, b)

Digits == <<"0", "1", "2", "3", "4", "5", "6", "7", "8", "9", "A", "B", "C", "D", "E", "F">>

\* num2ch has the digits in both directions: a negative remainder finds its digit.
num2ch(r) == Digits[(IF r >= 0 THEN r ELSE -r) + 1]

\* Mutant: with a sign, the reversal starts at the sign.
k_itoa_sign_reversed(num, base) ==
    LET digits[n \in Int] ==
            <<num2ch(Rem(n, base))>> \o (IF Quot(n, base) = 0 THEN <<>> ELSE digits[Quot(n, base)])
        buf == (IF num < 0 /\ base = 10 THEN <<"-">> ELSE <<>>) \o digits[num]
    IN  IF base \notin {2, 8, 10, 16} THEN <<>> ELSE Reverse(buf)

\* The digits, the lowest first, are reversed behind the sign: from buf + 1 whenever
\* num is not positive, although only in base 10 is there a sign.
k_itoa(num, base) ==
    LET digits[n \in Int] ==
            <<num2ch(Rem(n, base))>> \o (IF Quot(n, base) = 0 THEN <<>> ELSE digits[Quot(n, base)])
        buf   == (IF num < 0 /\ base = 10 THEN <<"-">> ELSE <<>>) \o digits[num]
        start == IF num > 0 THEN 0 ELSE 1
    IN  IF base \notin {2, 8, 10, 16} THEN <<>>
        ELSE SubSeq(buf, 1, start) \o Reverse(SubSeq(buf, start + 1, Len(buf)))

\* What k_vsprint puts for the character ch after a '%', and whether it takes an
\* argument: an unknown one takes none and leaves nothing.
Converts(ch) == ch \in {"d", "x", "c", "s"}
Conversion(ch, arg) ==
    CASE ch = "d" -> k_itoa(arg, 10)
      [] ch = "x" -> k_itoa(arg, 16)
      [] ch = "c" -> <<arg>>
      [] ch = "s" -> arg
      [] OTHER    -> <<>>

VsprintChar(s, ch) ==
    CASE s.state = "NORMAL" /\ ch = "%" -> [s EXCEPT !.state = "READ_FMT"]
      [] s.state = "NORMAL" /\ ch # "%" -> [s EXCEPT !.out = Append(@, ch)]
      [] s.state = "READ_FMT" ->
            [state |-> "NORMAL",
             out   |-> s.out \o Conversion(ch, IF Converts(ch) THEN Head(s.args) ELSE NUL),
             args  |-> IF Converts(ch) THEN Tail(s.args) ELSE s.args]

k_vsprint(fmt, args) ==
    FoldLeft(VsprintChar, [state |-> "NORMAL", out |-> <<>>, args |-> args], fmt).out
=============================================================================
