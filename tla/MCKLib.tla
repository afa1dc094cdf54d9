------------------------------- MODULE MCKLib -------------------------------
(***************************************************************************)
(* KLib's algorithms against what their callers expect of them.  A step    *)
(* calls one of them with small arguments; the properties relate the call  *)
(* to its result.                                                          *)
(***************************************************************************)
EXTENDS KLib, FiniteSetsExt

CONSTANTS
    MaxLen,     \* bound on the length of the strings
    Nums        \* the numbers to be printed

\* The borders of the digits, of 16 bits and of an int.
MCNums == {0, 1, 7, 8, 9, 10, 15, 16, 100, 65535, 2147483647, -1, -9, -10, -15, -16, -120, -2147483647}

VARIABLE call   \* the last call: function, arguments and result

Texts(S)  == UNION {[1 .. n -> S] : n \in 0 .. MaxLen}
Names     == Texts({"a", "/", "\\"})
Words     == Texts({"a", "b"})
Pieces    == Texts({<<"a">>, <<"%", "d">>, <<"%", "s">>, <<"%", "z">>})
Str       == <<"b", "c">>
Garbage   == "?"
Record(fn, args, result) == call' = [fn |-> fn, args |-> args, result |-> result]

\* The memory around a buffer of the given size.
Around(size) == [i \in -1 .. size |-> Garbage]

\* The arguments for a format made of pieces: a number or a string each.
Args(p, n) ==
    LET conversions == SelectSeq(p, LAMBDA x : x \in {<<"%", "d">>, <<"%", "s">>})
    IN  [i \in DOMAIN conversions |-> IF conversions[i] = <<"%", "d">> THEN n ELSE Str]

Init == call = [fn |-> "none", args |-> <<>>, result |-> <<>>]

CallFileName == \E s \in Names : Record("file_name", <<s>>, get_file_name(s))
CallStrcpy   == \E d, s \in Words : Record("strcpy", <<d, s>>, k_strcpy(d, s))
CallStrncpy  == \E s \in Words, n \in 2 .. MaxLen :
                    Record("strncpy", <<s, n>>, k_strncpy(Around(n), s, n))
CallStrncmp  == \E s, t \in Words, n \in 1 .. MaxLen :
                    Record("strncmp", <<s, t, n>>, k_strncmp(s, t, n))
CallMemcpy   == \E d, s \in 0 .. MaxLen, n \in 1 .. MaxLen :
                    Record("memcpy", <<d, s, n>>, k_memcpy([i \in 0 .. 2 * MaxLen |-> i], d, s, n))
CallItoa     == \E n \in Nums, b \in {2, 8, 10, 16} : Record("itoa", <<n, b>>, k_itoa(n, b))
CallVsprint  == \E p \in Pieces, n \in Nums :
                    Record("vsprint", <<p, n>>, k_vsprint(FlattenSeq(p), Args(p, n)))

Next ==
    /\ call.fn = "none"
    /\ CallFileName \/ CallStrcpy \/ CallStrncpy \/ CallStrncmp \/ CallMemcpy \/ CallItoa
       \/ CallVsprint

Spec == Init /\ [][Next]_call

-----------------------------------------------------------------------------
(* Properties.                                                             *)

Is(fn) == call.fn = fn

IsSuffixAfterSeparator(r, s) ==
    \E i \in 0 .. Len(s) : /\ r = SubSeq(s, i + 1, Len(s))
                           /\ i > 0 => s[i] \in Separators
                           /\ \A j \in i + 1 .. Len(s) : s[j] \notin Separators

\* get_file_name gives what follows the last separator, and so the empty string, the
\* name of a free slot, for a path that ends in one.  k_strncpy copies a string
\* shorter than size - 1, cuts the last character off one of size - 1, and keeps to
\* the buffer unless the string has size characters or more.  k_strncmp finds the
\* strings equal in their first size characters if neither is shorter than that and
\* the second ends there.  k_strcpy copies what is not longer than the string that
\* it replaces.  k_memcpy moves overlapping memory to lower addresses unharmed.
StringsRight ==
    /\ Is("file_name") => IsSuffixAfterSeparator(call.result, call.args[1])
    /\ Is("strncpy") =>
          LET src  == call.args[1]
              size == call.args[2]
          IN  /\ Len(src) < size - 1 => StringAt(call.result) = src
              /\ Len(src) = size - 1 => StringAt(call.result) = Front(src)
              /\ Len(src) < size <=> \A i \in {-1, size} : call.result[i] = Garbage
    /\ Is("strncmp") =>
          LET s == call.args[1]
              t == call.args[2]
              n == call.args[3]
          IN  Len(s) >= n /\ Len(t) = n => (call.result = 0 <=> SubSeq(s, 1, n) = t)
    /\ Is("strcpy") =>
          (call.result = call.args[2] <=> Len(call.args[2]) <= Len(call.args[1]))
    /\ Is("memcpy") =>
          LET dest == call.args[1]
              src  == call.args[2]
              size == call.args[3]
          IN  dest <= src \/ src + size <= dest =>
                  call.result = [i \in 0 .. 2 * MaxLen |->
                                    IF i \in dest .. dest + size - 1 THEN src + i - dest ELSE i]

\* The numeral of n, the highest digit first.
Numeral(n, b) ==
    LET f[k \in Nat] == (IF k < b THEN <<>> ELSE f[k \div b]) \o <<Digits[(k % b) + 1]>>
    IN  IF n < 0 THEN <<"-">> \o f[-n] ELSE f[n]

\* k_itoa prints every number in base 10 and the numbers that are not negative in the
\* other bases: not the addresses from 0x80000000 on.  k_vsprint puts every piece of
\* its format in its place, an unknown conversion leaving nothing.
NumbersRight ==
    /\ Is("itoa") /\ (call.args[1] >= 0 \/ call.args[2] = 10) =>
          call.result = Numeral(call.args[1], call.args[2])
    /\ Is("vsprint") =>
          call.result = FlattenSeq([i \in DOMAIN call.args[1] |->
              CASE call.args[1][i] = <<"a">>      -> <<"a">>
                [] call.args[1][i] = <<"%", "d">> -> Numeral(call.args[2], 10)
                [] call.args[1][i] = <<"%", "s">> -> Str
                [] call.args[1][i] = <<"%", "z">> -> <<>>])
=============================================================================
