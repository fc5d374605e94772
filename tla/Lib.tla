-------------------------------- MODULE Lib --------------------------------
(***************************************************************************)
(* What the rest of the kernel calls to convert and to copy: numbers       *)
(* (lib/stdlib.c, helpers/basecol.c), blocks and strings (lib/string.c,    *)
(* arch/x86cpu/string.asm) and the command line (kernel/cmdline.c).        *)
(* A state is one call and what it returned.                               *)
(***************************************************************************)
EXTENDS Integers, Sequences, FiniteSets, FiniteSetsExt, SequencesExt

CONSTANTS
  UMAX64, UMAX32,   \* largest values of the unsigned types
  Numbers, Blocks, Strings, Lines,   \* inputs: digits, memories, strings, command lines
  UNSTORED             \* what a pointer that is not stored is left as

VARIABLES call, got
libVars == <<call, got>>

INT64_MAX == UMAX64 \div 2
INT64_MIN == -INT64_MAX - 1
INT32_MAX == UMAX32 \div 2
INT32_MIN == -INT32_MAX - 1
Signed64(u) == IF u > INT64_MAX THEN u - UMAX64 - 1 ELSE u
Clip(v, lo, hi) == IF v > hi THEN hi ELSE IF v < lo THEN lo ELSE v

-----------------------------------------------------------------------------
(* Numbers. A digit is its value, upper and lower case alike, so that the  *)
(* letter x is 33.                                                         *)

BLANK == -1
PLUS == -2
MINUS == -3
Signs == {PLUS, MINUS}
First(s, C) == s # <<>> /\ Head(s) \in C
SkipSign(s) == IF First(s, Signs) THEN Tail(s) ELSE s
SkipBlanks(s) == SubSeq(s, 1 + Cardinality({n \in 1..Len(s) : \A i \in 1..n : s[i] = BLANK}), Len(s))
\* The base that a prefix stands for, and what is left after it.
Prefix(s, base) ==
  IF base # 0 THEN [base |-> base, rest |-> s]
  ELSE IF ~First(s, {0}) THEN [base |-> 10, rest |-> s]
  ELSE IF First(Tail(s), {33}) THEN [base |-> 16, rest |-> Tail(Tail(s))]
  ELSE [base |-> 8, rest |-> Tail(s)]
Digits(p) == SubSeq(p.rest, 1, Cardinality({n \in DOMAIN p.rest : \A i \in 1..n : p.rest[i] \in 0..p.base - 1}))

\* One digit more, UNSTORED when the function returns because of it.
AddDigit(r, base, c) == IF r > UMAX64 \div base \/ r * base > UMAX64 - c THEN UNSTORED ELSE r * base + c
AddPositive(r, base, c) == IF r > INT64_MAX \div base \/ r * base > INT64_MAX - c THEN INT64_MAX ELSE r * base + c
\* Division in C rounds towards 0. The second test returns the wrong limit.
SubDigit(r, base, c) ==
  IF -r > (-INT64_MIN) \div base THEN INT64_MIN ELSE IF r * base < INT64_MIN + c THEN INT64_MAX ELSE r * base - c

\* Its end is stored unless the number is too large.
Unsigned(p) ==
  LET v == FoldLeft(LAMBDA r, c : IF r = UNSTORED THEN r ELSE AddDigit(r, p.base, c), 0, Digits(p))
  IN IF v = UNSTORED THEN [val |-> UMAX64, end |-> UNSTORED]
     ELSE [val |-> v, end |-> SubSeq(p.rest, Len(Digits(p)) + 1, Len(p.rest))]
Skipped(p) == [p EXCEPT !.rest = SkipBlanks(p.rest)]
\* Blanks are skipped after the sign and the prefix.
strtoull(s, base) == Unsigned(Skipped(Prefix(SkipSign(s), base)))
strtoul(s, base) == Clip(strtoull(s, base).val, 0, UMAX32)
strtol(s, base) == Clip(Signed64(strtoull(s, base).val), INT32_MIN, INT32_MAX)

Negative(s) == First(SkipBlanks(s), {MINUS})
\* over: the function has returned at a digit.
Signed(neg, p) ==
  FoldLeft(LAMBDA r, c : IF r.over THEN r
                         ELSE LET v == IF neg THEN SubDigit(r.val, p.base, c) ELSE AddPositive(r.val, p.base, c)
                              IN [val |-> v, over |-> v # r.val * p.base + (IF neg THEN -c ELSE c)],
           [val |-> 0, over |-> FALSE], Digits(p)).val
strtoll(s, base) == Signed(Negative(s), Prefix(SkipSign(SkipBlanks(s)), base))

\* basecol: numbers as columns of a table are named, a..z, aa, ab...; the
\* letters are numbers below Letters.
basecol_decode(s, letters) ==
  FoldLeft(LAMBDA r, i : (IF i > 1 THEN (r + 1) * letters ELSE r) + s[i], 0, [i \in DOMAIN s |-> i])
EncodeStep(r, letters) ==
  IF r.n < 0 THEN r
  ELSE [n |-> (r.n \div letters) - 1, out |-> <<r.n % letters>> \o r.out]
basecol_encode(n, letters) == FoldLeft(LAMBDA r, i : EncodeStep(r, letters), [n |-> n, out |-> <<>>], [i \in 1..n + 1 |-> i]).out

-----------------------------------------------------------------------------
(* Blocks and strings: m is a memory, places in it count from 1, and 0 ends *)
(* a string.                                                               *)

CopyByte(m, dest, src, i) == [m EXCEPT ![dest + i] = m[src + i]]
Upwards(m, dest, src, n) == FoldLeft(LAMBDA x, i : CopyByte(x, dest, src, i - 1), m, [i \in 1..n |-> i])
Downwards(m, dest, src, n) == FoldLeft(LAMBDA x, i : CopyByte(x, dest, src, n - i), m, [i \in 1..n |-> i])
memcpy(m, dest, src, n) == Upwards(m, dest, src, n)
memmove(m, dest, src, n) == IF dest <= src THEN Upwards(m, dest, src, n) ELSE Downwards(m, dest, src, n)
memset(m, at, c, n, w) == [i \in DOMAIN m |-> IF i \in at..at + n * w - 1 THEN c[((i - at) % w) + 1] ELSE m[i]]
strlen(m, at) == Min({n \in 0..Len(m) - at : m[at + n] = 0})
strcpy(m, dest, src) == memmove(m, dest, src, strlen(m, src) + 1)
strncpy(m, dest, src, n) ==
  memmove(m, dest, src, IF strlen(m, src) < n THEN strlen(m, src) + 1 ELSE n)

\* The first difference within n characters, or none after the end of both.
Compare(s, t, n) ==
  LET d == {i \in 1..Min({n, Len(s), Len(t)}) : s[i] # t[i]}
  IN IF d = {} THEN 0 ELSE s[Min(d)] - t[Min(d)]
strcmp(s, t) == Compare(s, t, Len(s))
strncmp(s, t, n) == Compare(s, t, n)

-----------------------------------------------------------------------------
(* The command line: a sequence of characters.                             *)

EQUALS == -4
\* The token that ends at end; one of a single character is passed over.
Token(st, s, end) ==
  [start |-> end + 1,
   argv |-> IF end - st.start <= 1 THEN st.argv ELSE Append(st.argv, SubSeq(s, st.start + 1, end))]
cmdline_init(s) ==
  FoldLeft(LAMBDA st, end : IF end = Len(s) \/ s[end + 1] = BLANK THEN Token(st, s, end) ELSE st,
           [start |-> 0, argv |-> <<>>], [i \in 1..Len(s) |-> i]).argv
cmdline_find_flag(argv, key) == \E i \in DOMAIN argv : argv[i] = key
cmdline_find_kvp(argv, key) ==
  LET i == SelectInSeq(argv, LAMBDA a : IsPrefix(Append(key, EQUALS), a))
  IN IF i = 0 THEN UNSTORED ELSE SubSeq(argv[i], Len(key) + 2, Len(argv[i]))

KSTDERR_KEY == <<5>>
\* The stream that kstderr becomes: 1, 2 and 3 stand for the names of the choices.
stdio_stderr_init(argv) ==
  LET v == cmdline_find_kvp(argv, KSTDERR_KEY)
  IN CASE v = UNSTORED -> "log" [] v = <<1>> -> "none" [] v = <<2>> -> "serial" [] OTHER -> "log"

-----------------------------------------------------------------------------
Returns(ops, r) == call.op \in ops /\ got = UNSTORED /\ got' = r /\ UNCHANGED call

Convert == Returns({"number"}, [ull |-> strtoull(call.s, call.base), ul |-> strtoul(call.s, call.base),
                                ll |-> strtoll(call.s, call.base), l |-> strtol(call.s, call.base)])
Column == Returns({"column"}, basecol_encode(call.n, 3))
Copy == Returns({"copy"}, [cpy |-> memcpy(call.m, call.dest, call.src, call.n),
                           move |-> memmove(call.m, call.dest, call.src, call.n),
                           set |-> memset(call.m, call.dest, <<7, 8>>, call.n \div 2, 2),
                           ncpy |-> strncpy(call.m, call.dest, call.src, call.n)])
CompareStrings == Returns({"compare"}, [all |-> strcmp(call.s, call.t), n |-> strncmp(call.s, call.t, call.n)])
Parse == Returns({"line"}, cmdline_init(call.s))

Calls ==
  {[op |-> "number", s |-> s, base |-> b] : s \in Numbers, b \in {0, 8, 10, 16}}
  \union {[op |-> "column", n |-> n] : n \in 0..40}
  \union {[op |-> "copy", m |-> m, dest |-> d, src |-> c, n |-> n] : m \in Blocks, d \in 1..3, c \in 1..3, n \in 0..3}
  \union {[op |-> "compare", s |-> s, t |-> t, n |-> n] : s \in Strings, t \in Strings, n \in 0..3}
  \union {[op |-> "line", s |-> s] : s \in Lines}
LibStart(calls) == got = UNSTORED /\ call \in calls
LibInit == LibStart(Calls)
LibNext == Convert \/ Column \/ Copy \/ CompareStrings \/ Parse
LibSpec == LibInit /\ [][LibNext]_libVars

-----------------------------------------------------------------------------
(* Properties.                                                             *)

Returned(op) == call.op = op /\ got # UNSTORED

\* The number that a string stands for.
Value(s, p) == FoldLeft(LAMBDA v, c : v * p.base + c, 0, Digits(p))
Plain(s) == SkipBlanks(s) = s

\* Numbers are what their digits say, limited to the type: no product or sum
\* wraps before it is checked, and the rest of the string is returned. Left
\* out, as the code differs: blanks before an unsigned number's sign, negative
\* numbers for the types of 32 bits and those below INT64_MIN in the last digit
\* (lib/stdlib.c strtoull(), strtoll(), strtoul(), strtol()).
NumbersExact ==
  Returned("number") =>
    LET s == SkipSign(SkipBlanks(call.s))
        p == Prefix(s, call.base)
        v == Value(s, p)
    IN /\ Plain(call.s) /\ Plain(p.rest) =>
            /\ got.ull.val = Clip(v, 0, UMAX64) /\ got.ul = Clip(v, 0, UMAX32)
            /\ v <= UMAX64 => got.ull.end = SubSeq(p.rest, Len(Digits(p)) + 1, Len(p.rest))
            /\ v <= INT64_MAX => got.l = Clip(v, INT32_MIN, INT32_MAX)
       /\ ~Negative(call.s) => got.ll = Clip(v, 0, INT64_MAX)
       /\ Negative(call.s) /\ -v >= INT64_MIN => got.ll = -v
       /\ Negative(call.s) /\ -v < INT64_MIN => got.ll \in {INT64_MIN, INT64_MAX}

\* Columns are numbered without gaps: what is encoded decodes to itself
\* (helpers/basecol.c).
ColumnsExact == Returned("column") => basecol_decode(got, 3) = call.n

Moved(m, dest, src, n) == [i \in DOMAIN m |-> IF i \in dest..dest + n - 1 THEN m[i - dest + src] ELSE m[i]]
\* A block is moved as it was, also onto itself, and nothing around it changes;
\* copying does that when it does not overwrite what it has yet to read
\* (lib/string.c, arch/x86cpu/string.asm).
BlocksExact ==
  Returned("copy") =>
    /\ got.move = Moved(call.m, call.dest, call.src, call.n)
    /\ call.dest \notin call.src + 1..call.src + call.n - 1 => got.cpy = got.move
    /\ got.ncpy = Moved(call.m, call.dest, call.src, Min({call.n, strlen(call.m, call.src) + 1}))

\* Strings compare as equal exactly when they are, and the order does not
\* depend on which comes first (lib/string.c strcmp(), strncmp()).
StringsExact ==
  Returned("compare") =>
    /\ (got.all = 0) <=> (call.s = call.t)
    /\ (got.all > 0) <=> (strcmp(call.t, call.s) < 0)
    /\ (got.n = 0) <=> (call.s = call.t \/ (call.n <= Min({Len(call.s), Len(call.t)})
                                            /\ SubSeq(call.s, 1, call.n) = SubSeq(call.t, 1, call.n)))

\* Words of the command line of two characters and more are its arguments, in
\* order, when it does not start with a blank, so that each flag is found and
\* the first value given for a key decides (kernel/cmdline.c cmdline_init(),
\* lib/stdio.c stdio_stderr_init()).
LineExact ==
  Returned("line") /\ ~First(call.s, {BLANK}) =>
    LET s == call.s
        IsWord(a, b) == /\ b - a >= 1 /\ \A i \in a..b : s[i] # BLANK
                        /\ a = 1 \/ s[a - 1] = BLANK
                        /\ b = Len(s) \/ s[b + 1] = BLANK
        Words == {w \in (1..Len(s)) \X (1..Len(s)) : IsWord(w[1], w[2])}
        InOrder == SetToSortSeq(Words, LAMBDA v, w : v[1] < w[1])
    IN /\ got = [i \in DOMAIN InOrder |-> SubSeq(s, InOrder[i][1], InOrder[i][2])]
       /\ LET Pairs == SelectSeq(InOrder, LAMBDA w : s[w[1]] = 5 /\ s[w[1] + 1] = EQUALS)
              value == SubSeq(s, Head(Pairs)[1] + 2, Head(Pairs)[2])
          IN stdio_stderr_init(got) = IF Pairs = <<>> THEN "log"
                                         ELSE IF value = <<1>> THEN "none" ELSE IF value = <<2>> THEN "serial" ELSE "log"
       /\ \A w \in Words : cmdline_find_flag(got, SubSeq(s, w[1], w[2]))

\* The calls return what their callers take them to return.
LibExact == ColumnsExact /\ BlocksExact /\ StringsExact /\ LineExact
=============================================================================
