------------------------------- MODULE Printf -------------------------------
(***************************************************************************)
(* Formatted output: lib/mp-printf.c and the streams of lib/stdio.c. A     *)
(* format is a sequence of characters and directives, a directive a record *)
(* with the arguments it takes; a step writes one of them to the stream. A *)
(* floating point number is a multiple of 1/DEN; its notation with an      *)
(* exponent is left out.                                                   *)
(***************************************************************************)
EXTENDS Integers, Sequences, FiniteSets, SequencesExt

CONSTANTS
  BUFFER,              \* PRINTF_NTOA_BUFFER_SIZE, PRINTF_FTOA_BUFFER_SIZE
  DEN, DEFAULT_PREC, MAX_PREC,   \* PRINTF_DEFAULT_FLOAT_PRECISION; digits of pow10
  Bits,                \* of the types, by length: "hh", "h", "", "l", "ll"
  Format, Stream,      \* what is printed, and where to
  UNGIVEN, UNWRITTEN   \* a precision that is not given, memory that is not written

VARIABLES
  format, stream,
  place,               \* what of the format is printed next
  modifiers,           \* flags, width and precision of the last directive
  idx,                 \* characters passed to the stream, to be returned
  sink                 \* what the stream holds, or the string
printVars == <<format, stream, place, modifiers, idx, sink>>

NUL == "nul"
Times(n, c) == [i \in 1..n |-> c]
Upto(m, n) == IF m < n THEN m ELSE n
AsUnsigned(v, length) == v % (2^Bits[length])
AsSigned(v, length) ==
  LET u == AsUnsigned(v, length) IN IF u < 2^(Bits[length] - 1) THEN u ELSE u - 2^Bits[length]
Bases == [d |-> 10, u |-> 10, x |-> 16, X |-> 16, p |-> 16, o |-> 8, b |-> 2]
Numeral(n, upper) ==
  IF upper /\ n > 9 THEN <<"A", "B", "C", "D", "E", "F">>[n - 9]
  ELSE <<"0", "1", "2", "3", "4", "5", "6", "7", "8", "9", "a", "b", "c", "d", "e", "f">>[n + 1]

-----------------------------------------------------------------------------
(* Integers: their digits, the last one first, in a buffer of its own.     *)

Count(v, base) == CHOOSE n \in 1..Bits["ll"] : v < base^n /\ (n = 1 \/ v >= base^(n - 1))
DigitsBack(v, base, s) ==
  IF v = 0 /\ "precision" \in s.flags THEN <<>>
  ELSE [i \in 1..Upto(Count(v, base), BUFFER) |-> Numeral((v \div base^(i - 1)) % base, "upper" \in s.flags)]

Push(buf, c) == IF Len(buf) < BUFFER THEN Append(buf, c) ELSE buf
ZerosTo(buf, n) == buf \o Times(Upto(n, BUFFER) - Len(buf), "0")
\* A place is kept for the sign.
FieldWidth(neg, s) ==
  IF s.width > 0 /\ "zero" \in s.flags /\ (neg \/ s.flags \cap {"plus", "space"} # {}) THEN s.width - 1 ELSE s.width
Padded(buf, neg, s) ==
  IF "left" \in s.flags THEN buf
  ELSE ZerosTo(ZerosTo(buf, s.prec), IF "zero" \in s.flags THEN FieldWidth(neg, s) ELSE 0)

\* The prefix takes the places of zeros, if zeros they are.
Freed(buf, base, s) ==
  IF "precision" \notin s.flags /\ Len(buf) \in {s.prec, s.width} \ {0}
  THEN SubSeq(buf, 1, Len(buf) - (IF base = 16 /\ Len(buf) > 1 THEN 2 ELSE 1)) ELSE buf
Hashed(buf, base, s) ==
  LET b == Freed(buf, base, s)
  IN IF "hash" \notin s.flags THEN buf
     ELSE Push(IF base = 16 THEN Push(b, IF "upper" \in s.flags THEN "X" ELSE "x")
               ELSE IF base = 2 THEN Push(b, "b") ELSE b, "0")
WithSign(buf, neg, s) ==
  IF neg THEN Push(buf, "-") ELSE IF "plus" \in s.flags THEN Push(buf, "+")
  ELSE IF "space" \in s.flags THEN Push(buf, " ") ELSE buf

_out_rev(buf, s) ==
  Times(IF s.flags \cap {"left", "zero"} = {} THEN s.width - Len(buf) ELSE 0, " ")
    \o Reverse(buf) \o Times(IF "left" \in s.flags THEN s.width - Len(buf) ELSE 0, " ")
_ntoa_format(buf, neg, base, s) == _out_rev(WithSign(Hashed(Padded(buf, neg, s), base, s), neg, s), s)
_ntoa_long(v, neg, base, s) ==
  _ntoa_format(DigitsBack(v, base, s), neg, base, IF v = 0 THEN [s EXCEPT !.flags = @ \ {"hash"}] ELSE s)

-----------------------------------------------------------------------------
(* Floating point: rounded to the nearest, halves to even.                 *)

Carry(parts, prec) == IF parts.frac >= 10^prec THEN [whole |-> parts.whole + 1, frac |-> 0] ELSE parts
Parts10(v, prec) ==
  LET whole == v \div DEN
      tmp == (v % DEN) * 10^prec
      frac == tmp \div DEN
      twice == 2 * (tmp % DEN)
  IN IF twice > DEN THEN Carry([whole |-> whole, frac |-> frac + 1], prec)
     ELSE [whole |-> whole, frac |-> frac + IF twice = DEN /\ (frac = 0 \/ frac % 2 = 1) THEN 1 ELSE 0]
RoundWhole(v, whole) == IF 2 * (v - whole * DEN) >= DEN /\ whole % 2 = 1 THEN whole + 1 ELSE whole
Backwards(v, n) == [i \in 1..n |-> Numeral((v \div 10^(i - 1)) % 10, FALSE)]
Held(buf) == SubSeq(buf, 1, Upto(Len(buf), BUFFER))
FloatDigits(v, prec) ==
  LET n == Upto(prec, MAX_PREC)
      parts == Parts10(v, n)
      whole == IF n = 0 THEN RoundWhole(v, parts.whole) ELSE parts.whole
  IN Held(Times(prec - n, "0") \o (IF n = 0 THEN <<>> ELSE Append(Backwards(parts.frac, n), "."))
            \o Backwards(whole, Count(whole, 10)))
Special(arg, s) ==
  IF arg.kind = "nan" THEN <<"n", "a", "n">>
  ELSE <<"f", "n", "i">> \o (IF arg.num < 0 THEN <<"-">> ELSE IF "plus" \in s.flags THEN <<"+">> ELSE <<>>)
_ftoa(arg, s) ==
  LET neg == arg.num < 0
      prec == IF "precision" \in s.flags THEN s.prec ELSE DEFAULT_PREC
      buf == FloatDigits(IF neg THEN -arg.num ELSE arg.num, prec)
      filled == IF "zero" \in s.flags /\ "left" \notin s.flags THEN ZerosTo(buf, FieldWidth(neg, s)) ELSE buf
  IN IF arg.kind # "finite" THEN _out_rev(Special(arg, s), s) ELSE _out_rev(WithSign(filled, neg, s), s)

-----------------------------------------------------------------------------
(* Directives.                                                             *)

\* A slip: the flags of the directive before are kept.
ModifiersKept(d) ==
  [flags |-> d.flags \union modifiers.flags \union (IF d.prec = UNGIVEN THEN {} ELSE {"precision"}),
   width |-> d.width, prec |-> IF d.prec = UNGIVEN \/ d.prec < 0 THEN 0 ELSE d.prec]

\* Only an argument can be a negative width or precision.
Modifiers(d) ==
  [flags |-> d.flags \union (IF d.width < 0 THEN {"left"} ELSE {}) \union (IF d.prec = UNGIVEN THEN {} ELSE {"precision"}),
   width |-> IF d.width < 0 THEN -d.width ELSE d.width,
   prec |-> IF d.prec = UNGIVEN \/ d.prec < 0 THEN 0 ELSE d.prec]

IntegerFlags(d, flags) ==
  ((flags \ (IF Bases[d.conv] = 10 THEN {"hash"} ELSE {})) \ (IF d.conv = "d" THEN {} ELSE {"plus", "space"}))
    \ (IF "precision" \in flags THEN {"zero"} ELSE {})
Upper(d) == IF d.conv \in {"X", "p"} THEN {"upper"} ELSE {}
Integer(d, s) ==
  LET v == IF d.conv = "d" THEN AsSigned(d.arg, d.length) ELSE AsUnsigned(d.arg, d.length)
  IN _ntoa_long(IF v < 0 THEN -v ELSE v, v < 0, Bases[d.conv], [s EXCEPT !.flags = IntegerFlags(d, @) \union Upper(d)])
\* All digits of an address.
Pointer(d, s) ==
  _ntoa_long(d.arg, FALSE, 16, [flags |-> s.flags \union {"zero", "upper"}, width |-> Bits["l"] \div 4, prec |-> s.prec])
Justified(text, s) ==
  IF "left" \in s.flags THEN text \o Times(s.width - Len(text), " ") ELSE Times(s.width - Len(text), " ") \o text
Placeholder == <<"(", "n", "u", "l", "l", ")">>
Text(d, s) ==
  LET p == IF d.arg = UNGIVEN THEN Placeholder ELSE d.arg
  IN SubSeq(p, 1, IF "precision" \in s.flags THEN Upto(Len(p), s.prec) ELSE Len(p))

\* A string stream is of no size; the serial line takes a return before a feed.
ptser_write(text) == FlattenSeq([i \in DOMAIN text |-> IF text[i] = "lf" THEN <<"cr", "lf">> ELSE <<text[i]>>])
Written(text) == IF stream = "serial" THEN ptser_write(text) ELSE text
\* The end of a string is not passed on as a character, though counted.
Out(text) ==
  /\ sink' = sink \o Written(SelectSeq(text, LAMBDA c : c # NUL))
  /\ idx' = idx + Len(text)
  /\ place' = place + 1
  /\ UNCHANGED <<format, stream>>

Going == stream # "none" /\ place <= Len(format)
Item == format[place]
Conversion(convs) == Going /\ Item.conv \in convs /\ modifiers' = Modifiers(Item)

\* Also after % when it introduces no conversion.
PrintChar == Going /\ Item.conv = "" /\ Out(<<Item.arg>>) /\ UNCHANGED modifiers
PrintInteger == Conversion({"d", "u", "x", "X", "o", "b"}) /\ Out(Integer(Item, Modifiers(Item)))
PrintPointer == Conversion({"p"}) /\ Out(Pointer(Item, Modifiers(Item)))
PrintFloat == Conversion({"f"}) /\ Out(_ftoa(Item.arg, Modifiers(Item)))
PrintCharacter == Conversion({"c"}) /\ Out(Justified(<<Item.arg>>, Modifiers(Item)))
PrintString == Conversion({"s"}) /\ Out(Justified(Text(Item, Modifiers(Item)), Modifiers(Item)))

StringMemory(text, n) == [i \in 1..n + 1 |-> IF i = n + 1 THEN NUL ELSE IF i <= Len(text) THEN text[i] ELSE UNWRITTEN]
\* kvsprintf() ends the string behind the characters counted.
Return ==
  /\ place = Len(format) + 1 \/ (stream = "none" /\ place = 1)
  /\ place' = Len(format) + 2
  /\ sink' = IF stream = "string" THEN StringMemory(sink, idx) ELSE sink
  /\ UNCHANGED <<format, stream, modifiers, idx>>

PrintStart(formats, streams) ==
  /\ format \in formats /\ stream \in streams
  /\ place = 1 /\ idx = 0 /\ sink = <<>>
  /\ modifiers = [flags |-> {}, width |-> 0, prec |-> 0]
PrintInit == PrintStart(Format, Stream)
PrintNext == PrintChar \/ PrintInteger \/ PrintPointer \/ PrintFloat \/ PrintCharacter \/ PrintString \/ Return
PrintSpec == PrintInit /\ [][PrintNext]_printVars

-----------------------------------------------------------------------------
(* Properties.                                                             *)

Has(d, flag) == flag \in d.flags
Leftwards(d) == Has(d, "left") \/ d.width < 0
Cells(d) == IF d.width < 0 THEN -d.width ELSE d.width
Prec(d, default) == IF d.prec = UNGIVEN THEN default ELSE d.prec
NumberOf(d) == IF d.conv = "d" THEN AsSigned(d.arg, d.length) ELSE AsUnsigned(d.arg, d.length)
Abs(v) == IF v < 0 THEN -v ELSE v
Plainly(d) ==
  LET v == Abs(NumberOf(d)) base == Bases[d.conv] n == Count(v, base)
  IN IF v = 0 /\ d.prec = 0 THEN <<>> ELSE [i \in 1..n |-> Numeral((v \div base^(n - i)) % base, d.conv = "X")]
Lead(d) ==
  IF d.conv = "d"
  THEN IF NumberOf(d) < 0 THEN <<"-">> ELSE IF Has(d, "plus") THEN <<"+">> ELSE IF Has(d, "space") THEN <<" ">> ELSE <<>>
  ELSE IF Has(d, "hash") /\ NumberOf(d) # 0
       THEN IF d.conv = "o" THEN <<"0">> ELSE IF d.conv = "u" THEN <<>> ELSE <<"0", d.conv>>
       ELSE <<>>
Laid(d, lead, digits, zeros) ==
  LET text == lead \o Times(zeros - Len(digits), "0") \o digits
      gap == Times(Cells(d) - Len(text), " ")
  IN IF Leftwards(d) THEN text \o gap ELSE gap \o text
\* The sign or prefix, zeros up to the precision or else the width, digits.
InC(d) ==
  LET lead == Lead(d)
  IN Laid(d, lead, Plainly(d), IF Has(d, "zero") /\ ~Leftwards(d) /\ d.prec = UNGIVEN THEN Cells(d) - Len(lead) ELSE Prec(d, 1))

\* The nearest multiple of 10^-prec, the even one of two.
Nearest(v, prec) ==
  LET n == v * 10^prec
  IN CHOOSE k \in {n \div DEN, (n \div DEN) + 1} :
       LET off == 2 * Abs(k * DEN - n) IN off < DEN \/ (off = DEN /\ k % 2 = 0)
Decimal(v, prec) ==
  LET k == Nearest(v, prec) n == Count(k \div 10^prec, 10) + prec
      digit(i) == Numeral((k \div 10^(n - i)) % 10, FALSE)
  IN [i \in 1..n - prec |-> digit(i)] \o (IF prec = 0 THEN <<>> ELSE <<".">> \o [i \in 1..prec |-> digit(n - prec + i)])
FloatLead(d) ==
  IF d.arg.num < 0 THEN <<"-">> ELSE IF Has(d, "plus") THEN <<"+">> ELSE IF Has(d, "space") THEN <<" ">> ELSE <<>>
FloatInC(d) ==
  CASE d.arg.kind = "nan" -> Laid(d, <<>>, <<"n", "a", "n">>, 0)
    [] d.arg.kind = "inf" -> Laid(d, FloatLead(d), <<"i", "n", "f">>, 0)
    [] OTHER -> Laid(d, FloatLead(d), Decimal(Abs(d.arg.num), Prec(d, DEFAULT_PREC)),
                     IF Has(d, "zero") /\ ~Leftwards(d) THEN Cells(d) - Len(FloatLead(d)) ELSE 0)
\* The code pads no infinity when zeros are asked for, gives one no space for a
\* sign, and takes zeros for the decimals behind MAX_PREC.
FloatDiffers(d) ==
  IF d.arg.kind # "finite" THEN Has(d, "zero") \/ Has(d, "space")
  ELSE \/ Prec(d, 0) < 0
       \/ Prec(d, DEFAULT_PREC) > MAX_PREC /\ (Abs(d.arg.num) * 10^MAX_PREC) % DEN # 0
       \/ (Has(d, "hash") /\ d.prec = 0) \/ (Has(d, "zero") /\ Cells(d) > BUFFER)
       \/ Len(FloatLead(d)) + Len(Decimal(Abs(d.arg.num), Prec(d, DEFAULT_PREC))) > BUFFER

\* Where the code is known to differ from C: precisions of left-aligned
\* numbers and of octal ones with a prefix, negative ones, prefixes of numbers
\* as long as their width, and what is longer than the buffer.
Differs(d) ==
  LET digits == Plainly(d)
      Filled == Len(digits) = Cells(d) \/ (Has(d, "zero") /\ ~Leftwards(d) /\ Len(digits) <= Cells(d))
  IN \/ Prec(d, 0) < 0
     \/ Leftwards(d) /\ Prec(d, 0) > Len(digits)
     \/ Has(d, "hash") /\ d.conv = "o" /\ Prec(d, 0) > Len(digits)
     \/ /\ Has(d, "hash") /\ d.conv \in {"x", "X", "o", "b"} /\ d.prec = UNGIVEN /\ Filled
        /\ d.conv = "b" \/ Len(digits) + Len(Lead(d)) > Cells(d)
     \/ Len(digits) + Len(Lead(d)) > BUFFER \/ Prec(d, 0) + Len(Lead(d)) > BUFFER
     \/ Has(d, "zero") /\ Cells(d) > BUFFER

Agreed(d) == CASE d.conv \in {"", "c", "s", "p"} -> TRUE [] d.conv = "f" -> ~FloatDiffers(d) [] OTHER -> ~Differs(d)
Alike(d) ==
  CASE d.conv = "" -> <<d.arg>>
    [] d.conv = "c" -> Justified(<<d.arg>>, Modifiers(d))
    [] d.conv = "s" -> LET p == IF d.arg = UNGIVEN THEN Placeholder ELSE d.arg
                       IN Justified(SubSeq(p, 1, Upto(Prec(d, Len(p)), Len(p))), Modifiers(d))
    [] d.conv = "p" -> InC([d EXCEPT !.conv = "X", !.flags = {"zero"}, !.width = Bits["l"] \div 4, !.length = "l"])
    [] d.conv = "f" -> FloatInC(d)
    [] OTHER -> InC(d)

\* Each directive is written as C writes it, whatever came before it in the
\* format, and as many characters as are returned; a string ends right behind
\* them, and a stream that is off returns 0. Left out is where a NUL is printed
\* into a string, which then ends a character late
\* (lib/mp-printf.c _vsnprintf(), lib/stdio.c kvsprintf()).
PrintExact ==
  place = Len(format) + 2 /\ (\A i \in DOMAIN format : Agreed(format[i])) =>
    LET text == FlattenSeq([i \in DOMAIN format |-> Alike(format[i])])
        shown == SelectSeq(text, LAMBDA c : c # NUL)
    IN CASE stream = "none" -> sink = <<>> /\ idx = 0
         [] stream = "string" -> idx = Len(text) /\ (shown = text => sink = Append(text, NUL))
         [] stream = "serial" -> /\ idx = Len(text) /\ SelectSeq(sink, LAMBDA c : c # "cr") = shown
                                 /\ \A i \in DOMAIN sink : sink[i] = "lf" => i > 1 /\ sink[i - 1] = "cr"
         [] OTHER -> idx = Len(text) /\ sink = shown
=============================================================================
