-------------------------------- MODULE Formats --------------------------------
(***************************************************************************)
(* Numbers and formats of the C library: strtol and its relatives          *)
(* (libc/stdlib.rs), the scanf and the printf families                     *)
(* (libc/stdio/printf.rs).  One generic parser serves strings, which it    *)
(* reads by index, and streams, which it reads with getc and ungetc; the   *)
(* model keeps both places, the index `len' and the stream position `pos', *)
(* and reads at the one its subject has.  A format is a sequence of items, *)
(* a text a sequence of characters, and a number is as wide as Bits says.  *)
(***************************************************************************)
EXTENDS Integers, Sequences, SequencesExt, FiniteSetsExt, TLC

CONSTANTS
  Chars,     \* the characters the guest types
  MaxLen,    \* the longest text typed
  Scans,     \* the formats it scans with, sequences of items
  Prints,    \* the directives it prints with
  Bits,      \* the width of an integer by length modifier: scaled down from hh 8, h 16, none and l 32, ll 64
  Room       \* sizes given to snprintf

VARIABLES
  text,      \* the text in the guest's buffer
  origin     \* ghost: [how |-> "typed"] or the printing call it comes from
vars == <<text, origin>>

Null == "NUL"
Eof == "EOF"
DigitOf == "0" :> 0 @@ "1" :> 1 @@ "2" :> 2 @@ "3" :> 3 @@ "4" :> 4 @@ "5" :> 5 @@ "6" :> 6 @@ "7" :> 7
        @@ "8" :> 8 @@ "9" :> 9 @@ "a" :> 10 @@ "b" :> 11 @@ "c" :> 12 @@ "d" :> 13 @@ "e" :> 14 @@ "f" :> 15
IsDigit(c, base) == c \in DOMAIN DigitOf /\ DigitOf[c] < base
Space == {" ", "\n"}
Value(ds, base) == FoldLeft(LAMBDA v, d : v * base + DigitOf[d], 0, ds)
Signed(v, bits) == ((v + 2 ^ (bits - 1)) % 2 ^ bits) - 2 ^ (bits - 1)
Unsigned(v, bits) == v % 2 ^ bits

-----------------------------------------------------------------------------
\* A subject is a C string or a stream over a text
Str(t) == [stream |-> FALSE, text |-> t]
Stream(t) == [stream |-> TRUE, text |-> t]
At(S, i) == IF i < Len(S.text) THEN S.text[i + 1] ELSE IF S.stream THEN Eof ELSE Null
\* The number of characters from i on that the set holds
Run(S, i, Cond(_)) == Min({n \in 0..Len(S.text) : ~Cond(At(S, i + n))})
Place(S, r) == IF S.stream THEN r.pos ELSE r.off + r.len
Taken(r, n) == [r EXCEPT !.len = @ + n, !.pos = @ + n]

count_whitespace(S, offset, pos, base) ==
  LET n == Run(S, IF S.stream THEN pos ELSE offset, LAMBDA c : c \in Space)
  IN  [off |-> offset + n, ws |-> n, pos |-> pos + n, len |-> 0, prefix |-> 0, sign |-> "", base |-> base,
       digits |-> <<>>, stop |-> At(S, (IF S.stream THEN pos ELSE offset) + n) = Eof]
\* Every step reads a character and may end the parse, at the end of the
\* stream or of the field's width
ReadSign(S, r, max) ==
  LET c == At(S, Place(S, r))
  IN  IF c \in {"+", "-"} THEN [Taken(r, 1) EXCEPT !.sign = c, !.prefix = 1, !.stop = (max = 1)]
      ELSE [r EXCEPT !.stop = (c = Eof)]
DetectBase_octal_as_decimal(S, r) ==
  IF r.base # 0 THEN r
  ELSE [r EXCEPT !.base = IF At(S, Place(S, r)) = "0" /\ At(S, Place(S, r) + 1) = "x" THEN 16 ELSE 10]
DetectBase(S, r) ==
  LET c == At(S, Place(S, r))
      next == At(S, Place(S, r) + 1)
  IN  IF r.base # 0 THEN r
      ELSE IF c = Eof THEN [r EXCEPT !.stop = TRUE]
      ELSE IF c # "0" THEN [r EXCEPT !.base = 10]
      ELSE IF next = Eof THEN [r EXCEPT !.stop = TRUE, !.pos = @ + 1]
      ELSE [r EXCEPT !.base = IF next = "x" THEN 16 ELSE 8]
\* "0" is a prefix in base 8 and "0" or "0x" in base 16.  In base 8 a stream
\* gets the "0" back although the index has passed it
ReadPrefix(S, r, max) ==
  LET c == At(S, Place(S, r))
      one == Taken(r, 1)
      zero == [one EXCEPT !.prefix = @ + 1]
      next == At(S, Place(S, one))
      two == Taken(zero, 1)
  IN  IF r.base \notin {8, 16} \/ c # "0" THEN [r EXCEPT !.stop = r.base \in {8, 16} /\ c = Eof]
      ELSE IF one.len = max THEN [one EXCEPT !.stop = TRUE]
      ELSE IF r.base = 8 THEN [zero EXCEPT !.pos = @ - 1]
      ELSE IF next # "x" THEN [zero EXCEPT !.stop = (next = Eof)]
      ELSE IF two.len = max THEN [two EXCEPT !.stop = TRUE]
      ELSE [two EXCEPT !.prefix = @ + 1]
ReadDigits(S, r, max) ==
  LET n == Min({Run(S, Place(S, r), LAMBDA c : IsDigit(c, r.base)), max - r.len})
  IN  [Taken(r, n) EXCEPT !.digits = SubSeq(S.text, Place(S, r) + 1, Place(S, r) + n)]
\* The result is [ok, panic, empty, neg, digits, base, len, pos]: a parse with a
\* magnitude is a number, and so is a lone "0" in base 8; other parses without
\* one fail.  A width that ends in the prefix leaves a magnitude without digits
\* (empty), and a stream that ends before the base is known has no base (panic)
ParseStep(S, r, max, step) ==
  IF r.stop THEN r
  ELSE CASE step = "sign" -> ReadSign(S, r, max)
         [] step = "base" -> DetectBase(S, r)
         [] step = "prefix" -> ReadPrefix(S, r, max)
         [] step = "digits" -> ReadDigits(S, r, max)
IntResult(r) ==
  LET number == r.len > r.prefix
  IN  [ok |-> number \/ (r.base = 8 /\ r.prefix > 0), panic |-> r.base = 0, empty |-> number /\ r.digits = <<>>,
       neg |-> number /\ r.sign = "-", digits |-> r.digits, base |-> r.base,
       len |-> r.ws + (IF number THEN r.len ELSE r.prefix), pos |-> r.pos]
str_to_int_inner(S, offset, pos, base, max) ==
  IntResult(FoldLeft(LAMBDA r, step : ParseStep(S, r, max, step), count_whitespace(S, offset, pos, base),
                     <<"sign", "base", "prefix", "digits">>))
Magnitude(r) == Value(r.digits, r.base)

IntMax == 2 ^ (Bits[""] - 1) - 1
UIntMax == 2 ^ Bits[""] - 1
NoNumber == [val |-> 0, end |-> 0]
\* strtol and atoi: the magnitude is clamped before it is negated
LongOf(r, m) == IF r.ok THEN [val |-> IF r.neg THEN -m ELSE m, end |-> r.len] ELSE NoNumber
Parsed(t, base) == str_to_int_inner(Str(t), 0, 0, base, MaxLen + 8)
strtol(t, base) == LET r == Parsed(t, base) IN LongOf(r, Min({Magnitude(r), IntMax}))
\* strtoul and strtoull: a minus sign wraps
ULongOf(r, m) == IF r.ok THEN [val |-> Unsigned(IF r.neg THEN -m ELSE m, Bits[""]), end |-> r.len] ELSE NoNumber
strtoul(t, base) == LET r == Parsed(t, base) IN ULongOf(r, Min({Magnitude(r), UIntMax}))

\* A float is its accepted characters: [sign] digits [. digits] [e [sign] digits]
Signs(S, i) == IF At(S, i) \in {"+", "-"} THEN 1 ELSE 0
Digits(S, i) == Run(S, i, LAMBDA c : IsDigit(c, 10))
Exponent(S, i, signs) ==
  IF At(S, i) # "e" THEN [len |-> 0, ok |-> TRUE]
  ELSE LET power == Digits(S, i + 1 + signs) IN [len |-> 1 + signs + power, ok |-> power > 0]
FloatResult(S, r, from, digits, exp, e) ==
  [ok |-> digits > 0 /\ e.ok, val |-> SubSeq(S.text, from + 1, exp + e.len),
   len |-> r.ws + exp + e.len - from, pos |-> r.pos + exp + e.len - from]
AfterFraction(S, r, from, whole, dot, frac) ==
  FloatResult(S, r, from, whole + Max({frac - 1, 0}), dot + frac,
              Exponent(S, dot + frac, Signs(S, dot + frac + 1)))
AfterWhole(S, r, from, whole, dot) ==
  AfterFraction(S, r, from, whole, dot, IF At(S, dot) = "." THEN 1 + Digits(S, dot + 1) ELSE 0)
AfterSign(S, r, from, signs) ==
  LET whole == Digits(S, from + signs) IN AfterWhole(S, r, from, whole, from + signs + whole)
AfterSpace(S, r) == AfterSign(S, r, Place(S, r), Signs(S, Place(S, r)))
atof_inner(S, offset, pos) == AfterSpace(S, count_whitespace(S, offset, pos, 10))

-----------------------------------------------------------------------------
\* sscanf and fscanf.  A scan is [idx, pos, n, vals, stop]
Literal(c) == [kind |-> "literal", c |-> c]
Conv(spec, width, mod) == [kind |-> "conv", spec |-> spec, width |-> width, mod |-> mod]
Set(width, inverted, cs) == [kind |-> "set", width |-> width, inverted |-> inverted, cs |-> cs]
Where(S, z) == IF S.stream THEN z.pos ELSE z.idx
Moved(z, n) == [z EXCEPT !.idx = @ + n, !.pos = @ + n]
Stored(z, v) == [z EXCEPT !.vals = Append(@, v), !.n = @ + 1]
Stopped(z, why) == [z EXCEPT !.stop = why]
SkipSpace(S, z) ==
  LET n == Run(S, Where(S, z), LAMBDA c : c \in Space)
      y == Moved(z, n)
  IN  IF At(S, Where(S, y)) = Eof THEN Stopped(y, "end") ELSE y
\* A space matches any run of spaces; a literal that differs ends the scan, and
\* a stream does not get it back
ScanLiteral(S, z, item) ==
  LET c == At(S, Where(S, z))
      y == SkipSpace(S, z)
  IN  IF c = Eof \/ (item.c \in Space /\ y.stop = "end") THEN Stopped(z, "panic")
      ELSE IF item.c \in Space THEN y
      ELSE IF c = item.c THEN Moved(z, 1)
      ELSE Stopped([z EXCEPT !.pos = @ + 1], "literal")
StoreInteger(z, item, r) ==
  LET y == [z EXCEPT !.idx = @ + r.len, !.pos = r.pos]
      v == IF r.neg THEN -Magnitude(r) ELSE Magnitude(r)
      bits == Bits[item.mod]
  IN  IF r.panic \/ r.empty THEN Stopped(z, "panic")
      ELSE IF ~r.ok THEN Stopped([z EXCEPT !.pos = r.pos], "input")
      ELSE Stored(y, IF item.spec \in {"d", "i"} THEN Signed(v, bits) ELSE Unsigned(v, bits))
ScanInteger(S, z, item) ==
  LET base == CASE item.spec = "d" -> 10 [] item.spec = "i" -> 0 [] item.spec = "u" -> 10 [] OTHER -> 16
  IN  StoreInteger(z, item, str_to_int_inner(S, z.idx, z.pos, base, IF item.width > 0 THEN item.width ELSE MaxLen + 8))
StoreFloat(z, r) ==
  IF r.ok THEN Stored([z EXCEPT !.idx = @ + r.len, !.pos = r.pos], r.val)
      ELSE Stopped([z EXCEPT !.pos = r.pos], "input")
ScanFloat(S, z) == StoreFloat(z, atof_inner(S, z.idx, z.pos))
ScanWord(S, z, item) ==
  LET all == Run(S, Where(S, z), LAMBDA c : c \notin Space \cup {Null, Eof})
      n == IF item.width > 0 THEN Min({item.width, all}) ELSE all
  IN  Stored(Moved(z, n), SubSeq(S.text, Where(S, z) + 1, Where(S, z) + n))
\* %[...]: a conversion that matches nothing is not counted and does not end
\* the scan
ScanSet(S, z, item) ==
  LET In(c) == c # Null /\ c # Eof /\ ((c \in item.cs) # item.inverted)
      all == Run(S, Where(S, z), In)
      n == IF item.width > 0 THEN Min({item.width, all}) ELSE all
      y == Moved(z, n)
  IN  IF At(S, Where(S, y)) = Eof /\ (item.width = 0 \/ n < item.width) THEN Stopped(z, "panic")
      ELSE IF n > 0 THEN Stored(y, SubSeq(S.text, Where(S, z) + 1, Where(S, z) + n))
      ELSE y
ScanConversion(S, y, item) ==
  IF y.stop # "" THEN y
  ELSE CASE item.spec \in {"d", "i", "x", "u"} -> ScanInteger(S, y, item)
         [] item.spec = "f" -> ScanFloat(S, y)
         [] item.spec = "s" -> ScanWord(S, y, item)
ScanItem(S, z, item) ==
  IF z.stop # "" THEN z
  ELSE CASE item.kind = "literal" -> ScanLiteral(S, z, item)
         [] item.kind = "set" -> ScanSet(S, z, item)
         [] item.kind = "conv" -> ScanConversion(S, SkipSpace(S, z), item)
sscanf_common(S, fmt) ==
  FoldLeft(LAMBDA z, item : ScanItem(S, z, item), [idx |-> 0, pos |-> 0, n |-> 0, vals |-> <<>>, stop |-> ""], fmt)
sscanf(t, fmt) == sscanf_common(Str(t), fmt)
\* An empty stream is answered before the scan
fscanf(t, fmt) ==
  IF t = <<>> THEN [idx |-> 0, pos |-> 0, n |-> -1, vals |-> <<>>, stop |-> "end"] ELSE sscanf_common(Stream(t), fmt)

-----------------------------------------------------------------------------
\* printf: a directive [plus, zero, left, width, prec, mod, spec], prec = -1
\* when there is none
RECURSIVE DigitsOf(_, _)
DigitsOf(v, base) ==
  LET d == CHOOSE c \in DOMAIN DigitOf : DigitOf[c] = v % base
  IN  IF v < base THEN <<d>> ELSE Append(DigitsOf(v \div base, base), d)
Repeat(c, n) == [i \in 1..Max({n, 0}) |-> c]
format_decimal_integer(magnitude, negative, d) ==
  LET sign == IF negative THEN <<"-">> ELSE IF d.plus THEN <<"+">> ELSE <<>>
      ds == IF magnitude = 0 /\ d.prec = 0 THEN <<>> ELSE DigitsOf(magnitude, 10)
      digits == Repeat("0", d.prec - Len(ds)) \o ds
      padding == d.width - Len(digits) - Len(sign)
      zeros == d.zero /\ d.prec = -1
  IN  (IF ~d.left /\ ~zeros THEN Repeat(" ", padding) ELSE <<>>) \o sign
      \o (IF ~d.left /\ zeros THEN Repeat("0", padding) ELSE <<>>) \o digits
      \o (IF d.left THEN Repeat(" ", padding) ELSE <<>>)
format_hex(v, d) ==
  LET ds == DigitsOf(v, 16)
  IN  IF d.width > 0 THEN Repeat(IF d.zero THEN "0" ELSE " ", d.width - Len(ds)) \o ds
      ELSE Repeat("0", d.prec - Len(ds)) \o ds
\* %s: with a precision the width is not looked at
format_string(s, d) ==
  IF d.prec >= 0 THEN SubSeq(s, 1, Min({d.prec, Len(s)}))
  ELSE IF d.left THEN s \o Repeat(" ", d.width - Len(s)) ELSE Repeat(" ", d.width - Len(s)) \o s
printf_inner(d, arg) ==
  CASE d.spec = "d" -> LET v == Signed(arg, Bits[d.mod]) IN format_decimal_integer(IF v < 0 THEN -v ELSE v, v < 0, d)
    [] d.spec = "u" -> format_decimal_integer(Unsigned(arg, Bits[d.mod]), FALSE, [d EXCEPT !.plus = FALSE])
    [] d.spec = "x" -> format_hex(Unsigned(arg, Bits[d.mod]), d)
    [] d.spec = "s" -> format_string(arg, d)
\* The assertions of each specifier
Allowed(d) ==
  /\ d.plus => d.spec \in {"d", "u"}
  /\ d.left => d.spec \in {"d", "u", "s"} /\ (d.spec = "s" => d.prec = -1)
  /\ d.spec = "x" => (d.prec >= 0 => d.width = 0 /\ d.prec > 0)
  /\ d.spec = "s" => ~d.zero

Init == text = <<>> /\ origin = [how |-> "typed"]
type(c) == origin.how = "typed" /\ Len(text) < MaxLen /\ text' = Append(text, c) /\ UNCHANGED origin
\* vsnprintf, and vsprintf as snprintf with all the room: the text is cut to
\* the room, terminator included, and the result is the whole length
vsnprintf(d, arg, n) ==
  LET res == printf_inner(d, arg)
  IN  /\ origin.how = "typed" /\ text = <<>> /\ Allowed(d)
      /\ text' = (IF n = 0 THEN <<>> ELSE SubSeq(res, 1, Min({n - 1, Len(res)})))
      /\ origin' = [how |-> "printed", d |-> d, arg |-> arg, n |-> n, ret |-> Len(res), written |-> IF n = 0 THEN 0 ELSE Min({n, Len(res) + 1})]
\* vswprintf: without room for the terminator the result is -1
vswprintf(d, arg, n) ==
  LET res == printf_inner(d, arg)
      w == Min({n, Len(res)})
  IN  /\ origin.how = "typed" /\ text = <<>> /\ Allowed(d)
      /\ text' = SubSeq(res, 1, w)
      /\ origin' = [how |-> "wide", d |-> d, arg |-> arg, n |-> n, ret |-> IF w >= n THEN -1 ELSE w, written |-> IF w >= n THEN w ELSE w + 1]
Args(d) == IF d.spec = "s" THEN {<<>>, <<"a">>, <<"a", "b", "c">>} ELSE {-(2 ^ (Bits[d.mod] - 1)), -1, 0, 5, 2 ^ Bits[d.mod] - 1}
Next ==
  \/ \E c \in Chars : type(c)
  \/ \E d \in Prints : \E arg \in Args(d), n \in Room : vsnprintf(d, arg, n) \/ vswprintf(d, arg, n)
Spec == Init /\ [][Next]_vars

-----------------------------------------------------------------------------
\* strtol and strtoul return the number that the longest prefix of the text
\* with the grammar of the C standard denotes, clamped or wrapped to the width,
\* and where it ends (the smallest number is out of reach, its magnitude being
\* clamped first).  Excepted are the texts the code is known to refuse: a
\* hexadecimal number whose digits are only the "0" of a prefix; and a lone
\* sign in base 8, which it takes for a number
NumbersRight ==
  LET ws == Run(Str(text), 0, LAMBDA c : c \in Space)
      t == SubSeq(text, ws + 1, Len(text))
      signs == IF t # <<>> /\ Head(t) \in {"+", "-"} THEN 1 ELSE 0
      neg == signs = 1 /\ Head(t) = "-"
      w == SubSeq(t, signs + 1, Len(t))
      hex == IsPrefix(<<"0", "x">>, w) /\ Len(w) > 2 /\ IsDigit(w[3], 16)
      Base(b) == IF b # 0 THEN b ELSE IF IsPrefix(<<"0", "x">>, w) THEN 16 ELSE IF w # <<>> /\ Head(w) = "0" THEN 8 ELSE 10
      Body(b) == IF Base(b) = 16 /\ hex THEN 2 ELSE 0
      Numeral(b) == LET n == Run(Str(w), Body(b), LAMBDA c : IsDigit(c, Base(b))) IN SubSeq(w, Body(b) + 1, Body(b) + n)
      Known(b) == (Base(b) = 16 /\ Numeral(b) = <<"0">> /\ ~hex) \/ (Base(b) = 8 /\ Numeral(b) = <<>> /\ signs = 1)
      Magn(b) == Value(Numeral(b), Base(b))
      End(b) == ws + signs + Body(b) + Len(Numeral(b))
      Clamped(m, top, b) == IF Numeral(b) = <<>> THEN 0 ELSE IF neg THEN -Min({m, top}) ELSE Min({m, top})
  IN  \A b \in {0, 8, 10, 16} :
        (origin.how = "typed" /\ ~Known(b)) =>
          \A n \in {strtol(text, b)}, u \in {strtoul(text, b)} :
            /\ n.end = u.end /\ n.end = (IF Numeral(b) = <<>> THEN 0 ELSE End(b))
            /\ n.val = Clamped(Magn(b), IntMax, b) /\ u.val = Unsigned(Clamped(Magn(b), UIntMax, b), Bits[""])

\* A line scanned from a stream gives what the same line gives as a string:
\* the same count and values, and the stream is left after what was matched,
\* one character further after a literal that differs (it is not given back)
ScanAgrees ==
  \A fmt \in Scans :
    origin.how = "typed" =>
      \A s \in {sscanf(Append(text, "\n"), fmt)}, f \in {fscanf(Append(text, "\n"), fmt)} :
        (s.stop # "panic" /\ f.stop \notin {"panic", "end"}) =>
          /\ f.n = s.n /\ f.vals = s.vals
          /\ s.stop \in {"", "literal"} => f.pos = s.idx + (IF s.stop = "literal" THEN 1 ELSE 0)

\* What is printed stays within the room, the result tells whether it was cut,
\* its width is honoured, and scanning it back gives the number printed
PrintedRight ==
  origin.how # "typed" =>
    LET d == origin.d
        whole == Len(text) = origin.ret
        bits == Bits[d.mod]
    IN  \A back \in {sscanf(text, <<Conv(d.spec, 0, d.mod)>>)} :
        /\ origin.written <= origin.n
        /\ (origin.n > 0 /\ origin.ret >= origin.n) => ~whole
        /\ (whole /\ d.spec # "s") => Len(text) >= d.width
        /\ (whole /\ d.spec \in {"d", "u"} /\ ~(d.prec = 0 /\ origin.arg % 2 ^ bits = 0)) =>
             back.n = 1 /\ back.vals = <<IF d.spec = "d" THEN Signed(origin.arg, bits) ELSE Unsigned(origin.arg, bits)>>
        /\ (whole /\ d.spec = "x" /\ origin.arg % 2 ^ bits # 0) => back.vals = <<Unsigned(origin.arg, bits)>>
        /\ (whole /\ d.prec >= 1 /\ d.spec \in {"d", "u"}) => Cardinality({i \in DOMAIN text : IsDigit(text[i], 10)}) >= d.prec
=============================================================================
