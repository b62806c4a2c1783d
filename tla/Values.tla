------------------------------- MODULE Values --------------------------------
(***************************************************************************)
(* How libass reads values: decimal numbers (ass_strtod.c), integers and   *)
(* colours of headers (ass.c) and of override tags (ass_parse.c), and the  *)
(* encodings of names and texts (ass_utils.c).  These are functions; a     *)
(* step is a call of one of them, or a part of ass_strtod.                 *)
(*                                                                         *)
(* Widths are constants, so that a short text gets to their ends: a size_t *)
(* is a number below SizeMod, an int one of four bytes of Byte values; so  *)
(* is the longest exponent.  A double is kept as the integer its mantissa  *)
(* is and the power of ten; how it rounds is left out.                     *)
(***************************************************************************)
EXTENDS Integers, Sequences, FiniteSetsExt, SequencesExt

CONSTANTS
  SizeMod,           \* size_t is 0 .. SizeMod - 1
  MantissaDigits,    \* 18: what two ints hold, half each
  Powers,            \* the length of powersOf10
  Max10, Min10,      \* DBL_MAX_10_EXP and -DBL_MIN_10_EXP
  Byte,              \* an int has four bytes, of so many values each
  LongMax,           \* LLONG_MAX
  Readings           \* the calls: [kind, ...]

VARIABLE reading     \* [step, args, got], what a call has found out so far

maxExponent == 2 ^ Powers - 1
IntMod == Byte ^ 4
IntMax == IntMod \div 2 - 1

At(t, i) == IF i <= Len(t) THEN t[i] ELSE "NUL"

\* Where the characters of S that begin at i end.
Past(t, i, S) ==
  CHOOSE j \in i .. Len(t) + 1 : At(t, j) \notin S /\ \A k \in i .. j - 1 : t[k] \in S

Blank == {" ", "tab"}
Lower == <<"0", "1", "2", "3", "4", "5", "6", "7", "8", "9", "a", "b", "c", "d", "e", "f">>
Upper == <<"0", "1", "2", "3", "4", "5", "6", "7", "8", "9", "A", "B", "C", "D", "E", "F">>
DigitOf == [c \in Range(Lower) \cup Range(Upper) |->
              CHOOSE d \in 0..15 : c \in {Lower[d + 1], Upper[d + 1]}]
Numerals(base) == {c \in DOMAIN DigitOf : DigitOf[c] < base}
Digits == Numerals(10)

-----------------------------------------------------------------------------
(* ass_strtod                                                              *)

\* A sign, which may be missing: whether it is a minus, and what is behind it.
Signed(t, i) ==
  [minus |-> At(t, i) = "-", next |-> IF At(t, i) \in {"-", "+"} THEN i + 1 ELSE i]

\* The loop that counts the mantissa, point included: its length, how many of
\* its characters are before the point, how many before the first digit that
\* counts; point and zeros are the length where there is none.
CountMantissa(t, i) ==
  LET whole == Past(t, i, Digits)
      end == IF At(t, whole) = "." THEN Past(t, whole + 1, Digits) ELSE whole
      counts == {k \in i .. end - 1 : t[k] \in Digits \ {"0"}}
  IN [size |-> end - i, pointed |-> At(t, whole) = ".", point |-> whole - i,
      zeros |-> IF counts = {} THEN end - i ELSE Min(counts) - i, end |-> end]

\* The point is not a digit; digits beyond the 18th are ignored.
Mantissa(t, m) ==
  LET size == IF m.pointed THEN m.size - 1 ELSE m.size
      zeros == IF m.pointed /\ m.point < m.zeros THEN m.zeros - 1 ELSE m.zeros
      used == IF size - zeros > MantissaDigits THEN zeros + MantissaDigits ELSE size
  IN [digits |-> SelectSeq(SubSeq(t, m.end - (m.size - m.zeros), m.end - 1),
                           LAMBDA c : c \in Digits),
      used |-> used, zeros |-> zeros,
      negative |-> m.point < used,                                 \* fracExpSign
      exp |-> IF m.point < used THEN used - m.point ELSE m.point - used,
      end |-> m.end]

ValueOf(ds) == FoldLeft(LAMBDA v, c : 10 * v + DigitOf[c], 0, ds)

\* Two ints collect half of the digits each.
Fraction(ds) ==
  LET half == MantissaDigits \div 2
      first == IF Len(ds) > half THEN Len(ds) - half ELSE 0
  IN 10 ^ half * ValueOf(SubSeq(ds, 1, first)) + ValueOf(SubSeq(ds, first + 1, Len(ds)))

\* More digits of the exponent than this are too many.
\* (Mutant: the fraction does not make room for more.)
ExpLimit_narrow(minus, m) ==
  IF minus = m.negative
    THEN IF maxExponent < m.exp THEN 0 ELSE (maxExponent - m.exp) \div 10
    ELSE maxExponent \div 10
ExpLimit(minus, m) ==
  IF minus = m.negative
    THEN IF maxExponent < m.exp THEN 0 ELSE (maxExponent - m.exp) \div 10
    ELSE m.exp \div 10 + ((m.exp % 10) + maxExponent) \div 10

\* The loop over the digits of the exponent: one more digit.
ExpDigit(e, c, limit) ==
  IF e.over \/ e.exp > limit \/ e.wrapped THEN [e EXCEPT !.over = TRUE]
  ELSE [e EXCEPT !.wrapped = e.exp > (SizeMod - 1 - DigitOf[c]) \div 10,
                 !.exp = (10 * e.exp + DigitOf[c]) % SizeMod]

\* Both exponents together, in size_t.
Sum(e, minus, m) ==
  IF minus = m.negative THEN [exp |-> (m.exp + e.exp) % SizeMod, minus |-> minus]
  ELSE IF m.exp <= e.exp \/ e.wrapped
         THEN [exp |-> (e.exp - m.exp) % SizeMod, minus |-> minus]
  ELSE [exp |-> m.exp - e.exp, minus |-> m.negative]

Exponent(t, m) ==
  IF At(t, m.end) \notin {"E", "e"}
    THEN [exp |-> m.exp, minus |-> m.negative, over |-> FALSE, next |-> m.end]
  ELSE
    LET sign == Signed(t, m.end + 1)
        next == Past(t, sign.next, Digits)
        e == FoldLeft(LAMBDA x, c : ExpDigit(x, c, ExpLimit(sign.minus, m)),
                      [exp |-> 0, wrapped |-> FALSE, over |-> FALSE],
                      SubSeq(t, sign.next, next - 1))
        sum == Sum(e, sign.minus, m)
    IN IF e.over THEN [exp |-> 0, minus |-> sign.minus, over |-> TRUE, next |-> next]
       ELSE [exp |-> sum.exp, minus |-> sum.minus, over |-> FALSE, next |-> next]

\* The powers of ten the fraction is divided and multiplied by; small results
\* are first brought below one.
Scale(exp, minus, size) ==
  IF exp <= Max10 \/ ~minus THEN [before |-> 0, exp |-> exp]
  ELSE IF exp > Min10 THEN [before |-> size, exp |-> exp - size]
  ELSE [before |-> 0, exp |-> exp]

Limited(m, e) ==
  [minus |-> e.minus, next |-> e.next, over |-> e.over \/ e.exp > maxExponent,
   exp |-> IF e.over \/ e.exp > maxExponent THEN maxExponent ELSE e.exp,
   fraction |-> Fraction(SubSeq(m.digits, 1, m.used - m.zeros)), size |-> m.used - m.zeros]

Strtod(sign, n) ==
  [read |-> TRUE, minus |-> sign.minus, fraction |-> n.fraction, small |-> n.minus,
   exp |-> n.exp, range |-> n.over /\ n.fraction # 0,
   scale |-> Scale(n.exp, n.minus, n.size), next |-> n.next]

-----------------------------------------------------------------------------
(* Integers and colours                                                    *)

Collect(ds, base, mod) == FoldLeft(LAMBDA v, c : (v * base + DigitOf[c]) % mod, 0, ds)

\* read_digits and mystrtou32_modulo: an integer of any length, modulo 2^32.
Modulo(t, i, base) ==
  LET sign == Signed(t, Past(t, i, Blank))
      start == IF base = 16 /\ At(t, sign.next) = "0" /\ At(t, sign.next + 1) \in {"x", "X"}
                 THEN sign.next + 2 ELSE sign.next
      val == Collect(SubSeq(t, start, Past(t, start, Numerals(base)) - 1), base, IntMod)
  IN (IF sign.minus THEN -val ELSE val) % IntMod

\* parse_int_header
HeaderInt(t) ==
  IF <<At(t, 1), At(t, 2)>> \in {"&"} \X {"h", "H"} \cup {"0"} \X {"x", "X"}
    THEN Modulo(t, 3, 16) ELSE Modulo(t, 1, 10)

\* strtoll, which saturates, and skips a 0x only before a digit.
Strtoll(t, i, base) ==
  LET sign == Signed(t, Past(t, i, Blank))
      prefixed == base = 16 /\ At(t, sign.next) = "0" /\ At(t, sign.next + 1) \in {"x", "X"}
                  /\ At(t, sign.next + 2) \in Numerals(16)
      start == IF prefixed THEN sign.next + 2 ELSE sign.next
      val == FoldLeft(LAMBDA v, c : Min({v * base + DigitOf[c], LongMax}), 0,
                      SubSeq(t, start, Past(t, start, Numerals(base)) - 1))
  IN IF sign.minus THEN -val ELSE val

\* mystrtoi32
Saturated(t, i, base) == Max({-IntMax - 1, Min({Strtoll(t, i, base), IntMax})})

\* ass_bswap32
Bswap(v) ==
  (v % Byte) * Byte ^ 3 + ((v \div Byte) % Byte) * Byte ^ 2
  + ((v \div Byte ^ 2) % Byte) * Byte + (v \div Byte ^ 3)

\* parse_color_header, parse_color_tag
HeaderColor(t) == Bswap(HeaderInt(t))
TagColor(t) == Bswap(Saturated(t, Past(t, 1, {"&", "H"}), 16) % IntMod)

-----------------------------------------------------------------------------
(* UTF-8 and UTF-16                                                        *)

\* How many bytes a byte says will follow it: -1 for ASCII.
Follows(b) == (CASE b < 128 -> 0 [] b < 192 -> 1 [] b < 224 -> 2 [] b < 240 -> 3
                 [] b < 248 -> 4 [] b < 252 -> 5 [] b < 254 -> 6 [] b < 255 -> 7
                 [] OTHER -> 8) - 1

\* ass_utf8_get_char: a byte that begins no sequence, or one of another length
\* than it says, is a character by itself.
GetChar(bytes, i) ==
  LET len == Follows(bytes[i])
      next == CHOOSE j \in i + 1 .. Len(bytes) + 1 :
                /\ j > Len(bytes) \/ bytes[j] \div 64 # 2
                /\ \A k \in i + 1 .. j - 1 : bytes[k] \div 64 = 2
  IN IF len \notin 1..4 \/ next - i - 1 # len THEN [c |-> bytes[i], next |-> i + 1]
     ELSE [c |-> FoldLeft(LAMBDA c, b : 64 * c + (b % 64), bytes[i] % (2 ^ (6 - len)),
                          SubSeq(bytes, i + 1, next - 1)),
           next |-> next]

\* The loop that reads a text.
RECURSIVE CharsFrom(_, _)
CharsFrom(bytes, i) ==
  IF i > Len(bytes) THEN <<>>
  ELSE LET r == GetChar(bytes, i) IN <<r.c>> \o CharsFrom(bytes, r.next)

\* ass_utf8_put_char
PutChar(ch) ==
  CASE ch < 2 ^ 7 -> <<ch>>
    [] ch \in 2 ^ 7 .. 2 ^ 11 - 1 -> <<192 + (ch \div 64), 128 + (ch % 64)>>
    [] ch \in 2 ^ 11 .. 2 ^ 16 - 1 ->
         <<224 + (ch \div 64 ^ 2), 128 + ((ch \div 64) % 64), 128 + (ch % 64)>>
    [] ch \in 2 ^ 16 .. 17 * 2 ^ 16 - 1 ->
         <<240 + (ch \div 64 ^ 3), 128 + ((ch \div 64 ^ 2) % 64), 128 + ((ch \div 64) % 64),
           128 + (ch % 64)>>
    [] OTHER -> <<>>

Highs == 55296 .. 56319    \* 0xD800 .. 0xDBFF
Lows  == 56320 .. 57343    \* 0xDC00 .. 0xDFFF
Bad == 65533               \* 0xFFFD

\* ass_read_utf16be
\* (Mutant: what follows a high surrogate in vain is skipped.)
ReadUtf16_skips(src, i) ==
  LET Unit(k) == 256 * src[k] + src[k + 1]
  IN IF i = Len(src) THEN [c |-> Bad, next |-> i + 1]
     ELSE IF Unit(i) \in Highs
       THEN IF i + 3 > Len(src) THEN [c |-> Bad, next |-> Len(src) + 1]
            ELSE IF Unit(i + 2) \notin Lows THEN [c |-> Bad, next |-> i + 4]
            ELSE [c |-> 2 ^ 16 + (Unit(i) % 1024) * 1024 + (Unit(i + 2) % 1024), next |-> i + 4]
     ELSE [c |-> IF Unit(i) \in Lows THEN Bad ELSE Unit(i), next |-> i + 2]
ReadUtf16(src, i) ==
  LET Unit(k) == 256 * src[k] + src[k + 1]
  IN IF i = Len(src) THEN [c |-> Bad, next |-> i + 1]
     ELSE IF Unit(i) \in Highs
       THEN IF i + 3 > Len(src) THEN [c |-> Bad, next |-> Len(src) + 1]
            ELSE IF Unit(i + 2) \notin Lows THEN [c |-> Bad, next |-> i + 2]
            ELSE [c |-> 2 ^ 16 + (Unit(i) % 1024) * 1024 + (Unit(i + 2) % 1024), next |-> i + 4]
     ELSE [c |-> IF Unit(i) \in Lows THEN Bad ELSE Unit(i), next |-> i + 2]

\* ass_utf16be_to_utf8: the bytes written, without the NUL.
RECURSIVE Utf8From(_, _, _)
Utf8From(src, i, room) ==
  IF i > Len(src) \/ room < 5 THEN <<>>
  ELSE LET r == ReadUtf16(src, i)
           s == PutChar(r.c)
       IN s \o Utf8From(src, r.next, room - Len(s))

-----------------------------------------------------------------------------
(* Calls                                                                   *)

NotReading == [step |-> "off"]
NewReading(what) == [step |-> "called", args |-> what, got |-> <<>>]

Read(kind, from, to, Result(_)) ==
  /\ reading.step = from /\ reading.args.kind = kind
  /\ reading' = [reading EXCEPT !.step = to, !.got = Append(@, Result(reading))]

ReadSign     == Read("number", "called", "count",
                     LAMBDA r : Signed(r.args.text, Past(r.args.text, 1, Blank)))
CountDigits  == Read("number", "count", "digits",
                     LAMBDA r : CountMantissa(r.args.text, r.got[1].next))
TakeDigits   == Read("number", "digits", "exponent",
                     LAMBDA r : Mantissa(r.args.text, r.got[2]))
NoDigits     == reading.step = "exponent" /\ reading.got[3].used = 0
                /\ Read("number", "exponent", "done", LAMBDA r : [read |-> FALSE, next |-> 1])
ReadExponent == reading.step = "exponent" /\ reading.got[3].used > 0
                /\ Read("number", "exponent", "limit",
                        LAMBDA r : Exponent(r.args.text, r.got[3]))
LimitExponent == Read("number", "limit", "scale", LAMBDA r : Limited(r.got[3], r.got[4]))
ScaleNumber  == Read("number", "scale", "done", LAMBDA r : Strtod(r.got[1], r.got[5]))
ReadNumber   == ReadSign \/ CountDigits \/ TakeDigits \/ NoDigits \/ ReadExponent
                \/ LimitExponent \/ ScaleNumber

ReadInteger == Read("integer", "called", "done", LAMBDA r : HeaderInt(r.args.text))
ReadColor   == Read("color", "called", "done",
                    LAMBDA r : <<HeaderColor(<<"&", "H">> \o r.args.digits),
                                 TagColor(<<"&", "H">> \o r.args.digits \o <<"&">>)>>)
ReadText    == Read("text", "called", "done",
                    LAMBDA r : CharsFrom(FlattenSeq([k \in DOMAIN r.args.text |-> PutChar(r.args.text[k])]), 1))
ReadName    == Read("name", "called", "done",
                    LAMBDA r : Utf8From(r.args.bytes, 1, r.args.room))

ReadValue == ReadNumber \/ ReadInteger \/ ReadColor \/ ReadText \/ ReadName

-----------------------------------------------------------------------------
(* Properties                                                              *)

\* What the digits ds mean in a base.
Positional(ds, base) ==
  MapThenSumSet(LAMBDA k : DigitOf[ds[k]] * base ^ (Len(ds) - k), DOMAIN ds)

\* A number as it is written: sign, whole part, fraction, exponent.
NumberExact(a, r) ==
  LET ds == a.whole \o a.frac
      zeros == Cardinality({k \in DOMAIN ds : \A j \in 1..k : ds[j] = "0"})
      counts == SubSeq(ds, zeros + 1, Len(ds))
      kept == SubSeq(counts, 1, Min({Len(counts), MantissaDigits}))
      power == (IF a.expMinus THEN -1 ELSE 1) * Positional(a.exp, 10)
               - Len(a.frac) + Len(counts) - Len(kept)
  IN IF ds = <<>> THEN ~r.read
     ELSE /\ r.read /\ r.next = Len(a.text) + 1
          /\ r.minus = a.minus /\ r.fraction = Positional(kept, 10)
          /\ r.scale.before + r.scale.exp = r.exp /\ r.scale.exp \in 0 .. maxExponent
          /\ kept # <<>> =>
               /\ r.range = (power \notin -maxExponent .. maxExponent)
               /\ r.exp = Min({maxExponent, IF power < 0 THEN -power ELSE power})
               /\ power # 0 => r.small = (power < 0)

\* Numbers are read as they are written, however many digits, zeros before or
\* behind the point and digits of the exponent they have: whole part, fraction
\* and exponent are brought together in unsigned numbers that may wrap
\* (ass_strtod). An integer of a header is what it says modulo 2^32, also when
\* it is longer (mystrtou32_modulo). A colour of three bytes is the same colour
\* in a header and in a tag, though one wraps and the other saturates
\* (parse_color_header, parse_color_tag).
NumbersRead ==
  reading.step = "done" =>
    LET a == reading.args
        r == Last(reading.got)
    IN CASE a.kind = "number" -> NumberExact(a, r)
         [] a.kind = "integer" ->
              r = (IF a.minus THEN -1 ELSE 1) * Positional(a.digits, a.base) % IntMod
         [] a.kind = "color" ->
              LET b(k) == DigitOf[a.digits[k]]
              IN r[1] = r[2] /\ r[1] = ((b(3) * Byte + b(2)) * Byte + b(1)) * Byte
         [] OTHER -> TRUE

\* What UTF-16 says, unit by unit: a surrogate without its other half, and a byte
\* that is left over, are no characters.
Utf16Chars(src) ==
  LET n == Len(src) \div 2
      unit == [k \in 1..n |-> 256 * src[2 * k - 1] + src[2 * k]]
      Pair(k) == k \in 1 .. n - 1 /\ unit[k] \in Highs /\ unit[k + 1] \in Lows
      CharAt(k) == IF Pair(k) THEN 2 ^ 16 + (unit[k] - 55296) * 1024 + (unit[k + 1] - 56320)
                   ELSE IF unit[k] \in Highs \cup Lows THEN Bad ELSE unit[k]
      starts == SelectSeq([k \in 1..n |-> k], LAMBDA k : ~Pair(k - 1))
      odd == Len(src) % 2 = 1 /\ (n = 0 \/ unit[n] \notin Highs)
  IN [k \in DOMAIN starts |-> CharAt(starts[k])] \o (IF odd THEN <<Bad>> ELSE <<>>)

\* What is written as UTF-8 is read back as it was, character by character
\* (ass_utf8_put_char, ass_utf8_get_char). The name of a font, converted from
\* UTF-16 with whatever is wrong in it, fits in its buffer with the NUL, is cut
\* only where there is no room for the longest character, and never within one
\* (ass_utf16be_to_utf8).
CodecsAgree ==
  reading.step = "done" =>
    LET a == reading.args
        r == Last(reading.got)
    IN CASE a.kind = "text" -> r = a.text
         [] a.kind = "name" ->
              LET chars == CharsFrom(r, 1)
              IN /\ Len(r) < a.room
                 /\ IsPrefix(chars, Utf16Chars(a.bytes))
                 /\ chars # Utf16Chars(a.bytes) => a.room - Len(r) < 5
         [] OTHER -> TRUE
=============================================================================
