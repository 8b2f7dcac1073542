------------------------------ MODULE CFormat ------------------------------
(***************************************************************************)
(* Numbers and text: printf and scanf of the C library and of the kernel,    *)
(* strtol, atoi, stoi, the kernel's dtos and htos, qsort, and the calendar   *)
(* of localtime.  A character is its ASCII code.  Integers have the width    *)
(* Bits, so that every value and every overflow is met.                      *)
(***************************************************************************)
EXTENDS Integers, Sequences, SequencesExt, FiniteSetsExt

CONSTANTS
  Bits,        \* the width of int and of long
  Chars,       \* what the inputs of strtol are made of
  MaxChars,    \* their length
  Directives,  \* what formats are made of
  MaxFmt,      \* their length
  SortVals, MaxSort,  \* the arrays of qsort
  MaxDay       \* days since 1970 that localtime is tried on

ASSUME CFormatAssumption ==
  /\ Bits \in 2..16 /\ Chars \subseteq Nat /\ MaxChars \in Nat /\ Directives \subseteq Nat
  /\ MaxFmt \in Nat /\ SortVals \subseteq Int /\ MaxSort \in Nat /\ MaxDay \in Nat

VARIABLE cf   \* the call that is tried

Zero == 48
Minus == 45
Modulus == 2^Bits
LONG_MAX == 2^(Bits - 1) - 1
LONG_MIN == -(2^(Bits - 1))
ToSigned(n) == LET m == n % Modulus IN IF m > LONG_MAX THEN m - Modulus ELSE m
Digit(d, ten) == IF d < 10 THEN Zero + d ELSE ten + d - 10   \* ten: 97 for a, 65 for A
isdigit(c) == c \in Zero..(Zero + 9)
isspace(c) == c \in {32} \cup (9..13)

\* The division of C, which rounds towards zero.
CDiv(a, b) == IF a < 0 THEN -((-a) \div b) ELSE a \div b
CMod(a, b) == a - CDiv(a, b) * b

-----------------------------------------------------------------------------
\* The digits of a value, last one first, and as _printf_u32 gives them out.
RECURSIVE LowFirst(_, _, _)
LowFirst(v, base, ten) ==
  IF v = 0 THEN <<>> ELSE <<Digit(v % base, ten)>> \o LowFirst(v \div base, base, ten)
\* Mutant: a loop that ends at zero prints nothing for it.
_printf_u32Zero(v) == Reverse(LowFirst(v, 10, 97))
_printf_u32(v) == IF v = 0 THEN <<Zero>> ELSE Reverse(LowFirst(v, 10, 97))
_printf_hex32_impl(v, ten) ==
  <<Zero, 120>> \o (IF v = 0 THEN <<Zero>> ELSE Reverse(LowFirst(v, 16, ten)))
\* -value wraps for the least integer, and its unsigned reading is right.
_printf_i32(v) == IF v < 0 THEN <<Minus>> \o _printf_u32((-v) % Modulus) ELSE _printf_u32(v)

\* A conversion's text, as printf and as the kernel's copy make it.
NumberText(c, v) ==
  CASE c \in {100, 105} -> _printf_i32(v) [] c = 117 -> _printf_u32(v)
    [] c = 120 -> _printf_hex32_impl(v, 97) [] c = 88 -> _printf_hex32_impl(v, 65)
KernelNumberText(c, v) == IF c = 112 THEN NumberText(120, v) ELSE NumberText(c, v)

\* dtos and htos of the kernel build the digits backwards and reverse them.
dtos(v) == Reverse(IF v = 0 THEN <<Zero>> ELSE LowFirst(v, 10, 97))
htos(v) == Reverse(IF v = 0 THEN <<Zero>> ELSE LowFirst(v, 16, 97))
\* Digits that every int may have: 9 of an int of 32 bits, 2 of one of 8.
SafeDigits == Len(_printf_u32(LONG_MAX)) - 1
\* stoi of the kernel: from the last digit on; nine digits at most.
RECURSIVE StoiFrom(_, _, _)
StoiFrom(s, k, mult) ==
  IF k = 0 THEN 0 ELSE (s[k] - Zero) * mult + StoiFrom(s, k - 1, mult * 10)
stoi(s, len) == IF len > SafeDigits THEN 0 ELSE StoiFrom(s, len, 1)
\* atoi: from the first digit on, with a power of ten that is divided.  It is an
\* int, which a tenth digit of 32 bits makes overflow.
RECURSIVE AtoiFrom(_, _, _)
AtoiFrom(s, k, mul) ==
  LET m == CDiv(mul, 10)
  IN  IF k > Len(s) THEN 0 ELSE ToSigned((s[k] - Zero) * m + AtoiFrom(s, k + 1, m))
atoi(s) == AtoiFrom(s, 1, ToSigned(10^Len(s)))

\* _scanf_u32 and _scanf_i32 on a text: what is read and how many characters.
RECURSIVE ScanDigits(_, _, _)
ScanDigits(s, k, res) ==
  IF k > Len(s) \/ ~isdigit(s[k]) THEN [val |-> res, read |-> k - 1]
  ELSE ScanDigits(s, k + 1, (res * 10 + s[k] - Zero) % Modulus)
_scanf_u32(s) == ScanDigits(s, 1, 0)
_scanf_i32(s) ==
  LET neg == s # <<>> /\ s[1] = Minus
      r == _scanf_u32(IF neg THEN Tail(s) ELSE s)
  IN  IF r.read = 0 THEN [val |-> 0, read |-> 0]
      ELSE [val |-> ToSigned(IF neg THEN -ToSigned(r.val) ELSE ToSigned(r.val)),
            read |-> r.read + (IF neg THEN 1 ELSE 0)]

-----------------------------------------------------------------------------
\* _printf_internal: for a format its output, as literal characters and
\* conversions <<conversion, long, argument>>.  The kernel's copy knows z, p
\* and % besides.
PERCENT == 37
Lengths(kernel) == {108, 104} \cup (IF kernel THEN {122} ELSE {})
Conversions(kernel) == {100, 105, 117, 120, 88, 99, 115} \cup (IF kernel THEN {112} ELSE {})

\* Whether the argument has 64 bits: l_arg, z_arg, or a pointer.
Wide(long, c) ==
  \E i \in DOMAIN long : long[i] = 108 \/ (long[i] = 122 /\ c \in {117, 120}) \/ c = 112

RECURSIVE Format(_, _, _, _, _)
Format(fmt, p, kernel, long, arg) ==   \* long: empty, or % and the lengths after it
  LET more == p < Len(fmt)
      c == fmt[p]
  IN  IF p > Len(fmt) THEN <<>>
      ELSE IF long = <<>> /\ c = PERCENT /\ more THEN Format(fmt, p + 1, kernel, <<PERCENT>>, arg)
      ELSE IF long = <<>> THEN <<<<"literal", c, 0>>>> \o Format(fmt, p + 1, kernel, <<>>, arg)
      ELSE IF c \in Lengths(kernel) /\ more
           THEN Format(fmt, p + 1, kernel, Append(long, c), arg)
      ELSE IF c \in Conversions(kernel)
           THEN <<<<"convert", c, arg, Wide(long, c)>>>>
                \o Format(fmt, p + 1, kernel, <<>>, arg + 1)
      ELSE IF kernel /\ c = PERCENT
           THEN <<<<"literal", PERCENT, 0>>>> \o Format(fmt, p + 1, kernel, <<>>, arg)
      ELSE Format(fmt, p + 1, kernel, <<>>, arg)
_printf_internal(fmt) == Format(fmt, 1, FALSE, <<>>, 1)
_printf_internal_kernel(fmt) == Format(fmt, 1, TRUE, <<>>, 1)

\* vsnprintf of a text into n bytes: putch_callback_sized_buf drops what does
\* not fit, and the last byte becomes the final 0.
vsnprintf(text, n, s) ==
  LET wr == IF Len(text) < n THEN Len(text) ELSE n
      put == [i \in 1..Len(s) |-> IF i <= wr THEN text[i] ELSE s[i]]
  IN  IF n = 0 THEN s ELSE [put EXCEPT ![IF wr = n THEN n ELSE wr + 1] = 0]

\* _scanf_internal of a format made of conversions %d, %u and literal characters,
\* spaces skipped before each: the values that are stored.
ScanD == -1
ScanU == -2
RECURSIVE SkipSpace(_), Scan(_, _)
SkipSpace(s) == IF s # <<>> /\ isspace(s[1]) THEN SkipSpace(Tail(s)) ELSE s
Scan(fmt, s) ==
  LET t == SkipSpace(s)
      r == IF fmt # <<>> /\ fmt[1] = ScanU THEN _scanf_u32(t) ELSE _scanf_i32(t)
  IN  IF fmt = <<>> THEN <<>>
      ELSE IF fmt[1] \in {ScanD, ScanU} THEN <<r.val>> \o Scan(Tail(fmt), SubSeq(t, r.read + 1, Len(t)))
      ELSE IF t = <<>> \/ t[1] # fmt[1] THEN <<>>
      ELSE Scan(Tail(fmt), Tail(t))
_scanf_internal(fmt, s) == Scan(fmt, s)
scanf_engine(fmt, s) == Scan(fmt, s)   \* the kernel's copy

-----------------------------------------------------------------------------
\* strtol: sign and prefix, then digits; past the cutoff the value no longer
\* counts.  p is the place in the text, n the unsigned value.
DigitOf(c) == IF c >= 97 THEN c - 97 + 10 ELSE IF c >= 65 THEN c - 65 + 10
              ELSE IF c <= 57 THEN c - 48 ELSE 99
CharAt(s, p) == IF p <= Len(s) THEN s[p] ELSE 0

RECURSIVE StrtolLoop(_, _)
StrtolLoop(s, l) ==
  LET d == DigitOf(CharAt(s, l.p))
      next == [l EXCEPT !.p = @ + 1, !.endp = l.p + 1]
      over == l.n > l.cutoff \/ (l.n = l.cutoff /\ d > l.cutlim)
  IN  IF d < 0 \/ d >= l.base THEN l
      ELSE IF l.overflow THEN StrtolLoop(s, next)
      ELSE IF over THEN StrtolLoop(s, [next EXCEPT !.overflow = TRUE])
      ELSE StrtolLoop(s, [next EXCEPT !.n = (@ * l.base + d) % Modulus])
strtol(s, base) ==
  LET p0 == CHOOSE k \in 1..(Len(s) + 1) :
              ~isspace(CharAt(s, k)) /\ \A j \in 1..(k - 1) : isspace(CharAt(s, j))
      neg == CharAt(s, p0) = Minus
      p1 == IF neg \/ CharAt(s, p0) = 43 THEN p0 + 1 ELSE p0
      zero == CharAt(s, p1) = Zero
      x == zero /\ CharAt(s, p1 + 1) \in {88, 120} /\ base \in {0, 16}
      b == IF base # 0 THEN base ELSE IF x THEN 16 ELSE IF zero THEN 8 ELSE 10
      l == StrtolLoop(s, [p |-> p1 + (IF zero THEN 1 ELSE 0) + (IF x THEN 1 ELSE 0),
                          endp |-> IF zero THEN p1 + 1 ELSE 1, n |-> 0, overflow |-> FALSE, base |-> b,
                          cutoff |-> IF neg THEN -CDiv(LONG_MIN, b) ELSE LONG_MAX \div b,
                          cutlim |-> IF neg THEN -CMod(LONG_MIN, b) ELSE LONG_MAX % b])
  IN  [end |-> l.endp - 1, val |-> IF l.overflow THEN (IF neg THEN LONG_MIN ELSE LONG_MAX)
                                   ELSE ToSigned(IF neg THEN -l.n ELSE l.n)]

-----------------------------------------------------------------------------
\* __qsortimpl of a[l..r], places counted from 1: the last element divides.
Swapped(a, i, j) == [a EXCEPT ![i] = a[j], ![j] = a[i]]
RECURSIVE Divide(_, _, _, _), __qsortimpl(_, _, _)
Divide(a, lm, rm, r) ==
  IF rm = r THEN [a |-> Swapped(a, lm + 1, r), lm |-> lm]
  ELSE IF a[rm] < a[r] THEN Divide(Swapped(a, lm + 1, rm), lm + 1, rm + 1, r)
  ELSE Divide(a, lm, rm + 1, r)
__qsortimpl(a, l, r) ==
  LET d == Divide(a, l - 1, l, r)
  IN  IF l >= r THEN a ELSE __qsortimpl(__qsortimpl(d.a, l, d.lm), d.lm + 2, r)
qsort(a) == __qsortimpl(a, 1, Len(a))

\* time_to_tm, from the days since 1970 on.
__is_leap_year(y) == (y % 4 = 0 /\ y % 100 # 0) \/ y % 400 = 0
YearLen(y) == IF __is_leap_year(y) THEN 366 ELSE 365
__days_per_month == <<31, 28, 31, 30, 31, 30, 31, 31, 30, 31, 30, 31>>
RECURSIVE YearOf(_, _), MonthOf(_, _)
YearOf(days, year) ==
  IF days >= YearLen(year) THEN YearOf(days - YearLen(year), year + 1) ELSE [year |-> year, yday |-> days]
MonthOf(days, m) ==
  IF m = 11 \/ days <= __days_per_month[m + 1] THEN [mon |-> m, days |-> days]
  ELSE MonthOf(days - __days_per_month[m + 1], m + 1)
time_to_tm(days) ==
  LET y == YearOf(days, 1970)
      late == __is_leap_year(y.year) /\ y.yday >= 59
      d == IF late THEN y.yday - 1 ELSE y.yday
      m == MonthOf(d, 0)
  IN  [tm_wday |-> (days + 4) % 7, tm_year |-> y.year - 1900, tm_yday |-> y.yday,
       tm_mon |-> m.mon, tm_mday |-> (IF late /\ d = 59 THEN 2 ELSE 1) + m.days]

-----------------------------------------------------------------------------
CfInit ==
  \/ \E v \in LONG_MIN..LONG_MAX : cf = [fn |-> "number", v |-> v]
  \/ \E s \in SeqOf(Chars, MaxChars), base \in {0, 8, 10, 16} : cf = [fn |-> "strtol", s |-> s, base |-> base]
  \/ \E s \in SeqOf(Directives, MaxFmt) : cf = [fn |-> "format", s |-> s]
  \/ \E a \in SeqOf(SortVals, MaxSort) : cf = [fn |-> "sort", a |-> a]
  \/ \E d \in 0..MaxDay : cf = [fn |-> "time", d |-> d]

\* What was printed is read back: every integer through printf and scanf, strtol
\* and the kernel's conversions, the least one and 0 included; through atoi and stoi
\* only the ones without a sign whose digits every int may have, for stoi gives 0
\* for a longer text and atoi's power of ten overflows; and a text cut by vsnprintf
\* is a prefix that ends inside of the buffer.
NumbersRoundTrip ==
  cf.fn = "number" =>
    LET dec == _printf_i32(cf.v)
        mag == IF cf.v < 0 THEN -cf.v ELSE cf.v
        hex == _printf_hex32_impl(mag, 97)
    IN  /\ _scanf_i32(dec) = [val |-> cf.v, read |-> Len(dec)]
        /\ _scanf_internal(<<ScanD, 58, ScanU>>, <<32>> \o dec \o <<58, 32>> \o dtos(mag)) = <<cf.v, mag>>
        /\ scanf_engine(<<ScanU, 58, ScanD>>, dtos(mag) \o <<9, 58>> \o KernelNumberText(100, cf.v)) = <<mag, cf.v>>
        /\ strtol(dec, 10) = [end |-> Len(dec), val |-> cf.v]
        /\ cf.v # LONG_MIN => /\ strtol(hex, 16) = [end |-> Len(hex), val |-> mag]
                              /\ strtol(<<Minus>> \o KernelNumberText(88, mag), 0).val = -mag
        /\ dtos(mag) = _printf_u32(mag) /\ htos(mag) = SubSeq(hex, 3, Len(hex))
        /\ Len(dtos(mag)) <= SafeDigits => stoi(dtos(mag), Len(dtos(mag))) = mag /\ atoi(dtos(mag)) = mag
        /\ \A n \in 1..4 :
             LET buf == vsnprintf(dec, n, <<7, 7, 7, 7, 7>>)
                 k == IF Len(dec) < n THEN Len(dec) ELSE n - 1
             IN  SubSeq(buf, 1, k) = SubSeq(dec, 1, k) /\ buf[k + 1] = 0
                 /\ \A i \in (n + 1)..5 : buf[i] = 7

\* The number that the standard gives to a text: sign, prefix, the longest run of
\* digits of the base, clamped to the range of long; end is the part it uses.
RefStrtol(s, base) ==
  LET from == CHOOSE k \in 0..Len(s) : (k = Len(s) \/ ~isspace(s[k + 1])) /\ \A j \in 1..k : isspace(s[j])
      body == SubSeq(s, from + 1, Len(s))
      sgn == body # <<>> /\ body[1] \in {Minus, 43}
      t == IF sgn THEN Tail(body) ELSE body
      Val(c) == CASE c \in 48..57 -> c - 48 [] c \in 97..122 -> c - 87 [] c \in 65..90 -> c - 55 [] OTHER -> 99
      hex == base \in {0, 16} /\ Len(t) > 2 /\ t[1] = Zero /\ t[2] \in {88, 120} /\ Val(t[3]) < 16
      b == IF base # 0 THEN base ELSE IF hex THEN 16 ELSE IF t # <<>> /\ t[1] = Zero THEN 8 ELSE 10
      u == IF hex THEN SubSeq(t, 3, Len(t)) ELSE t
      n == Max({k \in 0..Len(u) : \A i \in 1..k : Val(u[i]) < b})
      mag == FoldLeft(LAMBDA acc, c : acc * b + Val(c), 0, SubSeq(u, 1, n))
      v == IF sgn /\ body[1] = Minus THEN -mag ELSE mag
  IN  [end |-> IF n = 0 THEN 0 ELSE from + (IF sgn THEN 1 ELSE 0) + (IF hex THEN 2 ELSE 0) + n,
       val |-> IF v > LONG_MAX THEN LONG_MAX ELSE IF v < LONG_MIN THEN LONG_MIN ELSE v]

\* strtol is the standard's on every text, overflow and half prefixes included.
StrtolExact == cf.fn = "strtol" => strtol(cf.s, cf.base) = RefStrtol(cf.s, cf.base)

\* The two copies of printf agree on what both know: a format without z, p and
\* %% prints the same and takes the same arguments, each conversion the next.
PrintfsAgree ==
  cf.fn = "format" =>
    LET out == _printf_internal(cf.s)
        args == SelectSeq(out, LAMBDA o : o[1] = "convert")
    IN  /\ \A i \in DOMAIN args : args[i][3] = i
        /\ (\A i \in DOMAIN cf.s : cf.s[i] \notin {122, 112})
           /\ (\A i \in 1..(Len(cf.s) - 1) : ~(cf.s[i] \in {PERCENT, 108} /\ cf.s[i + 1] = PERCENT))
           => out = _printf_internal_kernel(cf.s)

\* qsort sorts, and keeps every element.
SortExact ==
  cf.fn = "sort" =>
    LET b == qsort(cf.a)
    IN  /\ \A i \in 1..(Len(b) - 1) : b[i] <= b[i + 1]
        /\ \A v \in SortVals : Len(SelectSeq(b, LAMBDA x : x = v)) = Len(SelectSeq(cf.a, LAMBDA x : x = v))

\* Weekday, year and day of the year are the calendar's, and month and day name
\* that day, counted on past the end of a month (January 32 is February 1), but
\* for February 29, which is called February 28.
CalendarExact ==
  cf.fn = "time" =>
    LET tm == time_to_tm(cf.d)
        y == tm.tm_year + 1900
        leaps == Cardinality({k \in 1970..(y - 1) : __is_leap_year(k)})
        before == (y - 1970) * 365 + leaps
        MonthLen(m) == __days_per_month[m] + (IF m = 2 /\ __is_leap_year(y) THEN 1 ELSE 0)
        first == MapThenSumSet(MonthLen, 1..tm.tm_mon)
    IN  /\ tm.tm_yday = cf.d - before /\ tm.tm_yday \in 0..(YearLen(y) - 1)
        /\ tm.tm_wday = (4 + cf.d) % 7
        /\ first + tm.tm_mday - 1 = IF __is_leap_year(y) /\ tm.tm_yday = 59 THEN 58 ELSE tm.tm_yday
=============================================================================
