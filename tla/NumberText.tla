----------------------------- MODULE NumberText -----------------------------
(***************************************************************************)
(* The conversions of ee_printf.c for bare metal.  A text is a sequence of *)
(* characters, a set of flags a set of their names.  int, long and         *)
(* pointers have Bits bits (32 in the port); an argument is the number its *)
(* bits stand for as signed.  For %f, cvt (cvt.c) makes decimal digits of  *)
(* a double, parse_float a text of them, and flt puts it into its field; a *)
(* double is a number of Parts-ths: what cvt computes with it is then      *)
(* exact, but for fi / 10, whose rounding the + .03 takes back.            *)
(***************************************************************************)
EXTENDS Integers, SequencesExt, FiniteSetsExt

CONSTANTS Bits,
          Parts   \* a power of two

ASSUME BitsAssumption == Bits \in {8 * n : n \in 1 .. 8}

digits == <<"0", "1", "2", "3", "4", "5", "6", "7", "8", "9", "a", "b", "c", "d", "e", "f">>
upper_digits == SubSeq(digits, 1, 10) \o <<"A", "B", "C", "D", "E", "F">>
Dig(type) == IF "UPPERCASE" \in type THEN upper_digits ELSE digits
is_digit(c) == \E k \in 1 .. 10 : c = digits[k]

Unsigned(num) == num % 2 ^ Bits
Repeat(c, n) == [k \in 1 .. n |-> c]
strnlen(s, count) == IF count < 0 THEN Len(s) ELSE Min({count, Len(s)})

\* The digits of n, 0 for zero.
InBase(n, base) ==
  LET f[m \in Nat] == IF m < base THEN <<m>> ELSE f[m \div base] \o <<m % base>>
  IN  f[n]

\* What is appended to str.
number(num, base, size, precision, type) ==
  LET left == "LEFT" \in type
      zero == "ZEROPAD" \in type /\ ~left
      sign == CASE "SIGN" \notin type -> <<>>
                [] OTHER -> IF num < 0 THEN <<"-">>
                            ELSE IF "PLUS" \in type THEN <<"+">>
                            ELSE IF "SPACE" \in type THEN <<" ">> ELSE <<>>
      prefix == CASE "HEX_PREP" \in type /\ base = 8  -> <<"0">>
                  [] "HEX_PREP" \in type /\ base = 16 -> <<"0", "x">>
                  [] OTHER -> <<>>
      tmp  == InBase(Unsigned(IF "SIGN" \in type /\ num < 0 THEN -num ELSE num), base)
      text == [k \in DOMAIN tmp |-> Dig(type)[tmp[k] + 1]]
      pad  == size - Len(sign) - Len(prefix) - Max({precision, Len(tmp)})
  IN  Repeat(" ", IF left \/ zero THEN 0 ELSE pad) \o sign \o prefix
        \o Repeat("0", IF zero THEN pad ELSE 0)
        \o Repeat("0", precision - Len(tmp)) \o text
        \o Repeat(" ", IF left THEN pad ELSE 0)

\* tmp in a field: what %c, %s and the addresses do.
InField(tmp, size, type) ==
  LET pad == Repeat(" ", size - Len(tmp))
  IN  IF "LEFT" \in type THEN tmp \o pad ELSE pad \o tmp

\* Six bytes, two digits each, with colons.
eaddr(addr, size, type) ==
  LET byte(k) == <<Dig(type)[(addr[k] \div 16) + 1], Dig(type)[(addr[k] % 16) + 1]>>
  IN  InField(FlattenSeq([k \in 1 .. 6 |-> IF k = 1 THEN byte(k) ELSE <<":">> \o byte(k)]), size, type)

\* Four bytes in decimal, with dots.
iaddr(addr, size, type) ==
  LET byte(n) == [k \in DOMAIN InBase(n, 10) |-> digits[InBase(n, 10)[k] + 1]]
  IN  InField(FlattenSeq([k \in 1 .. 4 |-> IF k = 1 THEN byte(addr[k]) ELSE <<".">> \o byte(addr[k])]), size, type)

-----------------------------------------------------------------------------
CVTBUFSIZE == 80

\* A number of n digits plus one, which may have a digit more.
Incremented(q) ==
  LET nines == Max({k \in 0 .. Len(q) : \A j \in Len(q) - k + 1 .. Len(q) : q[j] = 9})
  IN  IF nines = Len(q) THEN <<1>> \o Repeat(0, nines)
      ELSE [k \in DOMAIN q |-> IF k < Len(q) - nines THEN q[k] ELSE IF k = Len(q) - nines THEN q[k] + 1 ELSE 0]

\* cvt with eflag 0, of an argument that is not negative: the digits from the first
\* that counts to the ndigits-th behind the point, rounded, and where the point is.
fcvtbuf(arg, ndigits) ==
  LET n     == Min({Max({ndigits, 0}), CVTBUFSIZE - 2})
      whole == InBase(arg \div Parts, 10)
      \* The zeros behind the point, and the fraction behind them.
      skip[f \in Nat] == IF f * 10 < Parts THEN LET s == skip[f * 10] IN [s EXCEPT !.zeros = @ + 1]
                         ELSE [zeros |-> 0, rest |-> f]
      small == arg \in 1 .. Parts - 1
      rest  == IF small THEN skip[arg].rest ELSE arg % Parts
      r2    == IF arg >= Parts THEN Len(whole) ELSE IF small THEN -skip[arg].zeros ELSE 0
      p1    == n + r2
      next[f \in Nat, k \in Int] ==
        IF k <= 0 THEN <<>> ELSE <<(f * 10) \div Parts>> \o next[(f * 10) % Parts, k - 1]
      buf   == IF r2 > 0 THEN whole \o next[rest, p1 + 1 - r2] ELSE next[rest, p1 + 1]
      q     == SubSeq(buf, 1, p1)
      up    == buf[p1 + 1] >= 5
  IN  IF p1 < 0 THEN [digits |-> <<>>, decpt |-> r2]
      ELSE [digits |-> IF up THEN Incremented(q) ELSE q,
            decpt  |-> IF up /\ \A k \in 1 .. p1 : q[k] = 9 THEN r2 + 1 ELSE r2]

\* The branch of fmt 'f', the only one ee_vsprintf asks for.
parse_float(value, precision) ==
  LET cvt  == fcvtbuf(value, precision)
      text == [k \in DOMAIN cvt.digits |-> digits[cvt.digits[k] + 1]]
  IN  IF text = <<>> THEN <<"0">> \o (IF precision > 0 THEN <<".">> \o Repeat("0", precision) ELSE <<>>)
      ELSE IF cvt.decpt <= 0 THEN <<"0", ".">> \o Repeat("0", -cvt.decpt) \o text
      ELSE IF Len(text) <= cvt.decpt THEN text
      ELSE SubSeq(text, 1, cvt.decpt) \o <<".">> \o SubSeq(text, cvt.decpt + 1, Len(text))

\* A point behind a text that has none.
decimal_point(buffer) == IF \E k \in DOMAIN buffer : buffer[k] = "." THEN buffer ELSE buffer \o <<".">>

\* What is appended to str for num, with SIGN among the flags.
flt(num, size, precision, flags) ==
  LET left == "LEFT" \in flags
      zero == "ZEROPAD" \in flags /\ ~left
      sign == IF num < 0 THEN <<"-">>
              ELSE IF "PLUS" \in flags THEN <<"+">> ELSE IF "SPACE" \in flags THEN <<" ">> ELSE <<>>
      p    == IF precision < 0 THEN 6 ELSE precision
      text == parse_float(IF num < 0 THEN -num ELSE num, p)
      tmp  == IF "HEX_PREP" \in flags /\ p = 0 THEN decimal_point(text) ELSE text
      pad  == size - Len(sign) - Len(tmp)
  IN  Repeat(" ", IF left \/ zero THEN 0 ELSE pad) \o sign \o Repeat("0", IF zero THEN pad ELSE 0)
        \o tmp \o Repeat(" ", IF left THEN pad ELSE 0)
=============================================================================
