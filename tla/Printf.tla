------------------------------- MODULE Printf -------------------------------
(***************************************************************************)
(* ee_printf of the bare metal ports (ee_printf.c): ee_vsprintf reads the  *)
(* format and takes the arguments as it goes, then the text is sent one    *)
(* character at a time.  A call is a pair of a format and its arguments.   *)
(***************************************************************************)
EXTENDS NumberText

CONSTANTS CallSets,   \* a sequence of sets of [fmt, args]
          NUL         \* the end of a string, and no string

VARIABLES call,        \* fmt and args as given
          pc,
          fmt,         \* the place in the format
          args,        \* not yet taken
          str,         \* buf up to str
          flags, field_width, precision, qualifier,
          sent         \* what the uart got
vars == <<call, pc, fmt, args, str, flags, field_width, precision, qualifier, sent>>
scanned == <<flags, field_width, precision, qualifier>>

Init ==
  /\ \E k \in DOMAIN CallSets : call \in CallSets[k]
  /\ args = call.args /\ pc = "text" /\ fmt = 1 /\ str = <<>> /\ sent = <<>>
  /\ flags = {} /\ field_width = -1 /\ precision = -1 /\ qualifier = "none"

CharAt(k) == IF k <= Len(call.fmt) THEN call.fmt[k] ELSE NUL
char == CharAt(fmt)

\* The number at a place of the format, and the place behind it.
skip_atoi(start) ==
  LET f[k \in Nat, i \in Nat] ==
        IF is_digit(CharAt(k)) THEN f[k + 1, i * 10 + (CHOOSE d \in 0 .. 9 : digits[d + 1] = CharAt(k))]
        ELSE [value |-> i, fmt |-> k]
  IN  f[start, 0]

Literal ==
  /\ pc = "text" /\ char \notin {"%", NUL}
  /\ str' = Append(str, char) /\ fmt' = fmt + 1
  /\ UNCHANGED <<call, pc, args, scanned, sent>>

\* Fault: the flags are those of the conversion before and more.
PercentKept ==
  /\ pc = "text" /\ char = "%"
  /\ fmt' = fmt + 1 /\ pc' = "flags"
  /\ UNCHANGED <<call, args, str, scanned, sent>>
Percent ==
  /\ pc = "text" /\ char = "%"
  /\ flags' = {} /\ fmt' = fmt + 1 /\ pc' = "flags"
  /\ UNCHANGED <<call, args, str, field_width, precision, qualifier, sent>>

FlagOf == [c \in {"-", "+", " ", "#", "0"} |->
             CASE c = "-" -> "LEFT" [] c = "+" -> "PLUS" [] c = " " -> "SPACE"
               [] c = "#" -> "HEX_PREP" [] c = "0" -> "ZEROPAD"]
Flag ==
  /\ pc = "flags" /\ char \in DOMAIN FlagOf
  /\ flags' = flags \union {FlagOf[char]} /\ fmt' = fmt + 1
  /\ UNCHANGED <<call, pc, args, str, field_width, precision, qualifier, sent>>

Width ==
  /\ pc = "flags" /\ char \notin DOMAIN FlagOf
  /\ \/ /\ is_digit(char)
        /\ field_width' = skip_atoi(fmt).value /\ fmt' = skip_atoi(fmt).fmt
        /\ UNCHANGED <<flags, args>>
     \/ /\ char = "*"
        /\ field_width' = IF Head(args) < 0 THEN -Head(args) ELSE Head(args)
        /\ flags' = IF Head(args) < 0 THEN flags \union {"LEFT"} ELSE flags
        /\ args' = Tail(args) /\ fmt' = fmt + 1
     \/ /\ ~is_digit(char) /\ char # "*"
        /\ field_width' = -1
        /\ UNCHANGED <<flags, args, fmt>>
  /\ pc' = "precision"
  /\ UNCHANGED <<call, str, precision, qualifier, sent>>

Precision ==
  /\ pc = "precision"
  /\ \/ /\ char # "."
        /\ precision' = -1 /\ UNCHANGED <<fmt, args>>
     \/ /\ char = "." /\ is_digit(CharAt(fmt + 1))
        /\ precision' = skip_atoi(fmt + 1).value /\ fmt' = skip_atoi(fmt + 1).fmt
        /\ UNCHANGED args
     \/ /\ char = "." /\ CharAt(fmt + 1) = "*"
        /\ precision' = Max({Head(args), 0}) /\ args' = Tail(args) /\ fmt' = fmt + 2
     \/ /\ char = "." /\ ~is_digit(CharAt(fmt + 1)) /\ CharAt(fmt + 1) # "*"
        /\ precision' = 0 /\ fmt' = fmt + 1 /\ UNCHANGED args
  /\ pc' = "qualifier"
  /\ UNCHANGED <<call, str, flags, field_width, qualifier, sent>>

Qualifier ==
  /\ pc = "qualifier"
  /\ IF char \in {"l", "L"} THEN qualifier' = char /\ fmt' = fmt + 1
     ELSE qualifier' = "none" /\ UNCHANGED fmt
  /\ pc' = "convert"
  /\ UNCHANGED <<call, args, str, flags, field_width, precision, sent>>

Base == [c \in {"o", "x", "X", "d", "i", "u"} |-> IF c = "o" THEN 8 ELSE IF c \in {"x", "X"} THEN 16 ELSE 10]
Address == 2 * (Bits \div 8)

\* What a conversion that takes an argument appends for it.
Converted(arg) ==
  CASE char \in DOMAIN Base ->
         number(arg, Base[char], field_width, precision,
                flags \union (IF char = "X" THEN {"UPPERCASE"} ELSE {})
                      \union (IF char \in {"d", "i"} THEN {"SIGN"} ELSE {}))
    [] char = "p" ->
         IF field_width = -1 THEN number(arg, 16, Address, precision, flags \union {"ZEROPAD"})
         ELSE number(arg, 16, field_width, precision, flags)
    [] char = "c" -> InField(<<arg>>, field_width, flags)
    [] char = "s" -> LET s == IF arg = NUL THEN <<"<", "N", "U", "L", "L", ">">> ELSE arg
                     IN  InField(SubSeq(s, 1, strnlen(s, precision)), field_width, flags)
    [] char \in {"a", "A"} ->
         LET f == flags \union (IF char = "A" THEN {"UPPERCASE"} ELSE {})
         IN  IF qualifier = "l" THEN eaddr(arg, field_width, f) ELSE iaddr(arg, field_width, f)
    [] char = "f" -> flt(arg, field_width, precision, flags)

Convert ==
  /\ pc = "convert" /\ char \in DOMAIN Base \union {"p", "c", "s", "a", "A", "f"}
  /\ str' = str \o Converted(Head(args)) /\ args' = Tail(args)
  /\ fmt' = fmt + 1 /\ pc' = "text"
  /\ UNCHANGED <<call, scanned, sent>>

\* %% and what is no conversion stand for themselves; the end of the format is not passed.
NoConversion ==
  /\ pc = "convert" /\ char \notin DOMAIN Base \union {"p", "c", "s", "a", "A", "f"}
  /\ str' = str \o (IF char = "%" THEN <<>> ELSE <<"%">>) \o (IF char = NUL THEN <<>> ELSE <<char>>)
  /\ fmt' = IF char = NUL THEN fmt ELSE fmt + 1
  /\ pc' = "text"
  /\ UNCHANGED <<call, args, scanned, sent>>

Formatted ==
  /\ pc = "text" /\ char = NUL
  /\ pc' = "send"
  /\ UNCHANGED <<call, fmt, args, str, scanned, sent>>

\* The loop of ee_printf; the port has to write uart_send_char.
uart_send_char ==
  /\ pc = "send" /\ Len(sent) < Len(str)
  /\ sent' = Append(sent, str[Len(sent) + 1])
  /\ UNCHANGED <<call, pc, fmt, args, str, scanned>>
Return ==
  /\ pc = "send" /\ Len(sent) = Len(str)
  /\ pc' = "done"
  /\ UNCHANGED <<call, fmt, args, str, scanned, sent>>

Next == \/ Literal \/ Percent \/ Flag \/ Width \/ Precision \/ Qualifier
        \/ Convert \/ NoConversion \/ Formatted \/ uart_send_char \/ Return
Spec == Init /\ [][Next]_vars /\ WF_vars(Next)
=============================================================================
