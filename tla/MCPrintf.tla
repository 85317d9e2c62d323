------------------------------ MODULE MCPrintf ------------------------------
(***************************************************************************)
(* Printf for TLC: formats of one conversion with flags, width, precision  *)
(* and qualifier, followed by %%, a conversion with a width of its own and *)
(* a % at the end; and formats that end within a conversion.               *)
(***************************************************************************)
EXTENDS Printf

\* A width or precision: how it is spelled, what it takes, what it means.
Given(spelled, taken, value) == [spelled |-> spelled, args |-> taken, value |-> value]
Widths == {Given(<<>>, <<>>, -1), Given(<<"9">>, <<>>, 9), Given(<<"*">>, <<-9>>, -9)}
Precisions == {Given(<<>>, <<>>, -1), Given(<<".">>, <<>>, 0), Given(<<".", "0", "4">>, <<>>, 4),
               Given(<<".", "*">>, <<-4>>, 0)}

\* What is converted: the letters, and an argument.
What(spelled, arg) == [spelled |-> spelled, arg |-> arg, conv |-> Last(spelled)]
Integers16 == {What(<<"d">>, x) : x \in {0, -1, 1234, -32768}}
                \union {What(<<"l", "x">>, x) : x \in {0, -1}}
Others == {What(<<"i">>, -50), What(<<"l", "u">>, -1), What(<<"L", "u">>, 10), What(<<"X">>, 2748),
           What(<<"o">>, 0), What(<<"o">>, 64), What(<<"p">>, 4096)}
Chars == {What(<<"c">>, "z")}
Strings == {What(<<"s">>, <<"a", "b", "c", "d", "e", "f">>), What(<<"s">>, <<>>), What(<<"s">>, NUL)}
Addresses == {What(<<"a">>, <<10, 0, 255, 101>>), What(<<"A">>, <<7, 99, 100, 1>>),
              What(<<"l", "a">>, <<0, 10, 171, 255, 16, 1>>), What(<<"l", "A">>, <<0, 10, 171, 255, 16, 1>>)}
Floats == {What(<<"f">>, x) : x \in {0, 1, -32, 62, -63, 636, 6399, 6400}}

Call(f, w, p, what) ==
  [first |-> [flags |-> {FlagOf[c] : c \in Range(f)}, width |-> w.value, precision |-> p.value, what |-> what],
   fmt   |-> <<"%">> \o f \o w.spelled \o p.spelled \o what.spelled \o <<"%", "%", "|", "%", "*", "d", "%">>,
   args  |-> w.args \o p.args \o <<what.arg, 5, -3>>]
AllFlags == {SetToSeq(S) : S \in SUBSET {"-", "+", " ", "#", "0"}}
FewFlags == {<<>>, <<"-">>, <<"0">>, <<"#", "0">>, <<"+">>}
Cut == <<"%", "-", "5", ".", "3", "l">>
OfFew(S) == {Call(f, w, p, what) : f \in FewFlags, w \in Widths, p \in Precisions, what \in S}
SomeCalls ==
  <<{Call(f, w, p, what) : f \in AllFlags, w \in Widths, p \in Precisions \ {Given(<<".">>, <<>>, 0)},
                       what \in Integers16},
    OfFew(Others), OfFew(Chars), OfFew(Strings), OfFew(Addresses), OfFew(Floats),
    {Call(<<>>, Given(<<>>, <<>>, -1), p, What(<<"f">>, x)) : p \in Precisions, x \in 1 .. 66},
    {[first |-> NUL, fmt |-> SubSeq(Cut, 1, k), args |-> <<>>] : k \in 0 .. Len(Cut)}>>

-----------------------------------------------------------------------------
first == call.first
conv  == first.what.conv
Done  == pc = "done" /\ first # NUL

Behind == <<"%", "|", " ", " ", " ", "-", "3", "%">>
Text   == SubSeq(str, 1, Len(str) - Len(Behind))
Left   == "LEFT" \in first.flags \/ first.width < -1
Wide   == IF first.width < -1 THEN -first.width ELSE first.width
Filled == {k \in DOMAIN Text : Text[k] # " "}
Body   == IF Filled = {} THEN <<>> ELSE SubSeq(Text, Min(Filled), Max(Filled))

Value(s, base) ==
  FoldLeft(LAMBDA n, c : n * base + (CHOOSE d \in 0 .. 15 : c \in {digits[d + 1], upper_digits[d + 1]}), 0, s)
Numbers(s, separator, base) ==
  FoldLeft(LAMBDA ns, c : IF c = separator THEN Append(ns, 0)
                          ELSE [ns EXCEPT ![Len(ns)] = @ * base + Value(<<c>>, base)], <<0>>, s)
Signed    == conv \in {"d", "i", "f"}
Negative  == Signed /\ first.what.arg < 0
Sign      == CASE Negative -> <<"-">> [] Signed /\ ~Negative /\ "PLUS" \in first.flags -> <<"+">> [] OTHER -> <<>>
SpaceSign == IF Signed /\ Sign = <<>> /\ "SPACE" \in first.flags THEN 1 ELSE 0
Prefix    == CASE "HEX_PREP" \in first.flags /\ conv \in {"x", "X", "p"} -> <<"0", "x">>
               [] "HEX_PREP" \in first.flags /\ conv = "o" -> <<"0">> [] OTHER -> <<>>
Magnitude == SubSeq(Body, Len(Sign) + Len(Prefix) + 1, Len(Body))
Opens     == SubSeq(Body, 1, Len(Sign) + Len(Prefix)) = Sign \o Prefix

\* The text of a number, whatever its flags, width and precision, is its sign, its
\* prefix, and digits that denote it, of the least number too: of an integer at least
\* as many as the precision, of a float those of the nearest number with that many
\* behind the point.
Denotes ==
  Done =>
    LET arg == first.what.arg
        abs == IF Negative THEN -arg ELSE arg
    IN  CASE conv \in {"d", "i"} ->
               Opens /\ Len(Magnitude) >= first.precision /\ Value(Magnitude, 10) = abs
          [] conv \in {"u", "x", "X", "o", "p"} ->
               /\ Opens /\ Len(Magnitude) >= first.precision
               /\ Value(Magnitude, IF conv = "u" THEN 10 ELSE IF conv = "o" THEN 8 ELSE 16) = arg % 2 ^ Bits
          [] conv = "f" ->
               LET p == IF first.precision < 0 THEN 6 ELSE first.precision
                   point == {k \in DOMAIN Magnitude : Magnitude[k] = "."}
               IN  /\ Opens
                   /\ p > 0 => point = {Len(Magnitude) - p}
                   /\ Value(SelectSeq(Magnitude, LAMBDA c : c # "."), 10)
                        = (abs \div Parts) * 10 ^ p + ((2 * (abs % Parts) * 10 ^ p + Parts) \div (2 * Parts))
          [] OTHER -> TRUE

\* The text of an address denotes its bytes, that of a string is as much of it as the
\* precision allows.
Shows ==
  Done =>
    LET arg == first.what.arg
        s   == IF arg = NUL THEN <<"<", "N", "U", "L", "L", ">">> ELSE arg
    IN  CASE conv \in {"a", "A"} -> arg = IF Len(arg) = 6 THEN Numbers(Body, ":", 16) ELSE Numbers(Body, ".", 10)
          [] conv = "s" -> Body = SubSeq(s, 1, IF first.precision < 0 THEN Len(s) ELSE Min({first.precision, Len(s)}))
          [] conv = "c" -> Body = <<arg>>
          [] OTHER -> TRUE

\* A field is as wide as asked, and wider only when its text needs it; what fills it
\* is on one side, spaces on the right of what is left-justified.
Fills ==
  Done =>
    /\ Len(Text) = Max({Wide, Len(Body) + SpaceSign})
    /\ Filled # {} => IF Left THEN Min(Filled) = 1 + SpaceSign ELSE Max(Filled) = Len(Text)

\* Each conversion takes its own arguments: behind the first comes what the format
\* says, a percent sign, the second argument in its width, and the last sign.
BehindIntact == Done => SubSeq(str, Len(str) - Len(Behind) + 1, Len(str)) = Behind

\* ee_vsprintf, whatever its call: the first text says what was asked for, in the
\* field asked for, and nothing of the first conversion shows in the second.
Formats == Denotes /\ Shows /\ Fills /\ BehindIntact
=============================================================================
