-------------------------------- MODULE Rpn ---------------------------------
(***************************************************************************)
(* The language of csv-add-rpn and csv-grep-rpn (src/src/rpn_parse.c and   *)
(* src/src/rpn_eval.c): tokens, values of three types, and what each       *)
(* operator makes of its operands.                                         *)
(*                                                                         *)
(* Integers have the width of MaxInt and wrap.  Floats are exact fractions *)
(* <<n, d>>: no rounding, no infinity.  The text of a float is             *)
(* <<MinInt - 1, n, d>>; integers that are out of range, but valid as      *)
(* floats, go to Largest, and the letters of words are greater.            *)
(* Overflows, shifts and casts that C leaves undefined do what they do on  *)
(* x86-64.                                                                 *)
(***************************************************************************)
EXTENDS TextTools, RegexCache

CONSTANT Punctuation    \* the letters of a regular expression: [caret |-> ^, ...]

ASSUME TwosComplement == \E w \in 0 .. 63 : MaxInt + 1 = 2 ^ w

Largest == 4 * (MaxInt + 1)

-----------------------------------------------------------------------------
(* Values, and what stands for a failure: -1 of eval_oper(), a signal, abort() *)
(* and a loop that does not end *)

Llong(n) == [type |-> "int", value |-> n]
Double(f) == [type |-> "float", value |-> f]
Pchar(text) == [type |-> "string", value |-> text]
Failed == [type |-> "failed"]
Crashed == [type |-> "crashed"]
Aborted == [type |-> "aborted"]
Endless == [type |-> "endless"]
IsValue(v) == v.type \in {"int", "float", "string"}

Truth(b) == Llong(IF b THEN 1 ELSE 0)

Wrap(n) == ((n - MinInt) % (2 * (MaxInt + 1))) + MinInt

\* The fraction n / d in its lowest terms
Fraction(n, d) ==
    LET size == IF n < 0 THEN -n ELSE n
        Divides(k) == n % k = 0 /\ d % k = 0
        gcd == CHOOSE k \in 1 .. (IF d < 0 THEN -d ELSE d) :
                   Divides(k) /\ \A l \in k + 1 .. size : ~Divides(l)
        sign == IF d < 0 THEN -1 ELSE 1
    IN IF n = 0 THEN <<0, 1>> ELSE <<sign * Quotient(n, gcd), sign * Quotient(d, gcd)>>

AsFloat(v) == IF v.type = "int" THEN <<v.value, 1>> ELSE v.value

\* A cast of double to long long: all that does not fit gives LLONG_MIN.
Truncated(f) ==
    LET n == Quotient(f[1], f[2]) IN IF n \in MinInt .. MaxInt THEN n ELSE MinInt

\* tostring(n, 10), "%f"
TextOf(v) ==
    CASE v.type = "int" -> <<v.value>>
      [] v.type = "float" -> <<MinInt - 1, v.value[1], v.value[2]>>
      [] v.type = "string" -> v.value

\* strtoll_safe() with a base, where 0 takes it from the text.  The numbers have
\* one digit, and a text in another base than the one given is no number.
ReadInt(text, base) ==
    LET n == Number(text)
        spelled == IF Len(text) = 2 THEN text[2] ELSE 10
        digits == IF n < 0 THEN -n ELSE n
    IN IF text = Empty THEN Llong(0)
       ELSE IF Len(text) > 2 \/ ~IsNumber(text) THEN Failed
       ELSE IF spelled = 2 /\ n = MinInt THEN Failed
       ELSE IF base \in {0, spelled} \/ (Len(text) = 1 /\ digits < base) THEN Llong(n)
       ELSE Failed

\* strtod_safe(): it does not know 0b.
ReadFloat(text) ==
    IF text = Empty THEN Double(<<0, 1>>)
    ELSE IF text[1] = MinInt - 1 /\ Len(text) = 3 THEN Double(<<text[2], text[3]>>)
    ELSE IF text[1] \in MinInt .. Largest /\ (Len(text) = 1 \/ (Len(text) = 2 /\ text[2] # 2))
         THEN Double(<<text[1], 1>>)
    ELSE Failed

\* tostring(): octal and hexadecimal digits are those of an unsigned number.
ToBase(n, base) ==
    IF base = 10 THEN <<n>>
    ELSE IF base = 2 \/ n >= 0 THEN <<n, base>> ELSE <<n + 2 * (MaxInt + 1), base>>

-----------------------------------------------------------------------------
(* Operators and the types of their operands *)

Arithmetic == {"ADD", "SUB", "MUL", "DIV", "MOD"}
Bitwise2 == {"BIT_OR", "BIT_AND", "BIT_XOR", "BIT_LSHIFT", "BIT_RSHIFT"}
Logic2 == {"LOGIC_AND", "LOGIC_OR", "LOGIC_XOR"}
Comparisons == {"LT", "LE", "GT", "GE", "EQ", "NE"}
Regular == {"LIKE", "REPLACE_BRE", "REPLACE_ERE", "MATCHES_BRE", "MATCHES_ERE"}

Numeric == {"int", "float"}
AnyType == Numeric \cup {"string"}

\* The operators rpn_parse() knows
Operators ==
    Arithmetic \cup Bitwise2 \cup Logic2 \cup Comparisons \cup Regular
        \cup {"BIT_NEG", "LOGIC_NOT", "IF", "NEXT", "SUBSTR", "STRLEN", "CONCAT", "REPLACE",
              "TOSTRING", "TOINT", "TOFLOAT", "INT2STR", "INT2STRB", "INT2FLT",
              "STR2INT", "STRB2INT", "STR2FLT", "FLT2INT", "FLT2STR"}

\* What eval_oper() accepts
Signature(op) ==
    CASE op \in Arithmetic -> Numeric \X Numeric
      [] op \in Bitwise2 \cup Logic2 \cup {"INT2STRB"} -> {<<"int", "int">>}
      [] op \in {"BIT_NEG", "LOGIC_NOT", "INT2STR", "INT2FLT"} -> {<<"int">>}
      [] op \in {"FLT2INT", "FLT2STR"} -> {<<"float">>}
      [] op \in {"STRLEN", "STR2INT", "STR2FLT", "NEXT"} -> {<<"string">>}
      [] op \in {"TOFLOAT", "TOINT", "TOSTRING"} -> {<<t>> : t \in AnyType}
      [] op \in Comparisons -> (Numeric \X Numeric) \cup {<<"string", "string">>}
      [] op \in {"CONCAT", "LIKE"} -> {<<"string", "string">>}
      [] op = "STRB2INT" -> {<<"string", "int">>}
      [] op = "SUBSTR" -> {<<"string", "int", "int">>}
      [] op = "IF" -> {<<"int", t, t>> : t \in AnyType}
      [] op \in {"MATCHES_BRE", "MATCHES_ERE"} -> {<<"string", "string", "int">>}
      [] op \in {"REPLACE", "REPLACE_BRE", "REPLACE_ERE"} -> {<<"string", "string", "string", "int">>}

Arity(op) == Len(CHOOSE types \in Signature(op) : TRUE)

\* The types fit, and so do the values that are looked at before anything is done.
Accepts(op, args) ==
    /\ [i \in DOMAIN args |-> args[i].type] \in Signature(op)
    /\ op \in Logic2 \cup {"LOGIC_NOT"} => \A i \in DOMAIN args : args[i].value \in {0, 1}
    /\ op \in {"DIV", "MOD"} => AsFloat(args[2])[1] # 0
    /\ op = "INT2STRB" => args[2].value \in {2, 8, 10, 16}
    /\ op = "STRB2INT" => args[2].value \in 2 .. 36
    /\ op = "SUBSTR" => args[3].value >= 0

-----------------------------------------------------------------------------
(* What they make of operands they accept *)

IntArithmetic(op, x, y) ==
    LET quotient == IF y < 0 THEN Quotient(-x, -y) ELSE Quotient(x, y)
        overflow == x = MinInt /\ y = -1
    IN CASE op = "ADD" -> Llong(Wrap(x + y))
         [] op = "SUB" -> Llong(Wrap(x - y))
         [] op = "MUL" -> Llong(Wrap(x * y))
         [] op \in {"DIV", "MOD"} /\ overflow -> Crashed
         [] op = "DIV" /\ ~overflow -> Llong(quotient)
         [] op = "MOD" /\ ~overflow -> Llong(x - y * quotient)

\* f and g are fractions; fmod() has the sign of f.
FloatArithmetic(op, f, g) ==
    LET ratio == Fraction(f[1] * g[2], f[2] * g[1])
        whole == Quotient(ratio[1], ratio[2])
    IN CASE op = "ADD" -> Double(Fraction(f[1] * g[2] + g[1] * f[2], f[2] * g[2]))
         [] op = "SUB" -> Double(Fraction(f[1] * g[2] - g[1] * f[2], f[2] * g[2]))
         [] op = "MUL" -> Double(Fraction(f[1] * g[1], f[2] * g[2]))
         [] op = "DIV" -> Double(ratio)
         [] op = "MOD" -> Double(Fraction(f[1] * g[2] - whole * g[1] * f[2], f[2] * g[2]))

\* Two integers give an integer, anything else a float.
Computed(op, args) ==
    IF args[1].type = "int" /\ args[2].type = "int"
    THEN IntArithmetic(op, args[1].value, args[2].value)
    ELSE FloatArithmetic(op, AsFloat(args[1]), AsFloat(args[2]))

Bits == 0 .. (CHOOSE w \in 0 .. 63 : MaxInt + 1 = 2 ^ w)
BitsOf(n) == {b \in Bits : ((n % (2 * (MaxInt + 1))) \div 2 ^ b) % 2 = 1}
OfBits(bits) == Llong(CHOOSE n \in MinInt .. MaxInt : BitsOf(n) = bits)

\* Only the low bits of the number of places count; shifts to the right keep the
\* sign.
BitOperation(op, x, y) ==
    LET a == BitsOf(x)
        b == BitsOf(y)
        places == y % Cardinality(Bits)
    IN CASE op = "BIT_OR" -> OfBits(a \cup b)
         [] op = "BIT_AND" -> OfBits(a \cap b)
         [] op = "BIT_XOR" -> OfBits((a \ b) \cup (b \ a))
         [] op = "BIT_LSHIFT" -> OfBits({i + places : i \in a} \cap Bits)
         [] op = "BIT_RSHIFT" -> Llong(x \div 2 ^ places)

LogicOperation(op, p, q) ==
    CASE op = "LOGIC_AND" -> Truth(p = 1 /\ q = 1)
      [] op = "LOGIC_OR" -> Truth(p = 1 \/ q = 1)
      [] op = "LOGIC_XOR" -> Truth(p # q)

\* Strings are compared as texts, numbers as numbers.
IsBelow(v, w) ==
    IF v.type = "string" THEN Less(v.value, w.value)
    ELSE LET f == AsFloat(v)
             g == AsFloat(w)
         IN f[1] * g[2] < g[1] * f[2]

Comparison(op, v, w) ==
    Truth(CASE op = "LT" -> IsBelow(v, w)
            [] op = "LE" -> ~IsBelow(w, v)
            [] op = "GT" -> IsBelow(w, v)
            [] op = "GE" -> ~IsBelow(v, w)
            [] op = "EQ" -> ~IsBelow(v, w) /\ ~IsBelow(w, v)
            [] op = "NE" -> IsBelow(v, w) \/ IsBelow(w, v))

\* toint, tofloat, tostring and the operators named after two types
Converted(v, type) ==
    IF type = v.type THEN v
    ELSE CASE type = "string" -> Pchar(TextOf(v))
           [] type = "int" -> IF v.type = "float" THEN Llong(Truncated(v.value)) ELSE ReadInt(v.value, 0)
           [] type = "float" -> IF v.type = "int" THEN Double(<<v.value, 1>>) ELSE ReadFloat(v.value)

Target(op) ==
    CASE op \in {"TOINT", "STR2INT", "FLT2INT"} -> "int"
      [] op \in {"TOFLOAT", "STR2FLT", "INT2FLT"} -> "float"
      [] op \in {"TOSTRING", "INT2STR", "FLT2STR"} -> "string"

\* An empty pattern is found for ever: the result grows until there is no memory
\* left, or not at all.
Replaced(text, pattern, replacement, sensitive) ==
    IF pattern # Empty THEN Pchar(StrReplace(text, pattern, replacement, sensitive))
    ELSE IF replacement = Empty THEN Endless ELSE Failed

\* The operators whose result depends on the operands alone
Applied(op, args) ==
    LET arg == [i \in DOMAIN args |-> args[i].value] IN
    CASE op \in Arithmetic -> Computed(op, args)
      [] op \in Bitwise2 -> BitOperation(op, arg[1], arg[2])
      [] op = "BIT_NEG" -> OfBits(Bits \ BitsOf(arg[1]))
      [] op \in Logic2 -> LogicOperation(op, arg[1], arg[2])
      [] op = "LOGIC_NOT" -> Truth(arg[1] = 0)
      [] op \in Comparisons -> Comparison(op, args[1], args[2])
      [] op = "SUBSTR" -> Pchar(Substring(arg[1], arg[2], arg[3]))
      [] op = "STRLEN" -> Llong(Len(arg[1]))
      [] op = "CONCAT" -> Pchar(arg[1] \o arg[2])
      [] op = "INT2STRB" -> Pchar(ToBase(arg[1], arg[2]))
      [] op = "STRB2INT" -> ReadInt(arg[1], arg[2])
      [] op = "IF" -> IF arg[1] # 0 THEN args[2] ELSE args[3]
      [] op = "REPLACE" -> Replaced(arg[1], arg[2], arg[3], arg[4] # 0)
      [] OTHER -> Converted(args[1], Target(op))

-----------------------------------------------------------------------------
(* Regular expressions *)

\* like: the pattern between ^ and $, with .* for each % and a backslash before
\* what means something in an expression
LikeRegex(pattern) ==
    LET Piece(l) ==
            IF l = Percent THEN <<Punctuation.dot, Punctuation.star>>
            ELSE IF l \in {Punctuation[p] : p \in DOMAIN Punctuation} THEN <<Punctuation.backslash, l>>
            ELSE <<l>>
    IN <<Punctuation.caret>> \o FlattenSeq([i \in DOMAIN pattern |-> Piece(pattern[i])])
         \o <<Punctuation.dollar>>

Regex(op, args) == IF op = "LIKE" THEN LikeRegex(args[2].value) ELSE args[2].value

\* The last operand tells whether case matters.
Flags(op, args) ==
    (IF op \in {"LIKE", "REPLACE_ERE", "MATCHES_ERE"} THEN {"extended"} ELSE {})
    \cup (IF op \in {"LIKE", "MATCHES_BRE", "MATCHES_ERE"} THEN {"nosub"} ELSE {})
    \cup (IF op # "LIKE" /\ Last(args).value = 0 THEN {"icase"} ELSE {})

\* A value behind another, unless one of them is a failure
Behind(v, w) == IF ~IsValue(v) THEN v ELSE IF ~IsValue(w) THEN w ELSE Pchar(v.value \o w.value)

\* replace_re(), letter by letter: what there is so far, and whether the letter
\* before is a %
LettersPut(replacement, group) ==
    LET Meant(behind, l) ==
            IF ~behind \/ l = Percent THEN Pchar(<<l>>) ELSE IF l \in 0 .. 9 THEN group[l] ELSE Failed
        Letter(so, l) ==
            IF ~so.behind /\ l = Percent THEN [so EXCEPT !.behind = TRUE]
            ELSE [behind |-> FALSE, result |-> Behind(so.result, Meant(so.behind, l))]
    IN FoldLeft(Letter, [behind |-> FALSE, result |-> Pchar(Empty)], replacement)

\* The replacement, in which %n stands for group n; the rest of the text is
\* dropped.
Expanded(replacement, group) ==
    LET whole == LettersPut(replacement, group)
    IN Behind(whole.result, IF whole.behind THEN Failed ELSE Pchar(Empty))

\* regexec() fills in matches[0] to matches[8]; matches[9] was never set.
Groups(found, unset) ==
    [n \in 0 .. 9 |-> IF n = 9 THEN unset
                      ELSE IF n \in DOMAIN found THEN Pchar(found[n]) ELSE Failed]

\* The results the operators may have with a compiled expression
Matched(op, args, comp) ==
    LET text == args[1].value IN
    IF comp = BadRegex THEN {Failed}
    ELSE IF op \notin {"REPLACE_BRE", "REPLACE_ERE"} THEN {Truth(text \in DOMAIN comp)}
    ELSE IF text \notin DOMAIN comp THEN {args[1]}
    ELSE {Expanded(args[3].value, Groups(comp[text], unset)) : unset \in {Pchar(Empty), Failed, Crashed}}
=============================================================================
