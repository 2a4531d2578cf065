-------------------------------- MODULE Text --------------------------------
(***************************************************************************)
(* Three parsers of sylar, as functions of their input:                    *)
(*   - StringUtil::UrlEncode and UrlDecode (util.cpp), over bytes;         *)
(*   - LogFormatter::init (log.cpp), which compiles a pattern such as      *)
(*     %d{%H:%M}-%m into the items a log line is written from;             *)
(*   - Env::init (env.cpp), which reads the command line into args_.       *)
(* A string is a sequence of its characters: bytes for the URL functions,  *)
(* one-character strings for a pattern, and an argument is a record that   *)
(* tells whether it starts with a dash and what follows it.                *)
(***************************************************************************)
EXTENDS Integers, Sequences, SequencesExt

-----------------------------------------------------------------------------
\* StringUtil::UrlEncode and UrlDecode.

Space == 32
Percent == 37
Plus == 43

\* uri_chars: the bytes that stand for themselves: - . = _ ~, digits, letters.
Unreserved == {45, 46, 61, 95, 126} \cup 48..57 \cup 65..90 \cup 97..122

\* hexdigits, written; xdigit_chars, read in either case.
HexDigit(v) == IF v < 10 THEN 48 + v ELSE 55 + v
XDigits == 48..57 \cup 65..70 \cup 97..102
XValue(c) == IF c <= 57 THEN c - 48 ELSE IF c <= 70 THEN c - 55 ELSE c - 87

EncodeByte(c, spaceAsPlus) ==
    IF c \in Unreserved THEN <<c>>
    ELSE IF c = Space /\ spaceAsPlus THEN <<Plus>>
    ELSE <<Percent, HexDigit(c \div 16), HexDigit(c % 16)>>

UrlEncode(str, spaceAsPlus) ==
    FlattenSeq([i \in DOMAIN str |-> EncodeByte(str[i], spaceAsPlus)])

\* The test of UrlDecode for an escape: a percent sign with two hexadecimal
\* digits behind it, the second of them before the end.
IsEscape(str, i) ==
    /\ str[i] = Percent
    /\ i + 2 <= Len(str)
    /\ {str[i + 1], str[i + 2]} \subseteq XDigits

RECURSIVE DecodeFrom(_, _, _)
DecodeFrom(str, i, spaceAsPlus) ==
    IF i > Len(str) THEN <<>>
    ELSE IF str[i] = Plus /\ spaceAsPlus
         THEN <<Space>> \o DecodeFrom(str, i + 1, spaceAsPlus)
    ELSE IF IsEscape(str, i)
         THEN <<16 * XValue(str[i + 1]) + XValue(str[i + 2])>>
              \o DecodeFrom(str, i + 3, spaceAsPlus)
    ELSE <<str[i]>> \o DecodeFrom(str, i + 1, spaceAsPlus)

UrlDecode(str, spaceAsPlus) == DecodeFrom(str, 1, spaceAsPlus)

-----------------------------------------------------------------------------
\* LogFormatter::init.

\* isalpha, for the characters of the patterns that are explored.
IsAlpha(c) == c \notin {"%", "{", "}", "-", " "}

\* format_items: the directives that have a format item class. A time item
\* keeps its format; the others are given it and ignore it.
FormatItems == {<<c>> : c \in {"m", "p", "r", "c", "t", "n", "d", "f", "l", "T", "F", "N"}}

\* The directive whose % stands at i: its name is the run of letters and
\* closing braces behind it, its format what { } encloses. It fails when the
\* brace is never closed. next is where the scan goes on.
Directive(p, i) ==
    LET n == SelectInSubSeq(p, i + 1, Len(p), LAMBDA c : ~IsAlpha(c) /\ c # "}")
        m == SelectInSubSeq(p, n + 1, Len(p), LAMBDA c : c = "}")
        Parsed(str, fmt, next) == [ok |-> TRUE, str |-> str, fmt |-> fmt, next |-> next]
        name == SubSeq(p, i + 1, n - 1)
    IN  CASE n = 0 -> Parsed(SubSeq(p, i + 1, Len(p)), <<>>, Len(p) + 1)
          [] n # 0 /\ p[n] # "{" -> Parsed(name, <<>>, n)
          [] n # 0 /\ p[n] = "{" /\ m # 0 -> Parsed(name, SubSeq(p, n + 1, m - 1), m + 1)
          [] OTHER -> [ok |-> FALSE]

Literal(str) == [type |-> "text", str |-> str, fmt |-> <<>>]

\* Mutant: the literal text in front of a directive is dropped.
FlushedNever(vec, nstr) == vec

Flushed(vec, nstr) == IF nstr = <<>> THEN vec ELSE Append(vec, Literal(nstr))

\* The loop of init from position i, with the literal text collected so far in
\* nstr. A percent sign in front of another one is text, and the second one is
\* looked at again; an unclosed brace leaves an error item and the text behind
\* the percent sign is read on as a literal.
RECURSIVE Scan(_, _, _, _)
Scan(p, i, nstr, vec) ==
    LET d == Directive(p, i)
    IN  CASE i > Len(p) -> Flushed(vec, nstr)
          [] i <= Len(p) /\ (p[i] # "%" \/ (i < Len(p) /\ p[i + 1] = "%")) ->
                Scan(p, i + 1, Append(nstr, p[i]), vec)
          [] OTHER ->
                IF d.ok THEN Scan(p, d.next, <<>>,
                                  Append(Flushed(vec, nstr),
                                         [type |-> "item", str |-> d.str, fmt |-> d.fmt]))
                ELSE Scan(p, i + 1, nstr, Append(vec, [type |-> "error"]))

\* The items init creates, and error_: a directive without an item is an error.
Items(pattern) == Scan(pattern, 1, <<>>, <<>>)

IsError(pattern) ==
    \E k \in DOMAIN Items(pattern) :
        LET it == Items(pattern)[k]
        IN  it.type = "error" \/ (it.type = "item" /\ it.str \notin FormatItems)

-----------------------------------------------------------------------------
\* Env::init. An argument is [dash, text]: -text, or text without a dash. The
\* link to the program's own file may be unreadable.

\* return false: what has been added to args_ stays there.
ArgsFail(args) == [ok |-> FALSE, args |-> args]

\* args_[key] = val, with std::map's overwriting.
AddArg(args, key, val) == [k \in DOMAIN args \cup {key} |-> IF k = key THEN val ELSE args[k]]

\* if (now_key) add(now_key, ""): a key without a value is a flag.
AddFlag(args, nowKey) == IF nowKey = <<>> THEN args ELSE AddArg(args, nowKey[1], "")

RECURSIVE ReadArgs(_, _, _, _)
ReadArgs(argv, i, nowKey, args) ==
    IF i > Len(argv) THEN [ok |-> TRUE, args |-> AddFlag(args, nowKey)]
    ELSE IF argv[i].dash
         THEN IF argv[i].text = "" THEN ArgsFail(args)
              ELSE ReadArgs(argv, i + 1, <<argv[i].text>>, AddFlag(args, nowKey))
    ELSE IF nowKey = <<>> THEN ArgsFail(args)
    ELSE ReadArgs(argv, i + 1, <<>>, AddArg(args, nowKey[1], argv[i].text))

EnvInit(argv, readable) ==
    IF readable THEN ReadArgs(argv, 1, <<>>, <<>>) ELSE ArgsFail(<<>>)
=============================================================================
