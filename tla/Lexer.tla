-------------------------------- MODULE Lexer --------------------------------
(***************************************************************************)
(* js_tokenize (jsengine/src/core/lexer.c): one step per turn of its loop. *)
(* A text is a sequence of characters, a token its kind and its text; the  *)
(* value of a number and the line of a token are left out.                 *)
(***************************************************************************)
EXTENDS Integers, Sequences, SequencesExt

CONSTANTS
  AnyTexts,              \* sequences of characters
  Digits, Letters,       \* characters: of numbers; of names, with _ and $
  MAX_TOKENS, TEXT_SIZE  \* the size of TokenList.tokens and of Token.text

VARIABLES
  text, at,   \* the source and the place in it
  lexed,       \* the tokens so far
  result      \* of js_tokenize: none yet, ok, too many; or undefined

lexing == <<text, at, lexed, result>>

NUL == "NUL"
Char(k) == IF k <= Len(text) THEN text[k] ELSE NUL

\* The first of these places from k on, or the end.
Until(k, places) == Min({j \in places : j >= k} \cup {Len(text) + 1})
AllBut(chars) == {j \in 1 .. Len(text) : text[j] \notin chars}
Joined(s) == FoldLeft(LAMBDA word, c : word \o c, "", s)

Blanks == {" ", "\t", "\r"}
Quotes == {"\"", "'"}
Keywords == {"function", "return", "if", "else", "while", "for", "null", "undefined"}
Operators3 == {<<"=", "=", "=">>, <<"!", "=", "=">>}
Operators2 ==
  {<<"=", "=">>, <<"!", "=">>, <<"=", ">">>, <<"&", "&">>, <<"|", "|">>, <<"<", "=">>, <<">", "=">>,
   <<"<", "<">>, <<">", ">">>, <<"+", "+">>, <<"-", "-">>}
Operators1 == {"+", "-", "*", "/", "%", "=", "!", "<", ">", "&", "|", "^", "~", "(", ")", "{", "}",
               "[", "]", ";", ",", ":", "."}
OperatorForms == {<<c>> : c \in Operators1} \cup Operators2 \cup Operators3

ASSUME LexerAssumption ==
  /\ \A s \in AnyTexts : s \in Seq(ToSet(s)) /\ NUL \notin ToSet(s)
  /\ Digits \cap Letters = {}
  /\ (Digits \cup Letters) \cap (Blanks \cup Quotes \cup Operators1 \cup {NUL, "\n", "\\"}) = {}
  /\ {MAX_TOKENS, TEXT_SIZE} \subseteq Nat \ {0}

\* The parser treats const and var like let, and true like false.
check_keyword(word) ==
  CASE word \in {"let", "const", "var"} -> <<"let", word>>
    [] word \in {"true", "false"} -> <<"BOOL", word>>
    [] word \in Keywords -> <<word, word>>
    [] OTHER -> <<"IDENT", word>>

\* The end of a string: a backslash takes the next character with it, the end of
\* the text as well.
StringEnd(k, quote) ==
  LET end[j \in 1 .. Len(text) + 2] ==
        IF j > Len(text) THEN j
        ELSE IF text[j] = quote THEN j ELSE end[IF text[j] = "\\" THEN j + 2 ELSE j + 1]
  IN end[k]

\* A token of some characters; the place behind it, and the length of its text.
Spelt(kind, s) == <<kind, Joined(s)>>
SignOf(s) == Spelt(Joined(s), s)
Scanned(token, next, length) == [token |-> token, next |-> next, length |-> length]

\* The three characters from a place on, and the first two of them.
Three(k) == <<Char(k), Char(k + 1), Char(k + 2)>>
Two(k) == <<Char(k), Char(k + 1)>>
OneAt(k) ==
  Scanned(IF Char(k) \in Operators1 THEN SignOf(<<Char(k)>>) ELSE Spelt("ERROR", <<Char(k)>>), k + 1, 1)

\* Variant: two characters are tried before three.
OperatorAtShort(k) == IF Two(k) \in Operators2 THEN Scanned(SignOf(Two(k)), k + 2, 2) ELSE OneAt(k)

\* Operators of three characters come first, then those of two.
OperatorAt(k) ==
  IF Three(k) \in Operators3 THEN Scanned(SignOf(Three(k)), k + 3, 3)
  ELSE IF Two(k) \in Operators2 THEN Scanned(SignOf(Two(k)), k + 2, 2)
  ELSE OneAt(k)

NumberAt(k) ==
  LET next == Until(k, AllBut(Digits \cup {"."})) IN
    Scanned(Spelt("NUM", SubSeq(text, k, next - 1)), next, next - k)
StringAt(k) ==
  LET close == StringEnd(k + 1, Char(k)) IN
    Scanned(Spelt("STR", SubSeq(text, k + 1, Min({close - 1, Len(text)}))),
            IF Char(close) = Char(k) THEN close + 1 ELSE close, close - k - 1)
WordAt(k) ==
  LET next == Until(k, AllBut(Digits \cup Letters)) IN
    Scanned(check_keyword(Joined(SubSeq(text, k, next - 1))), next, next - k)

TokenAt(k) ==
  CASE Char(k) \in Digits \/ (Char(k) = "." /\ Char(k + 1) \in Digits) -> NumberAt(k)
    [] Char(k) \in Quotes -> StringAt(k)
    [] Char(k) \in Letters -> WordAt(k)
    [] OTHER -> OperatorAt(k)

-----------------------------------------------------------------------------
(* The turns of the loop, each after the blanks before it. *)

Start == Until(at, AllBut(Blanks))
AtLineComment == Char(Start) = "/" /\ Char(Start + 1) = "/"
AtBlockComment == Char(Start) = "/" /\ Char(Start + 1) = "*"
AtToken == Char(Start) \notin {NUL, "\n"} /\ ~ AtLineComment /\ ~ AtBlockComment

SkipLine ==
  /\ result = "none"
  /\ \/ Char(Start) = "\n" /\ at' = Start + 1
     \/ AtLineComment /\ at' = Until(Start, {j \in 1 .. Len(text) : text[j] = "\n"})
  /\ UNCHANGED <<text, lexed, result>>

SkipBlockComment ==
  /\ result = "none" /\ AtBlockComment
  /\ LET end == Until(Start + 2, {j \in 1 .. Len(text) : text[j] = "*" /\ Char(j + 1) = "/"}) IN
       at' = IF Char(end) = NUL THEN end ELSE end + 2
  /\ UNCHANGED <<text, lexed, result>>

\* What is copied beyond Token.text or read beyond the text is left open.
Scan ==
  /\ result = "none" /\ AtToken /\ Len(lexed) < MAX_TOKENS
  /\ LET s == TokenAt(Start) IN
       IF s.length >= TEXT_SIZE \/ s.next > Len(text) + 1
         THEN result' = "undefined" /\ UNCHANGED <<at, lexed>>
         ELSE at' = s.next /\ lexed' = Append(lexed, s.token) /\ UNCHANGED result
  /\ UNCHANGED text

TooMany ==
  /\ result = "none" /\ AtToken /\ Len(lexed) >= MAX_TOKENS
  /\ result' = "too many"
  /\ UNCHANGED <<text, at, lexed>>

\* The end mark is written without looking for room.
EndOfText ==
  /\ result = "none" /\ Char(Start) = NUL
  /\ IF Len(lexed) = MAX_TOKENS
       THEN result' = "undefined" /\ UNCHANGED lexed
       ELSE result' = "ok" /\ lexed' = Append(lexed, <<"EOF", "EOF">>)
  /\ UNCHANGED <<text, at>>

Tokenize == SkipLine \/ SkipBlockComment \/ Scan \/ TooMany \/ EndOfText

\* js_tokenize alone.
LexInit(source) == text = source /\ at = 1 /\ lexed = << >> /\ result = "none"
LexSpec == (\E source \in AnyTexts : LexInit(source)) /\ [][Tokenize]_lexing

-----------------------------------------------------------------------------
(* What the tokens of a text are: the longest lexeme at each place that is *)
(* no blank and in no comment.                                             *)

\* An odd number of backslashes stands in front of the place.
Escaped(s, k) == (k - Max({0} \cup {j \in 1 .. k - 1 : s[j] # "\\"})) % 2 = 0
Closed(s) == Len(s) >= 2 /\ s[1] \in Quotes /\ {k \in 2 .. Len(s) : s[k] = s[1] /\ ~ Escaped(s, k)} = {Len(s)}
NumberForm(s) ==
  /\ s[1] \in Digits \/ (Len(s) >= 2 /\ s[1] = "." /\ s[2] \in Digits)
  /\ ToSet(s) \subseteq Digits \cup {"."}
Word(s) == s[1] \in Letters /\ ToSet(s) \subseteq Digits \cup Letters
Lexeme(s) == NumberForm(s) \/ Word(s) \/ Closed(s) \/ s \in OperatorForms

\* The characters that a token's text is copied from: a string's are between its
\* quotes.
Inside(s) == IF s[1] \in Quotes THEN SubSeq(s, 2, IF Closed(s) THEN Len(s) - 1 ELSE Len(s)) ELSE s
TokenOf(s) ==
  CASE NumberForm(s) -> Spelt("NUM", s)
    [] Word(s) -> check_keyword(Joined(s))
    [] s[1] \in Quotes -> Spelt("STR", Inside(s))
    [] s \in OperatorForms -> SignOf(s)
    [] OTHER -> Spelt("ERROR", s)

\* Blanks and comments.
LineComment(s, k) == k < Len(s) /\ s[k] = "/" /\ s[k + 1] = "/"
BlockComment(s, k) == k < Len(s) /\ s[k] = "/" /\ s[k + 1] = "*"
Passed(s, k) == s[k] \in Blanks \cup {"\n"} \/ LineComment(s, k) \/ BlockComment(s, k)

\* The last place of the longest lexeme: a string that is not closed takes all.
LexemeEnd(s, k) ==
  LET ends == {j \in k .. Len(s) : Lexeme(SubSeq(s, k, j))} IN
    IF ends # {} THEN Max(ends) ELSE IF s[k] \in Quotes THEN Len(s) ELSE k

\* The place behind the blank, the comment or the lexeme at a place.
Behind(s, k) ==
  CASE s[k] \in Blanks \cup {"\n"} -> k + 1
    [] LineComment(s, k) -> Min({j \in k .. Len(s) : s[j] = "\n"} \cup {Len(s) + 1})
    [] BlockComment(s, k) -> Min({j \in k + 3 .. Len(s) : s[j - 1] = "*" /\ s[j] = "/"} \cup {Len(s)}) + 1
    [] OTHER -> LexemeEnd(s, k) + 1

LexemesFrom(s, k) ==
  LET rest[j \in 1 .. Len(s) + 1] ==
        IF j > Len(s) THEN << >>
        ELSE IF Passed(s, j) THEN rest[Behind(s, j)]
        ELSE <<SubSeq(s, j, Behind(s, j) - 1)>> \o rest[Behind(s, j)]
  IN rest[k]
Lexemes(s) == LexemesFrom(s, 1)

\* What is not copied as it should be: a text that fills its field, a string in
\* which a backslash takes the end of the text.
Large(s) == Len(Inside(s)) >= TEXT_SIZE \/ (s[1] \in Quotes /\ ~ Closed(s) /\ Escaped(s, Len(s) + 1))

\* The list is the text's tokens and an end mark; there is none if the tokens do
\* not fit.  It is open what happens if they fill the table exactly, if the text
\* of one of them fills its field, or if a backslash is the last character of a
\* string that is not closed (js_tokenize).
TokensOfTheText ==
  result # "none" =>
    LET lexemes == Lexemes(text)
        early == \E k \in 1 .. Len(lexemes) : k <= MAX_TOKENS /\ Large(lexemes[k])
    IN /\ result = IF early \/ Len(lexemes) = MAX_TOKENS THEN "undefined"
                    ELSE IF Len(lexemes) > MAX_TOKENS THEN "too many" ELSE "ok"
       /\ result = "ok" => lexed = Append([k \in 1 .. Len(lexemes) |-> TokenOf(lexemes[k])], <<"EOF", "EOF">>)
=============================================================================
