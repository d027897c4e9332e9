-------------------------------- MODULE Lexer --------------------------------
(***************************************************************************)
(* Pseudocode text to tokens (language-core/src/lexer).  A text is a       *)
(* sequence of characters, each a string; the letters of a word stand      *)
(* together as one "character".  Left out: spans, and the range of the     *)
(* integers.                                                               *)
(***************************************************************************)
EXTENDS Integers, Sequences, SequencesExt, FiniteSets, FiniteSetsExt

Digit == { "0", "1", "2", "3", "4", "5", "6", "7", "8", "9" }
Blank == { " ", "\t" }
Quote == { "\"", "'" }
\* The characters that are a token by themselves; the dot is apart.
Symbol == { "←", "<", ">", "=", "+", "&", "-", "*", "^", "/", "(", ")", "[", "]",
            ",", ":" }
Junk == { "?", "\\" }
isDigit(c)      == c \in Digit
isIdentStart(c) == c \notin Digit \cup Blank \cup Quote \cup Symbol \cup Junk
                            \cup { ".", "\n", "" }
isIdentPart(c)  == isIdentStart(c) \/ isDigit(c)

TypeTokens == { "INTEGER", "REAL", "STRING", "BOOLEAN", "CHAR", "DATE" }
FileModes  == { "READ", "WRITE", "APPEND", "RANDOM" }
KEYWORDS ==
  { "INPUT", "OUTPUT", "TRUE", "FALSE", "DIV", "MOD", "DECLARE", "CONSTANT", "IF",
    "THEN", "ELSE", "ENDIF", "CASE", "OTHERWISE", "ENDCASE", "WHILE", "DO",
    "ENDWHILE", "FOR", "TO", "STEP", "NEXT", "REPEAT", "UNTIL", "PROCEDURE",
    "ENDPROCEDURE", "FUNCTION", "ENDFUNCTION", "RETURNS", "RETURN", "CALL", "BYVAL",
    "BYREF", "AND", "OR", "NOT", "ARRAY", "OF", "OPENFILE", "READFILE", "WRITEFILE",
    "CLOSEFILE", "SEEK", "GETRECORD", "PUTRECORD", "EOF", "TYPE", "ENDTYPE", "SET",
    "DEFINE", "CLASS", "ENDCLASS", "PUBLIC", "PRIVATE", "INHERITS", "SUPER", "NEW" }
  \cup TypeTokens \cup FileModes

\* keywordKind folds the case: `output` is the keyword in a spelling of its own.
keywordKind(w) ==
  CASE w \in { "TRUE", "FALSE" } -> "Boolean"
    [] w = "output" -> "OUTPUT"
    [] w \in KEYWORDS -> w
    [] OTHER -> "Identifier"

token(kind, lexeme, literal) ==
  [ kind |-> kind, lexeme |-> lexeme, literal |-> literal ]
Eof == token("Eof", "", << >>)

at(text, i) == IF i <= Len(text) THEN text[i] ELSE ""
Joined(cs)  == FoldLeft(LAMBDA s, c : s \o c, "", cs)

\* The first position from i on whose character Holds not.
Past(text, i, Holds(_)) ==
  CHOOSE j \in i..(Len(text) + 1) :
    /\ \A k \in i..(j - 1) : Holds(text[k])
    /\ j > Len(text) \/ ~Holds(text[j])

\* One step: the tokens and errors found, and the next position.
lexed(next, tokens, errors) ==
  [ next |-> next, tokens |-> tokens, errors |-> errors ]
emit(next, kind, lexeme, literal) ==
  lexed(next, << token(kind, lexeme, literal) >>, << >>)

(***************************************************************************)
(* String and character literals.                                          *)
(***************************************************************************)
escaped(c) == CASE c = "n" -> "\n" [] c = "t" -> "\t" [] OTHER -> c

\* The characters up to the closing quote, and where they end.
RECURSIVE quoted(_, _, _)
quoted(text, i, q) ==
  LET more(c, next) == LET r == quoted(text, next, q) IN
                       [ r EXCEPT !.chars = << c >> \o @ ]
  IN CASE at(text, i) \in { "", "\n" } ->
            [ chars |-> << >>, next |-> i, closed |-> FALSE ]
       [] at(text, i) = q -> [ chars |-> << >>, next |-> i + 1, closed |-> TRUE ]
       [] at(text, i) = "\\" /\ at(text, i + 1) # "" ->
            more(escaped(at(text, i + 1)), i + 2)
       [] OTHER -> more(at(text, i), i + 1)

quotedToken(q, r) ==
  [ emit(r.next, IF q = "'" THEN "Char" ELSE "String", "", r.chars)
    EXCEPT !.errors =
      CASE ~r.closed -> << IF q = "'" THEN "E_CHAR_LIT" ELSE "E_STRING" >>
        [] r.closed /\ q = "'" /\ Len(r.chars) # 1 -> << "E_CHAR_LEN" >>
        [] OTHER -> << >> ]
lexQuoted(text, i) == quotedToken(text[i], quoted(text, i + 1, text[i]))

(***************************************************************************)
(* Numbers and dates.                                                      *)
(***************************************************************************)
numberOf(ds) ==
  LET digits == << "0", "1", "2", "3", "4", "5", "6", "7", "8", "9" >> IN
  FoldLeft(LAMBDA n, d : 10 * n + (CHOOSE k \in 1..10 : digits[k] = d) - 1, 0, ds)

isValidCalendarDate(d, m, y) ==
  LET leap == (y % 4 = 0 /\ y % 100 # 0) \/ y % 400 = 0
      days == CASE m \in { 4, 6, 9, 11 } -> 30
                [] m = 2 -> IF leap THEN 29 ELSE 28
                [] OTHER -> 31
  IN y >= 1 /\ m \in 1..12 /\ d \in 1..days

\* peekDateRest: the slash at i, the month up to m and the year up to y make,
\* with the digits before, a date.
isDateRest(text, i, m, y) ==
  /\ at(text, i) = "/" /\ isDigit(at(text, i + 1))
  /\ m - (i + 1) \in 1..2 /\ at(text, m) = "/"
  /\ y - (m + 1) = 4 /\ ~isIdentStart(at(text, y))

\* The digits of a number as it is written back: no zeros before, or after.
significant(ds) ==
  LET first == Past(ds, 1, LAMBDA d : d = "0") IN
  IF first > Len(ds) THEN << "0" >> ELSE SubSeq(ds, first, Len(ds))

dateToken(day, month, year, next) ==
  [ emit(next, "Date", "", significant(day) \o << "/" >> \o significant(month)
                           \o << "/" >> \o significant(year))
    EXCEPT !.errors =
      IF isValidCalendarDate(numberOf(day), numberOf(month), numberOf(year)) THEN << >>
      ELSE << "E_DATE_LITERAL" >> ]
dateOrInteger(text, digits, slash, m, y) ==
  IF isDateRest(text, slash, m, y)
  THEN dateToken(digits, SubSeq(text, slash + 1, m - 1), SubSeq(text, m + 1, y - 1), y)
  ELSE emit(slash, "Integer", "", significant(digits))

\* A REAL may lack the digits on one side of its dot.
isRealDot(text, i) ==
  /\ at(text, i) = "."
  /\ isDigit(at(text, i + 1)) \/ ~isIdentStart(at(text, i + 1))

\* The digits from i to whole, those of a fraction or none to end, a word or
\* none glued to them up to next.
numberToken(text, i, whole, end, next) ==
  LET digits == SubSeq(text, i, whole - 1)
      m      == Past(text, next + 1, isDigit)
  IN [ IF end = whole
       THEN dateOrInteger(text, digits, next, m, Past(text, m + 1, isDigit))
       ELSE emit(next, "Real", "", significant(digits) \o << "." >> \o
              Reverse(significant(Reverse(SubSeq(text, whole + 1, end - 1)))))
       EXCEPT !.errors = (IF next > end THEN << "E_NUMBER_IDENT" >> ELSE << >>) \o @ ]
lexNumber(text, i) ==
  LET whole == Past(text, i, isDigit)
      end   == IF isRealDot(text, whole) THEN Past(text, whole + 1, isDigit) ELSE whole
  IN numberToken(text, i, whole, end,
       IF isIdentStart(at(text, end)) THEN Past(text, end, isIdentPart) ELSE end)

(***************************************************************************)
(* Words, symbols, and the whole text.                                     *)
(***************************************************************************)
wordToken(word, kind, next) ==
  emit(next, kind, word, IF kind = "Boolean" THEN << word >> ELSE << >>)
lexWord(text, i) ==
  LET end  == Past(text, i, isIdentPart)
      word == Joined(SubSeq(text, i, end - 1))
  IN wordToken(word, keywordKind(word), end)

\* The kind of the symbol two characters make, "" when they make none.
pair(c, d) ==
  CASE << c, d >> = << "<", "-" >> -> "←"
    [] << c, d >> \in { << "<", ">" >>, << "<", "=" >>, << ">", "=" >> } -> c \o d
    [] OTHER -> ""

lexStep(text, i) ==
  LET c == text[i]
      d == at(text, i + 1)
  IN CASE c \in Blank -> lexed(i + 1, << >>, << >>)
       [] c = "/" /\ d = "/" ->
            lexed(Past(text, i, LAMBDA x : x # "\n"), << >>, << >>)
       [] c = "\n" -> emit(i + 1, "Newline", c, << >>)
       [] pair(c, d) # "" -> emit(i + 2, pair(c, d), c \o d, << >>)
       [] c \in Symbol /\ pair(c, d) = "" /\ ~(c = "/" /\ d = "/") ->
            emit(i + 1, c, c, << >>)
       [] c \in Quote -> lexQuoted(text, i)
       [] isDigit(c) \/ (c = "." /\ isDigit(d)) -> lexNumber(text, i)
       [] c = "." /\ ~isDigit(d) -> emit(i + 1, ".", c, << >>)
       [] isIdentStart(c) -> lexWord(text, i)
       [] OTHER -> lexed(i + 1, << >>, << "E_CHAR" >>)

RECURSIVE lexFrom(_, _, _)
lexFrom(text, i, before) ==
  LET and(s) == lexFrom(text, s.next, lexed(s.next, before.tokens \o s.tokens,
                                            before.errors \o s.errors))
  IN IF i > Len(text) THEN [ before EXCEPT !.tokens = Append(@, Eof) ]
     ELSE and(lexStep(text, i))

lex(text) == lexFrom(text, 1, lexed(1, << >>, << >>))
=============================================================================
