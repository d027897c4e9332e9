-------------------------- MODULE ExpressionParser --------------------------
(***************************************************************************)
(* The read head and the expressions of the parser                         *)
(* (language-core/src/parser/cursor.ts, expression.ts), with the types and *)
(* parameters of parser.ts.  A parser is a value: its tokens, its read     *)
(* head i, the errors so far, the body it is in and how many blocks        *)
(* enclose it.  Left out: spans and messages.                              *)
(***************************************************************************)
EXTENDS Lexer, SyntaxTree

StructuralCloser ==
  { "NEXT", "UNTIL", "ENDWHILE", "ENDIF", "ENDCASE", "ENDTYPE", "ENDCLASS",
    "ENDPROCEDURE", "ENDFUNCTION", "OTHERWISE", "ELSE", "TO", "STEP", "FOR",
    "WHILE", "REPEAT", "IF", "CASE", "PROCEDURE", "FUNCTION", "CLASS", "TYPE" }
ScalarLiteral == { "Integer", "Real", "String", "Char", "Boolean" }

\* Binding powers << left, right >>.
INFIX_BP ==
  [ k \in { "OR", "AND", "=", "<>", "<", "<=", ">", ">=", "+", "-", "&", "*", "/",
            "DIV", "MOD" } |->
      CASE k = "OR" -> << 1, 2 >>
        [] k = "AND" -> << 3, 4 >>
        [] k \in { "=", "<>", "<", "<=", ">", ">=" } -> << 5, 6 >>
        [] k \in { "+", "-", "&" } -> << 10, 11 >>
        [] OTHER -> << 20, 21 >> ]
PREFIX_BP == 30

(***************************************************************************)
(* The read head, and results: a value or none, and the parser after it.   *)
(***************************************************************************)
peek(p)         == p.tokens[p.i].kind
lexeme(p)       == p.tokens[p.i].lexeme
check(p, kinds) == peek(p) \in kinds
isAtEnd(p)      == peek(p) = "Eof"
advance(p)      == IF isAtEnd(p) THEN p ELSE [ p EXCEPT !.i = @ + 1 ]
over(p, kind)   == IF peek(p) = kind THEN advance(p) ELSE p
pushError(p, code) == [ p EXCEPT !.errors = Append(@, code) ]

RECURSIVE skipNewlines(_)
skipNewlines(p) == IF peek(p) = "Newline" THEN skipNewlines(advance(p)) ELSE p

\* On to the next token of the kinds, or to the end.
RECURSIVE skipTo(_, _)
skipTo(p, kinds) ==
  IF check(p, kinds \cup { "Eof" }) THEN p ELSE skipTo(advance(p), kinds)
synchronizeToNewline(p) == skipTo(p, { "Newline" })

parsed(p, v)  == [ ok |-> TRUE, p |-> p, v |-> v ]
noParse(p)    == [ ok |-> FALSE, p |-> p, v |-> << >> ]
fail(p, code) == noParse(pushError(p, code))
\* Go on with the value, or give up as r did.
Bind(r, K(_, _)) == IF r.ok THEN K(r.p, r.v) ELSE noParse(r.p)
Need(p, kind, code, K(_)) ==
  IF peek(p) = kind THEN K(advance(p)) ELSE fail(p, code)
\* The value v instead when r gave up.
OrElse(r, v) == IF r.ok THEN r ELSE parsed(r.p, v)
\* What follows reports an error of its own when r gave up.
OrError(r, code) == IF r.ok THEN r ELSE fail(r.p, code)
\* A closer that is reported when missing, not insisted on.
closed(p, kind, code) ==
  IF peek(p) = kind THEN advance(p) ELSE pushError(p, code)

IsIdentifier(p) ==
  peek(p) = "Identifier"
  \/ (check(p, { "INPUT", "OUTPUT" }) /\ lexeme(p) \notin KEYWORDS)
parseIdentifier(p) ==
  IF IsIdentifier(p) THEN parsed(advance(p), lexeme(p)) ELSE fail(p, "E_PARSE")
\* parseMethodOrFieldName, parseClassMethodName.
parseMethodName(p) ==
  IF check(p, { "NEW", "SET" }) THEN parsed(advance(p), lexeme(p))
  ELSE parseIdentifier(p)

RECURSIVE moreNames(_, _)
moreNames(p, ns) ==
  IF peek(p) # "," THEN parsed(p, ns)
  ELSE Bind(parseIdentifier(advance(p)), LAMBDA q, n : moreNames(q, Append(ns, n)))
parseNames(p) == Bind(parseIdentifier(p), LAMBDA q, n : moreNames(q, << n >>))

(***************************************************************************)
(* Expressions.                                                            *)
(***************************************************************************)
\* The expression parser calls itself through one operator: parseGoal, which
\* goes by what is to be parsed.
RECURSIVE parseGoal(_, _, _)
parsePrecedence(p, minBp) == parseGoal("expression", p, minBp)
parsePostfix(p, e)        == parseGoal("postfix", p, e)
parseArgumentList(p)      == parseGoal("arguments", p, ")")
parsePrimary(p)           == parseGoal("primary", p, << >>)
parseExpression(p)        == parsePrecedence(p, 0)

\* After an operator without a right side the left side stands, with an error.
RECURSIVE infix(_, _, _)
infix(p, left, minBp) ==
  IF peek(p) \notin DOMAIN INFIX_BP \/ INFIX_BP[peek(p)][1] < minBp
  THEN parsed(p, left)
  ELSE LET right == parsePrecedence(advance(p), INFIX_BP[peek(p)][2]) IN
       IF check(advance(p), { "Newline", "Eof" })
       THEN parsed(pushError(advance(p), "E_PARSE"), left)
       ELSE IF ~right.ok THEN parsed(pushError(right.p, "E_PARSE"), left)
       ELSE infix(right.p, BinaryExpression(peek(p), left, right.v), minBp)

IsTarget(e) == e.kind \in { "Identifier", "Index", "Member", "Deref" }
parseAssignTarget(p) ==
  Bind(parseIdentifier(p), LAMBDA q, n :
    LET r == parsePostfix(q, Identifier(n)) IN
    IF IsTarget(r.v) THEN r ELSE fail(r.p, "E_ASSIGN_TARGET"))

parsePrefix(p) ==
  CASE check(p, { "+", "-", "NOT" }) ->
         Bind(OrError(parsePrecedence(advance(p), PREFIX_BP), "E_PARSE"),
              LAMBDA q, e : parsed(q, UnaryExpression(peek(p), e)))
    [] peek(p) = "^" ->
         Bind(OrError(parseAssignTarget(advance(p)), "E_ADDRESS_OF"),
              LAMBDA q, e : parsed(q, AddressOfExpression(e)))
    [] OTHER -> parsePrimary(p)

\* The rest of a list after es; gives up only in an argument list that runs
\* into the structure of statements.
RECURSIVE moreExpressions(_, _, _)
moreExpressions(p, es, closer) ==
  LET q == advance(p)
      e == parseExpression(q)
  IN IF peek(p) # "," THEN parsed(p, es)
     ELSE IF peek(q) = closer THEN parsed(pushError(q, "E_TRAILING_COMMA"), es)
     ELSE IF closer = ")" /\ check(q, StructuralCloser)
     THEN [ fail(q, "E_MISSING_RPAREN") EXCEPT !.v = es ]
     ELSE IF ~e.ok THEN parsed(pushError(e.p, "E_PARSE"), es)
     ELSE moreExpressions(e.p, Append(es, e.v), closer)

\* The whole list, whose first expression did parse.
listFrom(first, closer) == moreExpressions(first.p, << first.v >>, closer)

\* Mutant: a keyword of the next line is taken for an argument gone wrong.
argumentsPastKeywords(p, args) ==
  parsed(advance(pushError(p, "E_PARSE")), args)

\* No argument or no closer at p: a keyword of the structure stays, and what
\* else is wrong is reported.
argumentsStopped(p, args) ==
  IF check(p, StructuralCloser)
  THEN parsed(pushError(p, "E_MISSING_RPAREN"), args)
  ELSE parsed(IF args = << >> THEN over(pushError(p, "E_PARSE"), ")")
              ELSE pushError(p, "E_PARSE"), args)

argumentsEnd(rest) ==
  CASE ~rest.ok -> parsed(rest.p, rest.v)
    [] rest.ok /\ peek(rest.p) = ")" -> parsed(advance(rest.p), rest.v)
    [] OTHER -> argumentsStopped(skipNewlines(rest.p), rest.v)

argumentsFrom(first) ==
  IF first.ok THEN argumentsEnd(listFrom(first, ")"))
  ELSE argumentsStopped(skipNewlines(first.p), << >>)

\* The opening parenthesis is behind; an argument list always has a value.
argumentList(p) ==
  IF peek(p) = ")" THEN parsed(advance(p), << >>)
  ELSE argumentsFrom(parseExpression(p))

\* The rest of a list in brackets.
bracketsFrom(first) ==
  Bind(listFrom(first, "]"), LAMBDA q, es : parsed(closed(q, "]", "E_PARSE"), es))

indexListFrom(first) ==
  IF first.ok THEN bracketsFrom(first)
  ELSE parsed(over(pushError(first.p, "E_PARSE"), "]"), << >>)
parseIndexList(p) == indexListFrom(parseExpression(p))

arrayLiteralFrom(first) ==
  IF first.ok THEN Bind(bracketsFrom(first), LAMBDA q, es : parsed(q, ArrayLiteral(es)))
  ELSE noParse(over(pushError(first.p, "E_PARSE"), "]"))
parseArrayLiteral(p) ==
  IF peek(p) = "]" THEN parsed(pushError(advance(p), "E_PARSE"), ArrayLiteral(<< >>))
  ELSE arrayLiteralFrom(parseExpression(p))

\* [ ... ], .name, .method(...), ^ after an expression.
memberAfter(name, e) ==
  CASE ~name.ok -> parsed(name.p, e)
    [] name.ok /\ peek(name.p) = "(" ->
         Bind(parseArgumentList(advance(name.p)), LAMBDA q, args :
           parsePostfix(q, MethodCallExpression(e, name.v, args)))
    [] OTHER -> parsePostfix(name.p, MemberExpression(e, name.v))
postfix(p, e) ==
  CASE peek(p) = "[" -> Bind(parseIndexList(advance(p)), LAMBDA q, is :
                          parsePostfix(q, IndexExpression(e, is)))
    [] peek(p) = "^" -> parsePostfix(advance(p), DerefExpression(e))
    [] peek(p) = "." -> memberAfter(parseMethodName(advance(p)), e)
    [] OTHER -> parsed(p, e)

literalType(kind) ==
  CASE kind = "Integer" -> "INTEGER" [] kind = "Real" -> "REAL"
    [] kind = "String" -> "STRING"   [] kind = "Char" -> "CHAR"
    [] kind = "Boolean" -> "BOOLEAN" [] kind = "Date" -> "DATE"
parseLiteral(p) ==
  parsed(advance(p), Literal(literalType(peek(p)), p.tokens[p.i].literal))

primary(p) ==
  CASE check(p, ScalarLiteral \cup { "Date" }) -> parseLiteral(p)
    [] IsIdentifier(p) ->
         IF peek(advance(p)) # "(" THEN parsePostfix(advance(p), Identifier(lexeme(p)))
         ELSE Bind(parseArgumentList(advance(advance(p))), LAMBDA q, args :
                parsePostfix(q, CallExpression(lexeme(p), args)))
    [] peek(p) = "NEW" ->
         Bind(parseIdentifier(advance(p)), LAMBDA q, class :
           Need(q, "(", "E_PARSE", LAMBDA q2 :
             Bind(parseArgumentList(q2), LAMBDA q3, args :
               parsePostfix(q3, NewExpression(class, args)))))
    [] peek(p) = "SUPER" -> parsePostfix(advance(p), SuperExpression)
    [] peek(p) = "EOF" ->
         Need(advance(p), "(", "E_PARSE", LAMBDA q :
           Bind(parseExpression(q), LAMBDA q2, e :
             parsed(closed(q2, ")", "E_PARSE"), EofExpression(e))))
    [] peek(p) = "(" ->
         Bind(OrError(parseExpression(advance(p)), "E_PARSE"), LAMBDA q, e :
           parsePostfix(closed(q, ")", "E_PARSE"), GroupingExpression(e)))
    [] peek(p) = "[" -> parseArrayLiteral(advance(p))
    [] OTHER -> fail(p, "E_PARSE")

parseGoal(goal, p, x) ==
  CASE goal = "expression" ->
         Bind(parsePrefix(p), LAMBDA q, left : infix(q, left, x))
    [] goal = "primary"    -> primary(p)
    [] goal = "postfix"    -> postfix(p, x)
    [] goal = "arguments"  -> argumentList(p)

(***************************************************************************)
(* Types and parameters.                                                   *)
(***************************************************************************)
parseSimpleTypeRef(p, code) ==
  CASE check(p, TypeTokens) -> parsed(advance(p), TypeName(peek(p)))
    [] peek(p) = "Identifier" -> parsed(advance(p), NamedType(lexeme(p)))
    [] OTHER -> fail(p, code)
parseTypeName(p) == parseSimpleTypeRef(p, "E_PARSE")

RECURSIVE parseDimensions(_, _)
parseDimensions(p, dims) ==
  Bind(parseExpression(p), LAMBDA q, lower :
    Need(q, ":", "E_PARSE", LAMBDA q2 :
      Bind(parseExpression(q2), LAMBDA q3, upper :
        LET all == Append(dims, << lower, upper >>) IN
        IF peek(q3) = "," THEN parseDimensions(advance(q3), all)
        ELSE parsed(q3, all))))

parseTypeReference(p) ==
  IF peek(p) # "ARRAY" THEN parseTypeName(p)
  ELSE Need(advance(p), "[", "E_PARSE", LAMBDA q :
         Bind(parseDimensions(q, << >>), LAMBDA q2, dims :
           Need(q2, "]", "E_PARSE", LAMBDA q3 :
             Need(q3, "OF", "E_PARSE", LAMBDA q4 :
               Bind(parseTypeName(q4), LAMBDA q5, t :
                 parsed(q5, ArrayType(dims, t)))))))

\* A comma between the names of a group must be followed by a name.
RECURSIVE groupNames(_, _)
groupNames(p, ns) ==
  LET q == skipNewlines(advance(p)) IN
  IF peek(p) # "," THEN parsed(p, ns)
  ELSE Bind(parseIdentifier(q), LAMBDA q2, n : groupNames(q2, Append(ns, n)))

\* [BYVAL | BYREF] a, b : T; without a mode, that of the group before.
parseParameterGroup(p, sticky) ==
  LET start    == skipNewlines(p)
      explicit == check(start, { "BYVAL", "BYREF" })
      mode     == IF explicit THEN peek(start) ELSE sticky
      q        == IF explicit THEN skipNewlines(advance(start)) ELSE start
      first    == parseIdentifier(q)
  IN Bind(IF explicit THEN OrError(first, "E_PARSE") ELSE first, LAMBDA q2, n :
       Bind(groupNames(q2, << n >>), LAMBDA q3, ns :
         Need(skipNewlines(q3), ":", "E_PARSE", LAMBDA q4 :
           Bind(parseTypeReference(q4), LAMBDA q5, t :
             parsed(q5, [ mode |-> mode,
                          params |-> [ i \in DOMAIN ns |-> Parameter(ns[i], t, mode) ]
                        ])))))

\* The parameters after the opening parenthesis or a comma, and those before.
RECURSIVE groupsFrom(_, _, _)
groupsFrom(p, ps, sticky) ==
  Bind(parseParameterGroup(p, sticky), LAMBDA q, group :
    IF peek(q) # "," THEN parsed(q, ps \o group.params)
    ELSE OrElse(groupsFrom(advance(q), ps \o group.params, group.mode),
                ps \o group.params))

closedParameters(r) ==
  IF r.ok THEN parsed(closed(skipNewlines(r.p), ")", "E_PARSE"), r.v)
  ELSE parsed(over(r.p, ")"), << >>)

\* parseParameterListOptional: what is missing is reported, the routine stays.
parseParameters(p) ==
  LET q == skipNewlines(advance(p)) IN
  CASE peek(p) # "(" -> parsed(p, << >>)
    [] peek(p) = "(" /\ peek(q) = ")" -> parsed(advance(q), << >>)
    [] OTHER -> closedParameters(groupsFrom(q, << >>, "BYVAL"))
=============================================================================
