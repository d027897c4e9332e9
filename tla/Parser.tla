------------------------------- MODULE Parser -------------------------------
(***************************************************************************)
(* Tokens to statements (language-core/src/parser/parser.ts): recursive    *)
(* descent, and the recovery after an error.  DO, the colon of OTHERWISE   *)
(* and the variable after NEXT are layout.                                 *)
(***************************************************************************)
EXTENDS ExpressionParser

CONSTANT maxBlockNesting   \* DEFAULT_MAX_BLOCK_NESTING

ASSUME NestingAssumption == maxBlockNesting \in Nat \ {0}

UnexpectedStructuralKeyword ==
  { "THEN", "ELSE", "ENDIF", "DO", "ENDWHILE", "UNTIL", "NEXT", "OTHERWISE",
    "ENDCASE", "ENDPROCEDURE", "ENDFUNCTION", "ENDTYPE", "ENDCLASS", "RETURNS" }
StatementEnd ==
  { "Eof", "Newline", "ELSE", "ENDIF", "ENDWHILE", "UNTIL", "NEXT", "ENDCASE",
    "OTHERWISE", "ENDPROCEDURE", "ENDFUNCTION" }
NoLabel ==
  { "OTHERWISE", "ENDCASE", "Eof", "INPUT", "OUTPUT", "IF", "CASE", "WHILE",
    "REPEAT", "FOR", "DECLARE", "CONSTANT", "CALL", "RETURN", "PROCEDURE",
    "FUNCTION", "OPENFILE", "READFILE", "WRITEFILE", "CLOSEFILE" }
BlockStart == { "IF", "WHILE", "REPEAT", "FOR", "CASE", "PROCEDURE", "FUNCTION" }
BlockEnd   == { "ENDIF", "ENDWHILE", "UNTIL", "NEXT", "ENDCASE", "ENDPROCEDURE",
                "ENDFUNCTION" }

\* Statements hold blocks: everything below calls itself through these two.
RECURSIVE parseBlock(_, _), blockFrom(_, _, _)

(***************************************************************************)
(* Blocks.                                                                 *)
(***************************************************************************)
\* Mutant: what follows a statement on its line is not looked at.
expectAnything(p) == synchronizeToNewline(p)

expectStatementEnd(p) ==
  IF check(p, StatementEnd) THEN p
  ELSE synchronizeToNewline(pushError(p, "E_STMT_END"))

\* Would an expression [TO expression] and a colon parse here?
isBeforeColon(e) == e.ok /\ peek(e.p) = ":"
isCaseLabel(low) ==
  low.ok /\ IF peek(low.p) = "TO" THEN isBeforeColon(parseExpression(advance(low.p)))
             ELSE isBeforeColon(low)
looksLikeCaseLabel(p) == ~check(p, NoLabel) /\ isCaseLabel(parseExpression(p))

\* A block stops at the kinds, or at the "label" of the next CASE arm.
stops(p, stop) ==
  check(p, stop) \/ ("label" \in stop /\ looksLikeCaseLabel(p))

\* Mutant: a closer of an inner block ends the skipping.
skipToAnyEnd(p, stop, inner) == skipTo(p, BlockEnd)

\* Beyond the limit: past the pairs of openers and closers, to the block's end.
RECURSIVE skipBlock(_, _, _)
skipBlock(p, stop, inner) ==
  IF isAtEnd(p) \/ (inner = 0 /\ (stops(p, stop) \/ check(p, BlockEnd))) THEN p
  ELSE skipBlock(advance(p), stop,
                 CASE check(p, BlockStart) -> inner + 1
                   [] check(p, BlockEnd)   -> inner - 1
                   [] OTHER -> inner)

parseBlock(p, stop) ==
  IF p.nesting >= maxBlockNesting
  THEN parsed(skipBlock(pushError(p, "P_NESTING_TOO_DEEP"), stop, 0), << >>)
  ELSE Bind(blockFrom(skipNewlines([ p EXCEPT !.nesting = @ + 1 ]), stop, << >>),
            LAMBDA q, body : parsed([ q EXCEPT !.nesting = p.nesting ], body))

\* A block and the keyword that must end it.
parseClosed(p, end) ==
  Bind(parseBlock(skipNewlines(p), { end }), LAMBDA q, body :
    Need(q, end, "E_PARSE", LAMBDA q2 : parsed(q2, body)))

(***************************************************************************)
(* Routines, classes and types.                                            *)
(***************************************************************************)
\* Only at program level; otherwise the keyword is reported and skipped.
AtProgramLevel(p, code, K(_)) ==
  IF p.context = "program" THEN K(advance(p))
  ELSE noParse(advance(pushError(p, code)))

\* The body in a context of its own, up to its end.
parseBody(p, context, end) ==
  Bind(parseBlock(skipNewlines([ p EXCEPT !.context = context ]), { end }),
       LAMBDA q, body :
         Need([ q EXCEPT !.context = p.context ], end, "E_PARSE", LAMBDA q2 :
           parsed(q2, body)))

\* Name, parameters, RETURNS and body after PROCEDURE or FUNCTION; a method
\* may be called NEW or SET.
parseRoutine(p, isFunction, name) ==
  Bind(name, LAMBDA q, n :
    Bind(parseParameters(q), LAMBDA q2, ps :
      IF ~isFunction
      THEN Bind(parseBody(q2, "procedure", "ENDPROCEDURE"), LAMBDA q3, body :
             parsed(q3, ProcedureDeclaration(n, ps, body)))
      ELSE Need(q2, "RETURNS", "E_PARSE", LAMBDA q3 :
             Bind(parseTypeName(q3), LAMBDA q4, t :
               Bind(parseBody(q4, "function", "ENDFUNCTION"), LAMBDA q5, body :
                 parsed(q5, FunctionDeclaration(n, ps, t, body)))))))

parseDeclare(p) ==
  Bind(parseNames(p), LAMBDA q, ns :
    Need(q, ":", "E_PARSE", LAMBDA q2 :
      Bind(parseTypeReference(q2), LAMBDA q3, t :
        parsed(q3, DeclareStatement(ns, t)))))

\* The keyword is reported and skipped.
skipped(p, code) == noParse(advance(pushError(p, code)))

classMember(p, vis) ==
  CASE check(p, { "PROCEDURE", "FUNCTION" }) ->
         Bind(parseRoutine(p, peek(p) = "FUNCTION", parseMethodName(advance(p))),
              LAMBDA q, routine : parsed(q, ClassMethod(vis, routine)))
    [] check(p, { "DECLARE", "Identifier" }) ->
         Bind(parseDeclare(over(p, "DECLARE")), LAMBDA q, d :
           parsed(q, ClassProperty(vis, d.names, d.type)))
    [] peek(p) = "CLASS" -> skipped(p, "E_NESTED_CLASS")
    [] check(p, UnexpectedStructuralKeyword) -> skipped(p, "E_UNEXPECTED_KW")
    [] OTHER -> skipped(p, "E_CLASS_MEMBER")
parseClassMember(p) ==
  LET visible == check(p, { "PUBLIC", "PRIVATE" }) IN
  classMember(IF visible THEN advance(p) ELSE p, IF visible THEN peek(p) ELSE None)

\* Past a part that did not parse, if only by its first token.
Onward(r, start) ==
  IF ~r.ok /\ r.p.i = start THEN advance(r.p) ELSE r.p
\* The values so far, with that of r if it parsed.
With(vs, r) == IF r.ok THEN Append(vs, r.v) ELSE vs

RECURSIVE membersFrom(_, _), membersAfter(_, _, _)
membersFrom(p, ms) ==
  IF check(p, { "ENDCLASS", "Eof" }) THEN parsed(p, ms)
  ELSE membersAfter(parseClassMember(p), p.i, ms)
membersAfter(member, start, ms) ==
  membersFrom(skipNewlines(Onward(member, start)), With(ms, member))

parseInherits(p) ==
  IF peek(p) = "INHERITS" THEN parseIdentifier(advance(p)) ELSE parsed(p, None)

parseClassDeclaration(p) ==
  AtProgramLevel(p, "E_NESTED_CLASS", LAMBDA q :
    Bind(parseIdentifier(q), LAMBDA q2, n :
      Bind(parseInherits(q2), LAMBDA q3, inherits :
        Bind(membersFrom(skipNewlines([ q3 EXCEPT !.context = "class" ]), << >>),
             LAMBDA q4, ms :
               Need([ q4 EXCEPT !.context = p.context ], "ENDCLASS", "E_CLASS_END",
                    LAMBDA q5 : parsed(q5, ClassDeclaration(n, inherits, ms)))))))

fieldsOf(d) ==
  IF ~d.ok THEN << >>
  ELSE [ i \in DOMAIN d.v.names |-> [ name |-> d.v.names[i], type |-> d.v.type ] ]
RECURSIVE fieldsFrom(_, _), fieldsAfter(_, _)
fieldsFrom(p, fs) ==
  CASE check(p, { "ENDTYPE", "Eof" }) -> parsed(p, fs)
    [] peek(p) = "DECLARE" -> fieldsAfter(parseDeclare(advance(p)), fs)
    [] OTHER -> fieldsFrom(skipNewlines(advance(pushError(p, "E_TYPE_BODY"))), fs)
fieldsAfter(d, fs) == fieldsFrom(skipNewlines(d.p), fs \o fieldsOf(d))

\* The members up to the first that is no name.
RECURSIVE membersOfEnum(_, _)
membersOfEnum(p, ms) ==
  IF peek(p) # "," THEN parsed(p, ms)
  ELSE OrElse(Bind(parseIdentifier(advance(p)), LAMBDA q, m :
                membersOfEnum(q, Append(ms, m))), ms)

parseEnum(p, n) ==
  IF peek(p) = ")" THEN noParse(advance(pushError(p, "E_ENUM_EMPTY")))
  ELSE Bind(parseIdentifier(p), LAMBDA q, m :
         Bind(membersOfEnum(q, << m >>), LAMBDA q2, ms :
           parsed(closed(q2, ")", "E_ENUM_RPAREN"), EnumTypeDeclaration(n, ms))))

parseEqualsTypeForm(p, n) ==
  CASE peek(p) = "(" -> parseEnum(advance(p), n)
    [] peek(p) = "^" ->
         Bind(parseSimpleTypeRef(advance(p), "E_POINTER_TARGET"), LAMBDA q, t :
           parsed(q, PointerTypeDeclaration(n, t)))
    [] peek(p) = "SET" ->
         Need(advance(p), "OF", "E_SET_OF", LAMBDA q :
           Bind(parseSimpleTypeRef(q, "E_SET_ELEMENT"), LAMBDA q2, t :
             parsed(q2, SetTypeDeclaration(n, t))))
    [] OTHER -> noParse(over(skipTo(pushError(p, "E_UNSUPPORTED_TYPE_FORM"),
                                    { "Newline", "ENDTYPE" }), "ENDTYPE"))

\* Without a name the fields are skipped, never taken for declarations.
typeNamed(name) ==
  IF ~name.ok THEN noParse(over(skipTo(name.p, { "ENDTYPE" }), "ENDTYPE"))
  ELSE IF peek(name.p) = "=" THEN parseEqualsTypeForm(advance(name.p), name.v)
  ELSE Bind(fieldsFrom(skipNewlines(name.p), << >>), LAMBDA q, fields :
         Need(q, "ENDTYPE", "E_TYPE_END", LAMBDA q2 :
           parsed(q2, TypeDeclaration(name.v, fields))))
parseTypeDeclaration(p) ==
  AtProgramLevel(p, "E_NESTED_TYPE", LAMBDA q : typeNamed(parseIdentifier(q)))

\* The values of a DEFINE, up to the first after a comma that does not parse.
RECURSIVE valuesFrom(_, _)
valuesFrom(first, vs) ==
  IF peek(first.p) # "," THEN parsed(first.p, With(vs, first))
  ELSE OrElse(Bind(parseExpression(advance(first.p)), LAMBDA q, e :
                valuesFrom(parsed(q, e), With(vs, first))), With(vs, first))

parseDefineValues(p) ==
  IF peek(p) = ")" THEN parsed(p, << >>) ELSE valuesFrom(parseExpression(p), << >>)

parseDefine(p) ==
  AtProgramLevel(p, "E_NESTED_DEFINE", LAMBDA q :
    Bind(parseIdentifier(q), LAMBDA q2, n :
      Need(q2, "(", "E_DEFINE_LPAREN", LAMBDA q3 :
        Bind(parseDefineValues(q3), LAMBDA q4, vs :
          Need(closed(q4, ")", "E_DEFINE_RPAREN"), ":", "E_DEFINE_COLON", LAMBDA q5 :
            Bind(parseIdentifier(q5), LAMBDA q6, t :
              parsed(q6, DefineStatement(n, vs, t))))))))

\* A literal, or a signed number.
constantValue(p) ==
  IF check(p, ScalarLiteral) THEN parseLiteral(p) ELSE fail(p, "E_CONSTANT_LITERAL")
signedValue(sign, p) ==
  IF check(p, { "Integer", "Real" })
  THEN Bind(parseLiteral(p), LAMBDA q, number : parsed(q, UnaryExpression(sign, number)))
  ELSE fail(p, "E_CONSTANT_LITERAL")
parseConstant(p) ==
  Bind(parseIdentifier(p), LAMBDA q, n :
    Need(q, "=", "E_CONSTANT_EQUALS", LAMBDA q2 :
      Bind(IF check(q2, { "+", "-" }) THEN signedValue(peek(q2), advance(q2))
           ELSE constantValue(q2), LAMBDA q3, e :
        parsed(q3, ConstantStatement(n, e)))))

(***************************************************************************)
(* Control flow.                                                           *)
(***************************************************************************)
\* The condition and block of an IF or ELSE IF whose keyword is behind.
parseClause(p) ==
  Bind(parseExpression(p), LAMBDA q, e :
    Need(skipNewlines(q), "THEN", "E_PARSE", LAMBDA q2 :
      Bind(parseBlock(skipNewlines(q2), { "ELSE", "ENDIF" }), LAMBDA q3, body :
        parsed(q3, << e, body >>))))

\* An ELSE IF that does not parse ends the chain.
isElseIf(p) == peek(p) = "ELSE" /\ peek(advance(p)) = "IF"
RECURSIVE elseIfsFrom(_, _)
elseIfsFrom(p, cs) ==
  IF ~isElseIf(p) THEN parsed(p, cs)
  ELSE OrElse(Bind(parseClause(advance(advance(p))), LAMBDA q, clause :
                elseIfsFrom(q, Append(cs, clause))), cs)

parseAlternate(p) ==
  IF peek(p) = "ELSE" /\ ~isElseIf(p)
  THEN parseBlock(skipNewlines(advance(p)), { "ENDIF" })
  ELSE parsed(p, << >>)

parseIf(p) ==
  Bind(parseClause(p), LAMBDA q, clause :
    Bind(elseIfsFrom(q, << clause >>), LAMBDA q2, clauses :
      Bind(parseAlternate(q2), LAMBDA q3, alternate :
        Need(q3, "ENDIF", "E_PARSE", LAMBDA q4 :
          parsed(q4, IfStatement(clauses, alternate))))))

parseWhile(p) ==
  Bind(parseExpression(p), LAMBDA q, e :
    Bind(parseClosed(over(skipNewlines(q), "DO"), "ENDWHILE"), LAMBDA q2, body :
      parsed(q2, WhileStatement(e, body))))

parseRepeat(p) ==
  Bind(parseClosed(p, "UNTIL"), LAMBDA q, body :
    Bind(parseExpression(q), LAMBDA q2, e : parsed(q2, RepeatStatement(body, e))))

\* A NEXT may name the loop's variable, and no other.
overNextVariable(p, v) ==
  IF peek(p) # "Identifier" THEN p
  ELSE IF lexeme(p) = v THEN advance(p)
  ELSE pushError(advance(p), "E_FOR_NEXT_MISMATCH")

parseStep(p) ==
  IF peek(p) # "STEP" THEN parsed(p, << >>)
  ELSE Bind(parseExpression(advance(p)), LAMBDA q, e : parsed(q, << e >>))

parseFor(p) ==
  LET v == lexeme(p) IN
  Need(p, "Identifier", "E_FOR_VAR", LAMBDA q :
    Need(q, "←", "E_FOR_ASSIGN", LAMBDA q2 :
      Bind(parseExpression(q2), LAMBDA q3, from :
        Need(q3, "TO", "E_FOR_TO", LAMBDA q4 :
          Bind(parseExpression(q4), LAMBDA q5, to :
            Bind(parseStep(q5), LAMBDA q6, step :
              Bind(parseClosed(q6, "NEXT"), LAMBDA q7, body :
                parsed(overNextVariable(q7, v),
                       ForStatement(v, from, to, step, body)))))))))

parseCaseLabel(p) ==
  Bind(parseExpression(p), LAMBDA q, low :
    IF peek(q) # "TO" THEN parsed(q, << low >>)
    ELSE Bind(OrError(parseExpression(advance(q)), "E_CASE_RANGE"), LAMBDA q2, high :
           parsed(q2, << low, high >>)))

\* Two labels count as one when they are written alike; 1.0 is written 1.
caseLabelKey(label) ==
  [ i \in DOMAIN label |->
      IF label[i].kind = "Literal" /\ IsSuffix(<< ".", "0" >>, label[i].value)
      THEN Literal("INTEGER", SubSeq(label[i].value, 1, Len(label[i].value) - 2))
      ELSE label[i] ]
seen(arms, label) ==
  \E i \in DOMAIN arms : caseLabelKey(arms[i].label) = caseLabelKey(label)

RECURSIVE armsFrom(_, _), armsAfter(_, _)
armsFrom(p, arms) ==
  IF check(p, { "OTHERWISE", "ENDCASE", "Eof" }) THEN parsed(p, arms)
  ELSE armsAfter(parseCaseLabel(p), arms)
armsAfter(label, arms) ==
  IF ~label.ok
  THEN armsFrom(skipNewlines(synchronizeToNewline(pushError(label.p, "E_CASE_LABEL"))),
                arms)
  ELSE Need(label.p, ":", "E_CASE_COLON", LAMBDA q :
         Bind(parseBlock(skipNewlines(IF seen(arms, label.v)
                                      THEN pushError(q, "E_CASE_DUP") ELSE q),
                         { "OTHERWISE", "ENDCASE", "label" }), LAMBDA q2, body :
           armsFrom(skipNewlines(q2),
                    Append(arms, [ label |-> label.v, body |-> body ]))))

parseOtherwise(p) ==
  IF peek(p) = "OTHERWISE"
  THEN parseBlock(skipNewlines(over(advance(p), ":")), { "ENDCASE" })
  ELSE parsed(p, << >>)

parseCase(p) ==
  Need(p, "OF", "E_CASE_OF", LAMBDA q :
    Bind(OrError(parseExpression(q), "E_CASE_DISC"), LAMBDA q2, disc :
      Bind(armsFrom(skipNewlines(q2), << >>), LAMBDA q3, arms :
        Bind(parseOtherwise(q3), LAMBDA q4, otherwise :
          Need(q4, "ENDCASE", "E_CASE_END", LAMBDA q5 :
            parsed(q5, CaseStatement(disc, arms, otherwise)))))))

(***************************************************************************)
(* Simple statements.                                                      *)
(***************************************************************************)
RECURSIVE moreOutputs(_, _)
moreOutputs(p, es) ==
  LET q == advance(p) IN
  IF peek(p) # "," THEN parsed(p, OutputStatement(es))
  ELSE IF check(q, { "Newline", "Eof" }) THEN fail(q, "E_TRAILING_COMMA")
  ELSE Bind(OrError(parseExpression(q), "E_PARSE"), LAMBDA q2, e :
         moreOutputs(q2, Append(es, e)))
parseOutput(p) ==
  Bind(parseExpression(p), LAMBDA q, e : moreOutputs(q, << e >>))

parseReturn(p) ==
  Bind(parseExpression(CASE p.context = "procedure" -> pushError(p, "E_RETURN_IN_PROCEDURE")
                         [] p.context = "program" -> pushError(p, "E_RETURN_OUTSIDE")
                         [] OTHER -> p), LAMBDA q, e : parsed(q, ReturnStatement(e)))

parseArguments(p) ==
  IF peek(p) = "(" THEN parseArgumentList(advance(p)) ELSE parsed(p, << >>)
parseCallStatement(p) ==
  Bind(parseIdentifier(p), LAMBDA q, n :
    IF peek(q) # "."
    THEN Bind(parseArguments(q), LAMBDA q2, args : parsed(q2, CallStatement(n, args)))
    ELSE Bind(parseIdentifier(advance(q)), LAMBDA q2, m :
           Bind(parseArguments(q2), LAMBDA q3, args :
             parsed(q3, CallMethodStatement(Identifier(n), m, args)))))

parseOpenFile(p) ==
  Bind(parseExpression(p), LAMBDA q, f :
    Need(q, "FOR", "E_PARSE", LAMBDA q2 :
      IF check(q2, FileModes) THEN parsed(advance(q2), OpenFileStatement(f, peek(q2)))
      ELSE fail(q2, "E_PARSE")))

\* A file, a comma, and a place to read to or a value.
parseFileStatement(p, op) ==
  Bind(parseExpression(p), LAMBDA q, f :
    Need(q, ",", "E_PARSE", LAMBDA q2 :
      Bind(IF op \in { "READFILE", "GETRECORD" } THEN parseAssignTarget(q2)
           ELSE parseExpression(q2), LAMBDA q3, e :
        parsed(q3, FileStatement(op, f, e)))))

parseAssignmentOrExpressionStatement(p) ==
  Bind(parsePrimary(p), LAMBDA q, base :
    CASE peek(q) = "←" /\ IsTarget(base) ->
           Bind(parseExpression(advance(q)), LAMBDA q2, e :
             parsed(q2, AssignmentStatement(base, e)))
      [] peek(q) = "←" /\ ~IsTarget(base) -> fail(advance(q), "E_ASSIGN_TARGET")
      [] peek(q) # "←" /\ base.kind \in { "MethodCall", "Call" } ->
           parsed(q, ExpressionStatement(base))
      [] OTHER -> fail(q, "E_PARSE"))

\* A statement keyword in an identifier's spelling: output <- 1.
IsAssignedOutput(p) ==
  IsIdentifier(p) /\ peek(p) = "OUTPUT" /\ peek(skipNewlines(advance(p))) = "←"

parseStatement(p) ==
  LET kind == peek(p)
      q    == advance(p)
  IN CASE kind = "INPUT" -> Bind(parseAssignTarget(q), LAMBDA q2, t :
                              parsed(q2, InputStatement(t)))
       [] kind = "OUTPUT" -> IF IsAssignedOutput(p)
                             THEN parseAssignmentOrExpressionStatement(p)
                             ELSE parseOutput(q)
       [] kind = "IF"       -> parseIf(q)
       [] kind = "CASE"     -> parseCase(q)
       [] kind = "WHILE"    -> parseWhile(q)
       [] kind = "REPEAT"   -> parseRepeat(q)
       [] kind = "FOR"      -> parseFor(q)
       [] kind = "DECLARE"  -> parseDeclare(q)
       [] kind = "TYPE"     -> parseTypeDeclaration(p)
       [] kind = "DEFINE"   -> parseDefine(p)
       [] kind = "CONSTANT" -> parseConstant(q)
       [] kind = "CALL"     -> parseCallStatement(q)
       [] kind = "RETURN"   -> parseReturn(q)
       [] kind \in { "PROCEDURE", "FUNCTION" } ->
            AtProgramLevel(p, "E_NESTED_ROUTINE", LAMBDA q2 :
              parseRoutine(q2, kind = "FUNCTION", parseIdentifier(q2)))
       [] kind = "OPENFILE"  -> parseOpenFile(q)
       [] kind = "CLOSEFILE" -> Bind(parseExpression(q), LAMBDA q2, f :
                                  parsed(q2, CloseFileStatement(f)))
       [] kind \in { "READFILE", "WRITEFILE", "SEEK", "GETRECORD", "PUTRECORD" } ->
            parseFileStatement(q, kind)
       [] kind = "CLASS" -> parseClassDeclaration(p)
       [] kind \in { "Identifier", "SUPER" } -> parseAssignmentOrExpressionStatement(p)
       [] kind \in { "PUBLIC", "PRIVATE" } -> skipped(p, "E_VISIBILITY_OUTSIDE_CLASS")
       [] kind \in UnexpectedStructuralKeyword -> skipped(p, "E_UNEXPECTED_KW")
       [] kind = "TO" -> skipped(p, "E_UNSUPPORTED")
       [] OTHER -> skipped(p, "E_PARSE")

blockFrom(p, stop, body) ==
  LET on(s) == CASE s.ok -> expectStatementEnd(s.p)
                 [] ~s.ok /\ s.p.i = p.i -> advance(s.p)
                 [] OTHER -> synchronizeToNewline(s.p)
      after(s) == blockFrom(skipNewlines(on(s)), stop, With(body, s))
  IN IF isAtEnd(p) \/ stops(p, stop) THEN parsed(p, body) ELSE after(parseStatement(p))

\* parse.ts: lex, then parse; ok when neither found an error.
start(tokens, errors) ==
  [ tokens |-> tokens, i |-> 1, errors |-> errors, context |-> "program", nesting |-> 0 ]
treeOf(r) == [ ast |-> r.v, errors |-> r.p.errors, ok |-> r.p.errors = << >> ]
parseTokens(l) ==
  treeOf(blockFrom(skipNewlines(start(l.tokens, l.errors)), {}, << >>))
parse(text) == parseTokens(lex(text))
=============================================================================
