------------------------------- MODULE Printer -------------------------------
(***************************************************************************)
(* A syntax tree back to pseudocode (translator/src/cambridge/print.ts),   *)
(* as a sequence of the lexer's characters.  Left out: indentation,        *)
(* comments and the choice of the arrow.                                   *)
(***************************************************************************)
EXTENDS SyntaxTree, SequencesExt

BINARY_PRECEDENCE ==
  [ op \in { "OR", "AND", "=", "<>", "<", "<=", ">", ">=", "+", "-", "&", "*", "/",
             "DIV", "MOD" } |->
      CASE op = "OR" -> 1 [] op = "AND" -> 2
        [] op \in { "=", "<>", "<", "<=", ">", ">=" } -> 3
        [] op \in { "+", "-", "&" } -> 4
        [] OTHER -> 5 ]
UNARY_PRECEDENCE   == 6
POSTFIX_PRECEDENCE == 100

\* The symbols of two characters, as the lexer meets them.
operator(op) ==
  CASE op = "<>" -> << "<", ">" >> [] op = "<=" -> << "<", "=" >>
    [] op = ">=" -> << ">", "=" >> [] OTHER -> << op >>

Join(texts, separator) ==
  IF texts = << >> THEN << >>
  ELSE FoldLeft(LAMBDA acc, t : acc \o separator \o t, Head(texts), Tail(texts))
Comma == << ",", " " >>
All(xs, Shown(_)) == [ i \in DOMAIN xs |-> Shown(xs[i]) ]
Names(ns)    == Join(All(ns, LAMBDA n : << n >>), Comma)
line(pieces) == Join(pieces, << " " >>) \o << "\n" >>

escape(c, quote) ==
  CASE c = "\n" -> << "\\", "n" >> [] c = "\t" -> << "\\", "t" >>
    [] c \in { "\\", quote } -> << "\\", c >> [] OTHER -> << c >>
quotedText(cs, quote) ==
  << quote >> \o FlattenSeq(All(cs, LAMBDA c : escape(c, quote))) \o << quote >>

\* padStart: a date has two digits for the day and the month.
padded(date) ==
  LET slash == CHOOSE i \in DOMAIN date : date[i] = "/" IN
  IF Len(date) < 2 THEN date
  ELSE LET first == SubSeq(date, 1, slash - 1)
           rest  == SubSeq(date, slash + 1, Len(date))
           month == SubSeq(rest, 1, (CHOOSE i \in DOMAIN rest : rest[i] = "/") - 1)
           two(ds) == IF Len(ds) = 1 THEN << "0" >> \o ds ELSE ds
       IN two(first) \o << "/" >> \o two(month)
          \o SubSeq(rest, Len(month) + 1, Len(rest))

printLiteral(e) ==
  CASE e.type = "STRING" -> quotedText(e.value, "\"")
    [] e.type = "CHAR"   -> quotedText(e.value, "'")
    [] e.type = "DATE"   -> padded(e.value)
    [] OTHER -> e.value

RECURSIVE printExpr(_, _)
printArguments(es) == << "(" >> \o Join(All(es, LAMBDA a : printExpr(a, 0)), Comma)
                      \o << ")" >>

\* Mutant: equal precedence needs no parentheses on the right.
printBinaryFlat(e, parentPrec) ==
  LET prec == BINARY_PRECEDENCE[e.op]
      core == printExpr(e.left, prec) \o << " " >> \o operator(e.op) \o << " " >>
              \o printExpr(e.right, prec)
  IN IF prec < parentPrec THEN << "(" >> \o core \o << ")" >> ELSE core

printBinary(e, parentPrec) ==
  LET prec == BINARY_PRECEDENCE[e.op]
      core == printExpr(e.left, prec) \o << " " >> \o operator(e.op) \o << " " >>
              \o printExpr(e.right, prec + 1)
  IN IF prec < parentPrec THEN << "(" >> \o core \o << ")" >> ELSE core

printUnary(e, parentPrec) ==
  LET core == << e.op >> \o (IF e.op = "NOT" THEN << " " >> ELSE << >>)
              \o printExpr(e.argument, UNARY_PRECEDENCE)
  IN IF UNARY_PRECEDENCE < parentPrec THEN << "(" >> \o core \o << ")" >> ELSE core

\* `self`, as Python spells it, is written SELF.
printMember(e) ==
  (IF e.object = Identifier("self") THEN << "SELF" >>
   ELSE printExpr(e.object, POSTFIX_PRECEDENCE)) \o << ".", e.property >>

printExpr(e, parentPrec) ==
  CASE e.kind = "Literal"    -> printLiteral(e)
    [] e.kind = "Identifier" -> << e.name >>
    [] e.kind = "Index"  -> printExpr(e.array, POSTFIX_PRECEDENCE) \o << "[" >>
                            \o Join(All(e.indices, LAMBDA i : printExpr(i, 0)), Comma)
                            \o << "]" >>
    [] e.kind = "Member" -> printMember(e)
    [] e.kind = "AddressOf" -> << "^" >> \o printExpr(e.target, 0)
    [] e.kind = "Deref"  -> printExpr(e.pointer, POSTFIX_PRECEDENCE) \o << "^" >>
    [] e.kind = "Call"   -> << e.callee >> \o printArguments(e.args)
    [] e.kind = "Eof"    -> << "EOF", "(" >> \o printExpr(e.file, 0) \o << ")" >>
    [] e.kind = "Grouping" -> << "(" >> \o printExpr(e.expression, 0) \o << ")" >>
    [] e.kind = "ArrayLiteral" ->
         << "[" >> \o Join(All(e.elements, LAMBDA x : printExpr(x, 0)), Comma) \o << "]" >>
    [] e.kind = "Unary"  -> printUnary(e, parentPrec)
    [] e.kind = "Binary" -> printBinary(e, parentPrec)
    [] e.kind = "New"    -> << "NEW", " ", e.class >> \o printArguments(e.args)
    [] e.kind = "MethodCall" -> printExpr(e.object, POSTFIX_PRECEDENCE)
                                \o << ".", e.method >> \o printArguments(e.args)
    [] e.kind = "Super"  -> << "SUPER" >>

printTypeRef(t) ==
  IF t.kind # "ArrayType" THEN << t.name >>
  ELSE << "ARRAY", "[" >>
       \o Join(All(t.dims, LAMBDA d : printExpr(d[1], 0) \o << ":" >> \o printExpr(d[2], 0)),
               Comma)
       \o << "]", " ", "OF", " ", t.element.name >>

\* The mode of a parameter is written where it differs from the one before.
modePrefix(ps, i) ==
  LET before == IF i = 1 THEN "BYVAL" ELSE ps[i - 1].mode IN
  IF ps[i].mode = before THEN << >> ELSE << ps[i].mode, " " >>

printParamList(ps) ==
  << "(" >> \o Join([ i \in DOMAIN ps |->
                        modePrefix(ps, i) \o << ps[i].name, " ", ":", " " >>
                        \o printTypeRef(ps[i].type) ], Comma) \o << ")" >>

RECURSIVE printStatement(_)
printBlock(ss) == FlattenSeq(All(ss, printStatement))

printRoutine(s) ==
  IF s.kind = "Procedure"
  THEN << "PROCEDURE", " ", s.name >> \o printParamList(s.params) \o << "\n" >>
       \o printBlock(s.body) \o line(<< << "ENDPROCEDURE" >> >>)
  ELSE << "FUNCTION", " ", s.name >> \o printParamList(s.params)
       \o << " ", "RETURNS", " " >> \o printTypeRef(s.returns) \o << "\n" >>
       \o printBlock(s.body) \o line(<< << "ENDFUNCTION" >> >>)

\* Lowering gives a member without a visibility the default.
printClassMember(m) ==
  << IF m.visibility = None THEN "PUBLIC" ELSE m.visibility, " " >> \o
  (IF m.kind = "Method" THEN printRoutine(m.routine)
   ELSE line(<< Names(m.names), << ":" >>, printTypeRef(m.type) >>))

printIf(s) ==
  LET clause(i) ==
        line(<< IF i = 1 THEN << "IF" >> ELSE << "ELSE", " ", "IF" >>,
                printExpr(s.clauses[i][1], 0), << "THEN" >> >>)
        \o printBlock(s.clauses[i][2])
  IN FlattenSeq([ i \in DOMAIN s.clauses |-> clause(i) ])
     \o (IF s.alternate = << >> THEN << >>
         ELSE line(<< << "ELSE" >> >>) \o printBlock(s.alternate))
     \o line(<< << "ENDIF" >> >>)

printCase(s) ==
  LET label(l) == Join(All(l, LAMBDA e : printExpr(e, 0)), << " ", "TO", " " >>)
      arm(a)   == line(<< label(a.label), << ":" >> >>) \o printBlock(a.body)
  IN line(<< << "CASE", " ", "OF" >>, printExpr(s.discriminant, 0) >>)
     \o FlattenSeq(All(s.arms, arm))
     \o (IF s.otherwise = << >> THEN << >>
         ELSE line(<< << "OTHERWISE" >> >>) \o printBlock(s.otherwise))
     \o line(<< << "ENDCASE" >> >>)

printFor(s) ==
  line(<< << "FOR", " ", s.variable, " ", "←" >>, printExpr(s.start, 0), << "TO" >>,
          printExpr(s.end, 0) >>
       \o IF s.step = << >> THEN << >>
          ELSE << << "STEP" >>, printExpr(s.step[1], 0) >>)
  \o printBlock(s.body) \o line(<< << "NEXT", " ", s.variable >> >>)

printTypeDeclaration(s) ==
  CASE s.kind = "Type" ->
         line(<< << "TYPE", " ", s.name >> >>)
         \o FlattenSeq(All(s.fields, LAMBDA f :
              line(<< << "DECLARE", " ", f.name, " ", ":" >>, printTypeRef(f.type) >>)))
         \o line(<< << "ENDTYPE" >> >>)
    [] s.kind = "Enum" ->
         line(<< << "TYPE", " ", s.name, " ", "=", " ", "(" >> \o Names(s.members)
                 \o << ")" >> >>)
    [] s.kind = "Pointer" ->
         line(<< << "TYPE", " ", s.name, " ", "=", " ", "^" >> \o printTypeRef(s.target) >>)
    [] s.kind = "Set" ->
         line(<< << "TYPE", " ", s.name, " ", "=", " ", "SET", " ", "OF" >>,
                 printTypeRef(s.element) >>)

\* A CALL of a method is lowered to the method call it makes.
printStatement(s) ==
  LET e(x) == printExpr(x, 0) IN
  CASE s.kind = "Assign" -> line(<< e(s.target), << "←" >>, e(s.value) >>)
    [] s.kind = "Input"  -> line(<< << "INPUT" >>, e(s.target) >>)
    [] s.kind = "Output" -> line(<< << "OUTPUT" >>, Join(All(s.expressions, e), Comma) >>)
    [] s.kind = "If"     -> printIf(s)
    [] s.kind = "Case"   -> printCase(s)
    [] s.kind = "While"  -> line(<< << "WHILE" >>, e(s.condition), << "DO" >> >>)
                            \o printBlock(s.body) \o line(<< << "ENDWHILE" >> >>)
    [] s.kind = "Repeat" -> line(<< << "REPEAT" >> >>) \o printBlock(s.body)
                            \o line(<< << "UNTIL" >>, e(s.condition) >>)
    [] s.kind = "For"    -> printFor(s)
    [] s.kind = "Declare" -> line(<< << "DECLARE" >>, Names(s.names), << ":" >>,
                                     printTypeRef(s.type) >>)
    [] s.kind = "Constant" -> line(<< << "CONSTANT", " ", s.name, " ", "=" >>, e(s.value) >>)
    [] IsRoutine(s) -> printRoutine(s)
    [] IsTypeDeclaration(s) -> printTypeDeclaration(s)
    [] s.kind = "Define" ->
         line(<< << "DEFINE", " ", s.name, " " >> \o printArguments(s.values) \o << ":" >>,
                 << s.type >> >>)
    [] s.kind = "CallStmt" ->
         line(<< << "CALL", " ", s.callee >> \o printArguments(s.args) >>)
    [] s.kind = "CallMethod" ->
         line(<< e(MethodCallExpression(s.object, s.method, s.args)) >>)
    [] s.kind = "ExprStmt" -> line(<< e(s.expression) >>)
    [] s.kind = "Return"   -> line(<< << "RETURN" >>, e(s.value) >>)
    [] s.kind = "OpenFile" -> line(<< << "OPENFILE" >>, e(s.file), << "FOR", " ", s.mode >> >>)
    [] s.kind = "CloseFile" -> line(<< << "CLOSEFILE" >>, e(s.file) >>)
    [] s.kind \in { "READFILE", "WRITEFILE", "SEEK", "GETRECORD", "PUTRECORD" } ->
         line(<< << s.kind >>, e(s.file) \o << "," >>, e(s.operand) >>)
    [] s.kind = "Class" ->
         line(<< << "CLASS", " ", s.name >>
                 \o IF s.inherits = None THEN << >>
                    ELSE << " ", "INHERITS", " ", s.inherits >> >>)
         \o FlattenSeq(All(s.members, printClassMember)) \o line(<< << "ENDCLASS" >> >>)

print(ast) == printBlock(ast)
=============================================================================
