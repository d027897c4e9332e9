------------------------------- MODULE Checker -------------------------------
(***************************************************************************)
(* The semantic check of a program (checker/src/check.ts).  It walks the   *)
(* statements in their textual order: a name is known from its declaration *)
(* on, routine signatures and types from the start.                        *)
(*                                                                         *)
(* An expression gives a type and the diagnostics met on the way; a        *)
(* statement maps the context to the next one.  The context holds          *)
(*   table    the type table            locals  the scope of the routine   *)
(*   globals  the global scope                  being checked              *)
(*   routine  "none", "procedure" or    returns its RETURNS type           *)
(*            "function"                class   the class of the method    *)
(*   nesting  the compound statements   diags   what was reported, uncut   *)
(*   scope    the name of the scope     symbols what was defined, in order *)
(***************************************************************************)
EXTENDS TypeSystem

CONSTANTS
  maxDiagnostics,       \* CheckOptions.maxDiagnostics
  maxStatementNesting   \* CheckOptions.maxStatementNesting

ASSUME CheckOptionsAssumption ==
  maxDiagnostics \in Nat \ {0} /\ maxStatementNesting \in Nat \ {0}

symbol(kind, type) == [ kind |-> kind, type |-> type ]
\* SymbolInfo: a symbol with its name and its container.
symbolInfo(n, s, container) ==
  [ name |-> n, kind |-> s.kind, type |-> s.type, container |-> container ]
NoScope == [ n \in {} |-> symbol("none", errorType) ]
InRoutine(c) == c.routine # None

\* Scope.lookup: the innermost scope first.
lookup(c, n) ==
  CASE n \in DOMAIN c.locals  -> c.locals[n]
    [] n \in DOMAIN c.globals -> c.globals[n]
    [] OTHER -> symbol(None, errorType)

report(c, diags) == [ c EXCEPT !.diags = @ \o diags ]

dupCode(prev, next) ==
  IF "procedure" \in { prev, next } THEN "C_DUP_PROCEDURE"
  ELSE IF "function" \in { prev, next } THEN "C_DUP_FUNCTION"
  ELSE IF "constant" \in { prev, next } THEN "C_DUP_CONSTANT"
  ELSE "C_DUP_VARIABLE"

\* defineSymbol: a variable or a constant may shadow a builtin.
defineSymbol(c, n, s) ==
  LET scope == IF InRoutine(c) THEN c.locals ELSE c.globals
      shadows == /\ n \in DOMAIN scope /\ scope[n].kind = "function"
                 /\ lookupBuiltin(n) /\ s.kind \in { "variable", "constant" }
  IN IF n \in DOMAIN scope /\ ~shadows
     THEN report(c, error(dupCode(scope[n].kind, s.kind)))
     ELSE LET c1 == [ c EXCEPT !.symbols = Append(@, symbolInfo(n, s, c.scope)) ]
          IN IF InRoutine(c)
             THEN [ c1 EXCEPT !.locals  = (n :> s) @@ @ ]
             ELSE [ c1 EXCEPT !.globals = (n :> s) @@ @ ]

(***************************************************************************)
(* Expressions.                                                            *)
(***************************************************************************)
typed(t, diags) == [ type |-> t, diags |-> diags ]
failed(diags)   == typed(errorType, diags)

\* The two recursions of the checker, over expressions and over statements,
\* are one: checkNode goes by the kind of the node.
RECURSIVE checkNode(_, _)
inferExpr(c, e) == checkNode(c, e)
inferAll(c, es) == Each(es, LAMBDA e : inferExpr(c, e).diags)

\* A wrong operand is reported unless its own error was.
mustBe(r, Holds(_), code) ==
  When(~isError(r.type) /\ ~Holds(r.type), error(code))

\* resolveImplicitClassField: the field of SELF a bare name may mean; kind
\* None when there is none, the error type when it is a parent's PRIVATE.
ownedField(c, owner, n, code) ==
  IF owner = None THEN failed(error(code))
  ELSE LET f == MemberOf(c.table, owner, "fields", n) IN
       IF isAccessible(f.visibility, owner, c.class)
       THEN typed(f.type, << >>) ELSE failed(error("C_PRIVATE_ACCESS"))

implicitOwner(c, n) ==
  IF c.class = None THEN None ELSE findClassFieldOwner(c.table, c.class, n)

\* A name no scope holds is a field of SELF or undeclared.
unboundName(c, n) == ownedField(c, implicitOwner(c, n), n, "C_UNDECL_IDENT")

inferIdentifier(c, n) ==
  LET s == lookup(c, n) IN
  CASE n = "SELF" /\ c.class # None -> failed(error("C_SELF_BARE"))
    [] s.kind = None -> unboundName(c, n)
    [] s.kind = "procedure" -> failed(error("C_PROC_AS_EXPR"))
    [] s.kind = "function" -> failed(error("C_FUNC_AS_VALUE"))
    [] s.kind \in { "type", "class" } -> failed(error("C_TYPE_AS_VALUE"))
    [] OTHER -> typed(s.type, << >>)

classField(c, cls, n) ==
  ownedField(c, findClassFieldOwner(c.table, cls, n), n, "C_UNKNOWN_FIELD")

recordField(c, rec, n) ==
  LET fs == c.table[rec].fields IN
  IF \E i \in DOMAIN fs : fs[i].name = n
  THEN typed(fs[CHOOSE i \in DOMAIN fs : fs[i].name = n].type, << >>)
  ELSE failed(error("C_UNKNOWN_FIELD"))

inferMemberAccess(c, e) ==
  IF e.object = Identifier("SELF")
  THEN IF c.class = None THEN failed(error("C_UNDECL_IDENT"))
       ELSE classField(c, c.class, e.property)
  ELSE LET o == inferExpr(c, e.object) IN
       CASE isError(o.type) -> o
         [] o.type.kind = "class" ->
              LET f == classField(c, o.type.name, e.property) IN
              typed(f.type, o.diags \o f.diags)
         [] o.type.kind = "record" ->
              LET f == recordField(c, o.type.name, e.property) IN
              typed(f.type, o.diags \o f.diags)
         [] OTHER -> failed(o.diags \o error("C_NOT_RECORD"))

\* An index expression, read or assigned.  A bare array name is looked up in
\* the scopes alone: a field of SELF is not found.
inferIndex(c, e) ==
  IF e.array.kind = "Identifier" /\ lookup(c, e.array.name).kind = None
  THEN failed(error("C_UNDECL_ARRAY") \o inferAll(c, e.indices))
  ELSE LET a == inferExpr(c, e.array) IN
       IF isError(a.type) \/ a.type.kind # "array"
       THEN failed(a.diags \o When(~isError(a.type), error("C_NOT_ARRAY"))
                   \o inferAll(c, e.indices))
       ELSE typed(a.type.element,
                  a.diags
                  \o When(Len(e.indices) # a.type.dimensions,
                          error("C_ARRAY_RANK"))
                  \o Each(e.indices, LAMBDA i :
                       LET r == inferExpr(c, i) IN
                       r.diags \o mustBe(r, isIndexType, "C_INDEX_TYPE")))

checkDeref(c, e) ==
  LET p == inferExpr(c, e.pointer) IN
  CASE isError(p.type) -> p
    [] p.type.kind # "pointer" -> failed(p.diags \o error("C_NOT_POINTER"))
    [] OTHER -> typed(targetOf(c.table, p.type), p.diags)

\* checkAssignableTarget
checkAssignableTarget(c, place) ==
  IF place.kind # "Identifier"
  THEN CASE place.kind = "Member" -> inferMemberAccess(c, place)
         [] place.kind = "Deref"  -> checkDeref(c, place)
         [] OTHER -> inferIndex(c, place)
  ELSE LET s == lookup(c, place.name) IN
       CASE s.kind = None -> unboundName(c, place.name)
         [] s.kind = "constant" -> failed(error("C_ASSIGN_TO_CONSTANT"))
         [] s.kind \in { "procedure", "function" } ->
              failed(error("C_ASSIGN_TO_ROUTINE"))
         [] s.kind \in { "type", "class" } -> failed(error("C_ASSIGN_TO_TYPE"))
         [] OTHER -> typed(s.type, << >>)

addressOf(t) ==
  IF isError(t.type) THEN t ELSE typed(addressOfType(t.type), t.diags)
checkAddressOf(c, place) == addressOf(checkAssignableTarget(c, place))

\* Mutant: a constant is as good a BYREF argument as a variable.
byRefOfAnything(c, arg) == << >>

\* checkByRefArgument: a BYREF argument names a location.
checkByRefArgument(c, arg) ==
  CASE arg.kind = "Identifier" ->
         LET s == lookup(c, arg.name) IN
         CASE s.kind = None ->
                IF implicitOwner(c, arg.name) = None THEN << >>
                ELSE unboundName(c, arg.name).diags
           [] s.kind = "constant" -> error("C_BYREF_CONSTANT")
           [] s.kind \in { "procedure", "function" } ->
                error("C_BYREF_TEMPORARY")
           [] OTHER -> << >>
    [] arg.kind \in { "Index", "Member" } -> << >>
    [] arg.kind = "Literal" -> error("C_BYREF_LITERAL")
    [] OTHER -> error("C_BYREF_TEMPORARY")

\* checkArgTypes: the arguments one by one, the surplus ones only inferred.
checkArgTypes(c, sig, args) ==
  When(Len(args) # Len(sig.params), error("C_ARG_COUNT"))
  \o FlattenSeq([ i \in DOMAIN args |->
       LET r == inferExpr(c, args[i]) IN
       r.diags \o
       (IF i > Len(sig.params) THEN << >>
        ELSE When(sig.paramModes[i] = "BYREF", checkByRefArgument(c, args[i]))
             \o When(~isAssignable(sig.params[i], r.type, c.table),
                     error("C_ARG_TYPE"))) ])

argAccepted(accept, t) ==
  t.kind = "scalar"
    /\ (t.name \in accept \/ ("REAL" \in accept /\ t.name = "INTEGER"))

checkBuiltinCall(c, f, args) ==
  LET spec == CORE_BUILTINS[f]
      rs   == [ i \in DOMAIN args |-> inferExpr(c, args[i]) ]
      same == Len(args) > 0 /\ isStringy(rs[1].type)
  IN typed(IF spec.returns = "same-as-arg0"
           THEN IF same THEN rs[1].type ELSE scalar("STRING")
           ELSE scalar(spec.returns),
           When(Len(args) # Len(spec.params), error("C_BUILTIN_ARG_COUNT"))
           \o FlattenSeq([ i \in DOMAIN args |-> rs[i].diags \o
                When(/\ i <= Len(spec.params) /\ ~isError(rs[i].type)
                     /\ ~argAccepted(spec.params[i], rs[i].type),
                     error("C_BUILTIN_ARG_TYPE")) ]))

checkCall(c, f, args, mode) ==
  LET s == lookup(c, f) IN
  CASE lookupBuiltin(f) -> checkBuiltinCall(c, f, args)
    [] ~lookupBuiltin(f) /\ s.kind = None ->
         failed(error(IF mode = "call-expr" THEN "C_UNDECL_FUNCTION"
                      ELSE "C_UNDECL_ROUTINE") \o inferAll(c, args))
    [] ~lookupBuiltin(f) /\ s.kind = "procedure" /\ mode = "call-expr" ->
         failed(error("C_PROC_AS_EXPR") \o inferAll(c, args))
    [] ~lookupBuiltin(f) /\ s.kind \notin { None, "procedure", "function" } ->
         failed(error("C_NOT_CALLABLE") \o inferAll(c, args))
    [] OTHER -> typed(s.type.returns, checkArgTypes(c, s.type, args))

\* The method found from cls on, PRIVATE checked against its declarer.
checkMethodOf(c, cls, m, args, mode) ==
  LET owner == findClassMethodOwner(c.table, cls, m) IN
  IF owner = None
  THEN failed(error("C_UNKNOWN_METHOD") \o inferAll(c, args))
  ELSE LET found == MemberOf(c.table, owner, "methods", m)
           procAsExpr == mode = "call-expr" /\ found.type.kind = "procedure"
       IN typed(found.type.returns,
                When(~isAccessible(found.visibility, owner, c.class),
                     error("C_PRIVATE_ACCESS"))
                \o checkArgTypes(c, found.type, args)
                \o When(procAsExpr, error("C_PROC_AS_EXPR")))

\* checkSuperCall: the parent of the class of the method being checked.  A
\* PROCEDURE is not refused as an expression here.
checkSuperCall(c, m, args) ==
  IF c.class = None
  THEN failed(error("C_SUPER_OUTSIDE") \o inferAll(c, args))
  ELSE IF c.table[c.class].inherits = None
  THEN failed(error("C_SUPER_OUTSIDE") \o inferAll(c, args))
  ELSE checkMethodOf(c, c.table[c.class].inherits, m, args, "call-stmt")

checkMethodCallCore(c, e, mode) ==
  IF e.object.kind = "Super" THEN checkSuperCall(c, e.method, e.args)
  ELSE LET o == inferExpr(c, e.object) IN
       CASE isError(o.type) -> failed(o.diags \o inferAll(c, e.args))
         [] o.type.kind = "class" ->
              LET r == checkMethodOf(c, o.type.name, e.method, e.args, mode)
              IN typed(r.type, o.diags \o r.diags)
         [] OTHER -> failed(o.diags \o error("C_NOT_CLASS")
                            \o inferAll(c, e.args))

checkNewExpression(c, e) ==
  IF ~Known(c.table, e.class)
  THEN failed(error("C_INVALID_NEW") \o inferAll(c, e.args))
  ELSE IF c.table[e.class].kind # "class"
  THEN failed(error("C_INVALID_NEW") \o inferAll(c, e.args))
  ELSE LET owner == findClassMethodOwner(c.table, e.class, "NEW") IN
       typed(userType(c.table[e.class]),
             IF owner = None
             THEN When(e.args # << >>, error("C_ARG_COUNT"))
                  \o inferAll(c, e.args)
             ELSE checkArgTypes(c, MemberOf(c.table, owner, "methods",
                                            "NEW").type, e.args))

\* The element type of an array literal: INTEGER and REAL make REAL.
inferArrayLiteralType(c, e) ==
  LET rs  == [ i \in DOMAIN e.elements |-> inferExpr(c, e.elements[i]) ]
      ts  == SelectSeq([ i \in DOMAIN rs |-> rs[i].type ],
                       LAMBDA t : ~isError(t))
      numbers == \A i \in DOMAIN ts : isNumeric(ts[i])
      real    == \E i \in DOMAIN ts : isScalar(ts[i], "REAL")
      diags   == FlattenSeq([ i \in DOMAIN rs |-> rs[i].diags ])
      literal(t) == [ kind |-> "arrayLiteral", element |-> t,
                      length |-> Len(e.elements) ]
  IN CASE e.elements = << >> -> failed(error("C_ARRAY_LITERAL_EMPTY"))
       [] e.elements # << >> /\ ts = << >> -> failed(diags)
       [] ts # << >> /\ numbers ->
            typed(literal(scalar(IF real THEN "REAL" ELSE "INTEGER")), diags)
       [] ts # << >> /\ ~numbers ->
            IF \A i \in DOMAIN ts : typesEqual(ts[1], ts[i])
            THEN typed(literal(ts[1]), diags)
            ELSE failed(diags \o error("C_ARRAY_LITERAL_TYPE"))

inferUnary(c, e) ==
  LET a == inferExpr(c, e.argument) IN
  IF e.op = "NOT"
  THEN typed(scalar("BOOLEAN"), a.diags \o mustBe(a, isBoolean, "C_UNARY_TYPE"))
  ELSE typed(unaryResultType(e.op, a.type),
             a.diags \o mustBe(a, isNumeric, "C_UNARY_TYPE"))

\* A comparison of whole composites is an error, of unlike scalars a warning.
compareDiags(l, r) ==
  CASE isError(l) \/ isError(r) -> << >>
    [] isCompositeType(l) \/ isCompositeType(r) -> error("C_COMPARE_TYPE")
    [] ~comparableTypes(l, r) -> warning("C_COMPARE_TYPE")
    [] OTHER -> << >>

inferBinary(c, e) ==
  LET l == inferExpr(c, e.left)
      r == inferExpr(c, e.right)
      result == binaryResultType(e.op, l.type, r.type)
      clean  == ~isError(l.type) /\ ~isError(r.type)
      both(Holds(_), code) ==
        When(clean, mustBe(l, Holds, code) \o mustBe(r, Holds, code))
      own == CASE e.op \in { "AND", "OR" } -> both(isBoolean, "C_BINARY_TYPE")
               [] e.op \in { "DIV", "MOD" } -> both(isIndexType, "C_BINARY_TYPE")
               [] e.op = "&" -> mustBe(l, isStringy, "C_CONCAT_TYPE")
                                \o mustBe(r, isStringy, "C_CONCAT_TYPE")
               [] e.op \in Comparison -> compareDiags(l.type, r.type)
               [] OTHER -> When(clean /\ isError(result), error("C_BINARY_TYPE"))
  IN typed(result, l.diags \o r.diags \o own)

typeOfExpression(c, e) ==
  CASE e.kind = "Literal"      -> typed(scalar(e.type), << >>)
    [] e.kind = "Identifier"   -> inferIdentifier(c, e.name)
    [] e.kind = "Member"       -> inferMemberAccess(c, e)
    [] e.kind = "Index"        -> inferIndex(c, e)
    [] e.kind = "Call"         -> checkCall(c, e.callee, e.args, "call-expr")
    [] e.kind = "Unary"        -> inferUnary(c, e)
    [] e.kind = "Binary"       -> inferBinary(c, e)
    [] e.kind = "Grouping"     -> inferExpr(c, e.expression)
    [] e.kind = "MethodCall"   -> checkMethodCallCore(c, e, "call-expr")
    [] e.kind = "New"          -> checkNewExpression(c, e)
    [] e.kind = "AddressOf"    -> checkAddressOf(c, e.target)
    [] e.kind = "Deref"        -> checkDeref(c, e)
    [] e.kind = "ArrayLiteral" -> inferArrayLiteralType(c, e)
    [] OTHER -> failed(error("C_SUPER_OUTSIDE"))

(***************************************************************************)
(* Statements.                                                             *)
(***************************************************************************)
checkStatement(c, s) == checkNode(c, s)
checkAll(c, ss) == FoldLeft(checkStatement, c, ss)

expectBoolean(c, e) ==
  LET r == inferExpr(c, e) IN
  report(c, r.diags \o mustBe(r, isBoolean, "C_COND_TYPE"))

\* enterCompound and leaveCompound around the body of a compound statement.
Nested(c, Body(_)) ==
  IF c.nesting >= maxStatementNesting
  THEN report(c, error("C_NESTING_TOO_DEEP"))
  ELSE [ Body([ c EXCEPT !.nesting = @ + 1 ]) EXCEPT !.nesting = c.nesting ]

checkTypeRefBounds(c, ref) ==
  IF ref.kind # "ArrayType" THEN << >>
  ELSE Each(ref.dims, LAMBDA d : Each(d, LAMBDA e :
         LET r == inferExpr(c, e) IN
         r.diags \o mustBe(r, isIndexType, "C_ARRAY_BOUND_TYPE")))

\* DECLARE: a name repeated in the list is reported once more than it is
\* defined.
checkDeclare(c, s) ==
  LET c1 == report(c, typeRefDiags(s.type, c.table)
                      \o checkTypeRefBounds(c, s.type))
      type == resolveTypeRef(s.type, c.table)
  IN FoldLeft(LAMBDA acc, n : defineSymbol(acc, n, symbol("variable", type)),
              c1, s.names)

isLiteral(e) ==
  \/ e.kind = "Literal"
  \/ /\ e.kind = "Unary" /\ e.op \in { "+", "-" }
     /\ e.argument.kind = "Literal" /\ e.argument.type \in NUMBER

checkConstant(c, s) ==
  LET r == inferExpr(c, s.value) IN
  defineSymbol(report(c, r.diags \o When(~isLiteral(s.value),
                                         error("C_CONSTANT_NOT_LITERAL"))),
               s.name, symbol("constant", r.type))

checkDefine(c, s) ==
  LET known == Known(c.table, s.type) /\ c.table[s.type].kind = "set"
      element(e) ==
        LET r == inferExpr(c, e) IN
        r.diags \o When(~isError(r.type)
                          /\ ~isAssignable(c.table[s.type].element, r.type,
                                           c.table),
                        error("C_DEFINE_ELEMENT_TYPE"))
  IN IF ~known
     THEN report(c, error(IF Known(c.table, s.type) THEN "C_NOT_SET"
                          ELSE "C_UNKNOWN_TYPE") \o inferAll(c, s.values))
     ELSE defineSymbol(report(c, Each(s.values, element)), s.name,
                       symbol("variable", userType(c.table[s.type])))

\* The value is inferred before the target.
checkAssignment(c, s) ==
  LET v == inferExpr(c, s.value)
      t == checkAssignableTarget(c, s.target)
  IN report(c, v.diags \o t.diags
               \o When(~isAssignable(t.type, v.type, c.table),
                       error("C_ASSIGN_TYPE")))

checkIf(c, s) ==
  checkAll(FoldLeft(LAMBDA acc, cl : checkAll(expectBoolean(acc, cl[1]), cl[2]),
                    c, s.clauses), s.alternate)

labelDiags(c, disc, label) ==
  LET rs == [ i \in DOMAIN label |-> inferExpr(c, label[i]) ] IN
  IF Len(label) = 1
  THEN rs[1].diags \o When(~isAssignable(disc, rs[1].type, c.table)
                             /\ ~isAssignable(rs[1].type, disc, c.table),
                           warning("C_CASE_LABEL_TYPE"))
  ELSE Each(rs, LAMBDA r : r.diags)
       \o Each(rs, LAMBDA r : mustBe(r, isNumeric, "C_CASE_RANGE_TYPE"))

checkCase(c, s) ==
  LET disc == inferExpr(c, s.discriminant)
      arm(acc, a) == checkAll(report(acc, labelDiags(acc, disc.type, a.label)),
                              a.body)
  IN checkAll(FoldLeft(arm, report(c, disc.diags), s.arms), s.otherwise)

\* A FOR over an undeclared name introduces an INTEGER variable.
checkFor(c, s) ==
  LET v  == lookup(c, s.variable)
      c1 == CASE v.kind = None ->
                   defineSymbol(c, s.variable,
                                symbol("variable", scalar("INTEGER")))
              [] v.kind = "constant" -> report(c, error("C_ASSIGN_TO_CONSTANT"))
              [] v.kind \in { "procedure", "function" } ->
                   report(c, error("C_FOR_VAR_TYPE"))
              [] OTHER -> report(c, When(~isScalar(v.type, "INTEGER"),
                                         error("C_FOR_VAR_TYPE")))
      bounds == << s.start, s.end >> \o s.step
  IN checkAll(report(c1, Each(bounds, LAMBDA e :
                LET r == inferExpr(c1, e) IN
                r.diags \o mustBe(r, isNumeric, "C_FOR_BOUND_TYPE"))),
              s.body)

RECURSIVE bodyContainsReturn(_)
bodyContainsReturn(ss) ==
  \E i \in DOMAIN ss :
    \/ ss[i].kind = "Return"
    \/ \E j \in DOMAIN Blocks(ss[i]) : bodyContainsReturn(Blocks(ss[i])[j])

RECURSIVE flagUnreachableAfterReturn(_)
flagUnreachableAfterReturn(ss) ==
  FlattenSeq([ i \in DOMAIN ss |->
    When(\E j \in 1..(i - 1) : ss[j].kind = "Return", warning("C_UNREACHABLE"))
    \o Each(Blocks(ss[i]), flagUnreachableAfterReturn) ])

\* A routine gives its scope its name, a method also that of its class.
scopeName(class, n) == IF class = None THEN << n >> ELSE << class, n >>
GLOBAL == << "global" >>

\* The body of a routine, in a scope of its own over the globals declared so
\* far.
checkBody(c, r, class) ==
  LET sig   == signatureOf(r, c.table)
      bind1(acc, i) ==
        defineSymbol(report(acc, typeRefDiags(r.params[i].type, c.table)),
                     r.params[i].name, symbol("parameter", sig.params[i]))
      inner == [ c EXCEPT !.locals = NoScope, !.routine = sig.kind,
                          !.returns = sig.returns, !.class = class,
                          !.scope = scopeName(class, r.name) ]
      body  == checkAll(FoldLeft(bind1, inner, [ i \in DOMAIN r.params |-> i ]),
                        r.body)
  IN [ c EXCEPT !.symbols = body.symbols, !.diags =
         body.diags
         \o When(sig.kind = "function" /\ ~bodyContainsReturn(r.body),
                 error("C_FUNC_NO_RETURN"))
         \o flagUnreachableAfterReturn(r.body) ]

checkRoutineBody(c, r) == checkBody(c, r, None)

\* A method also reports its RETURNS type.
checkMethodBody(c, r, class) ==
  checkBody(report(c, When(r.kind = "Function", typeRefDiags(r.returns, c.table))),
            r, class)

checkClassBody(c, d) ==
  LET bounds == Each(d.members, LAMBDA m :
                  IF m.kind = "Property" THEN checkTypeRefBounds(c, m.type)
                  ELSE << >>)
      methods == SelectSeq(d.members, LAMBDA m : m.kind = "Method")
  IN IF c.table[d.name].kind # "class" THEN report(c, bounds)
     ELSE FoldLeft(LAMBDA acc, m : checkMethodBody(acc, m.routine, d.name),
                   report(c, bounds), methods)

checkReturn(c, s) ==
  LET v == inferExpr(c, s.value) IN
  IF c.routine # "function" THEN report(c, error("C_RETURN_OUTSIDE") \o v.diags)
  ELSE report(c, v.diags \o When(~isAssignable(c.returns, v.type, c.table),
                                 error("C_RETURN_TYPE")))

afterStatement(c, s) ==
  CASE s.kind = "Type" ->
         report(c, Each(s.fields, LAMBDA f : checkTypeRefBounds(c, f.type)))
    [] s.kind \in { "Enum", "Pointer", "Set" } -> c
    [] s.kind = "Define"   -> checkDefine(c, s)
    [] s.kind = "Declare"  -> checkDeclare(c, s)
    [] s.kind = "Constant" -> checkConstant(c, s)
    [] s.kind = "Assign"   -> checkAssignment(c, s)
    [] s.kind = "Input"    -> report(c, checkAssignableTarget(c, s.target).diags)
    [] s.kind = "Output"   -> report(c, inferAll(c, s.expressions))
    [] s.kind = "If"       -> Nested(c, LAMBDA i : checkIf(i, s))
    [] s.kind = "While"    ->
         Nested(c, LAMBDA i : checkAll(expectBoolean(i, s.condition), s.body))
    [] s.kind = "Repeat"   ->
         Nested(c, LAMBDA i : expectBoolean(checkAll(i, s.body), s.condition))
    [] s.kind = "For"      -> Nested(c, LAMBDA i : checkFor(i, s))
    [] s.kind = "Case"     -> Nested(c, LAMBDA i : checkCase(i, s))
    [] IsRoutine(s)        -> checkRoutineBody(c, s)
    [] s.kind = "Class"    -> checkClassBody(c, s)
    [] s.kind = "CallStmt" ->
         report(c, checkCall(c, s.callee, s.args, "call-stmt").diags)
    [] s.kind = "CallMethod" ->
         report(c, checkMethodCallCore(c, s, "call-stmt").diags)
    [] s.kind = "ExprStmt" ->
         report(c, IF s.expression.kind = "Call"
                   THEN checkCall(c, s.expression.callee, s.expression.args,
                                  "call-stmt").diags
                   ELSE checkMethodCallCore(c, s.expression, "call-stmt").diags)
    [] s.kind = "Return"   -> checkReturn(c, s)

checkNode(c, node) ==
  IF IsExpression(node) THEN typeOfExpression(c, node) ELSE afterStatement(c, node)

(***************************************************************************)
(* check: builtins, then types, then classes, then routine signatures,     *)
(* then every statement.                                                   *)
(***************************************************************************)
builtinScope ==
  [ f \in DOMAIN CORE_BUILTINS |-> symbol("function", errorType) ]

\* The symbols the type and class passes publish, in order.
publishedSymbols(program, table) ==
  FlattenSeq([ i \in DOMAIN program |->
    LET s == program[i] IN
    CASE IsTypeDeclaration(s) /\ ~isError(table[s.name]) ->
           << << s.name, symbol("type", userType(table[s.name])) >> >>
           \o (IF s.kind # "Enum" THEN << >>
               ELSE [ j \in DOMAIN s.members |->
                        << s.members[j],
                           symbol("constant", userType(table[s.name])) >> ])
      [] s.kind = "Class" ->
           << << s.name, symbol("class", userType(table[s.name])) >> >>
      [] OTHER -> << >> ])

hoistRoutine(c, r) ==
  LET sig == signatureOf(r, c.table) IN
  defineSymbol(report(c, Each(r.params, LAMBDA p : typeRefDiags(p.type, c.table))
                         \o byRefOnFunction(r)),
               r.name, symbol(sig.kind, sig))

\* The context before the statements are walked.
start(program, types, table) ==
  [ table |-> table, globals |-> builtinScope, locals |-> NoScope,
    routine |-> None, returns |-> errorType, class |-> None, nesting |-> 0,
    scope |-> GLOBAL, symbols |-> << >>,
    diags |-> typeDeclarationDiags(typeDeclarations(program), types)
              \o classDeclarationDiags(classDeclarations(program), types, table) ]

published(program, types, table) ==
  FoldLeft(LAMBDA acc, p : defineSymbol(acc, p[1], p[2]),
           start(program, types, table), publishedSymbols(program, table))

registered(program, types) ==
  FoldLeft(hoistRoutine, published(program, types, classTableOf(program, types)),
           SelectSeq(program, IsRoutine))

declared(program) == registered(program, typeTableOf(program))

checked(program) == checkAll(declared(program), program)
found(program) == checked(program).diags

\* diag: what is kept of the diagnostics.  Past maxDiagnostics one warning
\* stands for the rest.
keptOf(diags) ==
  IF Len(diags) <= maxDiagnostics THEN diags
  ELSE SubSeq(diags, 1, maxDiagnostics) \o warning("C_TOO_MANY_DIAGNOSTICS")

HasError(diags) == \E i \in DOMAIN diags : diags[i].severity = "error"

verdictOf(kept) == [ diagnostics |-> kept, ok |-> ~HasError(kept) ]

\* The call stack of the checker is not modelled: with the nesting limited it
\* takes an expression thousands deep to exhaust it (C_NESTING_TOO_DEEP).
check(program) == verdictOf(keptOf(found(program)))
=============================================================================
