---------------------------- MODULE PythonPrinter ----------------------------
(***************************************************************************)
(* From the intermediate tree to Python (translator/src/python/print.ts,   *)
(* builtins/emit.ts, python/array-index.ts, identifier-sanitizer.ts).      *)
(*                                                                         *)
(* The text is represented by the tree Python reads from it, in the        *)
(* constructors of SyntaxTree where they mean the same, and the operators  *)
(* by their Cambridge names ("&" prints as "+").  Where Python groups the  *)
(* text in another way than the tree it was printed from, so does Grouped. *)
(* An empty suite prints as `pass`, here as no statement; names are in one *)
(* case.  Left out: comments, annotations of types, dates, RAND and files, *)
(* and the prompts that only Python programs give an INPUT.                *)
(***************************************************************************)
EXTENDS Lowering, TypeSystem, Scalars

CONSTANT Reserved   \* PYTHON_KEYWORDS and PYTHON_BUILTINS

NoEnd                  == [ kind |-> "NoEnd" ]
Slice(e, from, to)     == [ kind |-> "Slice", text |-> e, from |-> from, to |-> to ]
\* [ e for _ in range(hi - lo + 1) ]
Repeat(e, lo, hi)      == [ kind |-> "Repeat", element |-> e, lo |-> lo, hi |-> hi ]
\* a < b < c: the first operand, and << operator, operand >> pairs.
Chain(first, rest)     == [ kind |-> "Chain", first |-> first, rest |-> rest ]
SyntaxError            == [ kind |-> "SyntaxError" ]
Annotation(n)          == [ kind |-> "Annotate", name |-> n ]
Input(type)            == [ kind |-> "Input", type |-> type ]
Match(d, arms, other)  ==
  [ kind |-> "Match", discriminant |-> d, arms |-> arms, otherwise |-> other ]
Break                  == [ kind |-> "Break" ]
Def(n, params, body)   == [ kind |-> "Def", name |-> n, params |-> params, body |-> body ]
PyClass(n, base, defs) == [ kind |-> "PyClass", name |-> n, base |-> base, defs |-> defs ]
\* A field is << name, default expression >>.
Dataclass(n, fields)   == [ kind |-> "Dataclass", name |-> n, fields |-> fields ]
IntEnum(n, members)    == [ kind |-> "IntEnum", name |-> n, members |-> members ]
NoneValue              == Literal("NONE", 0)
\* The blocks of a Python statement.
Suites(s) == Blocks(IF s.kind = "Match" THEN [ s EXCEPT !.kind = "Case" ] ELSE s)
TrueValue              == Literal("BOOLEAN", TRUE)

\* sanitizePythonIdentifier.
pyId(n) == IF n \in Reserved THEN n \o "_" ELSE n

(***************************************************************************)
(* The walks over a program: for the addresses taken ("types",             *)
(* collectUserTypeCtx), for the copies made ("copies", programUsesDeepCopy)*)
(* and for a callee ("calls", irUsesNamedCall).  None of these enters an   *)
(* array literal or a CASE label; all that is "printed" does.              *)
(***************************************************************************)
WithPlaces == { "types", "printed" }
RECURSIVE Walked(_, _)
Walked(e, walk) ==
  LET below == CASE e.kind = "Unary" -> << e.argument >>
                 [] e.kind = "Binary" -> << e.left, e.right >>
                 [] e.kind = "Grouping" -> << e.expression >>
                 [] e.kind = "Index"  -> << e.array >> \o e.indices
                 [] e.kind = "Member" -> << e.object >>
                 [] e.kind = "DeepCopy" -> << e.value >>
                 [] e.kind \in { "Call", "New" } -> e.args
                 [] e.kind = "MethodCall" -> << e.object >> \o e.args
                 [] e.kind = "AddressOf" /\ walk \in WithPlaces -> << e.target >>
                 [] e.kind = "Deref" /\ walk \in WithPlaces -> << e.pointer >>
                 [] e.kind = "ArrayLiteral" /\ walk = "printed" -> e.elements
                 [] OTHER -> << >>
  IN << e >> \o Each(below, LAMBDA b : Walked(b, walk))

\* The expressions of a statement that a walk looks at.
Expressions(s, walk) ==
  CASE s.kind = "Assign" ->
         (IF walk \in WithPlaces THEN << s.target >> ELSE << >>) \o << s.value >>
    [] s.kind = "Input"  -> IF walk \in WithPlaces THEN << s.target >> ELSE << >>
    [] s.kind = "Output" -> s.expressions
    [] s.kind = "Define" -> IF walk \in WithPlaces THEN s.values ELSE << >>
    [] s.kind = "ExprStmt" -> << s.expression >>
    [] s.kind = "If"     -> [ i \in DOMAIN s.clauses |-> s.clauses[i][1] ]
    [] s.kind \in { "While", "Repeat" } -> << s.condition >>
    [] s.kind = "For"    -> << s.start, s.end >> \o s.step
    [] s.kind = "Case"   ->
         << s.discriminant >>
         \o (IF walk = "printed" THEN Each(s.arms, LAMBDA a : a.label) ELSE << >>)
    [] s.kind = "CallStmt" ->
         IF walk = "calls" THEN << CallExpression(s.callee, s.args) >> ELSE s.args
    [] s.kind = "Return" -> << s.value >>
    [] s.kind = "Constant" -> IF walk = "copies" THEN << >> ELSE << s.value >>
    [] OTHER -> << >>

RECURSIVE Visited(_, _)
Visited(body, walk) ==
  Each(body, LAMBDA s :
    Each(Expressions(s, walk), LAMBDA e : Walked(e, walk))
    \o (CASE IsRoutine(s) -> Visited(s.body, walk)
          [] s.kind = "Class" ->
               Each(s.members, LAMBDA d :
                 IF d.kind = "Method" THEN Visited(d.routine.body, walk) ELSE << >>)
          [] OTHER -> Each(Blocks(s), LAMBDA b : Visited(b, walk))))

HasAny(s, Holds(_)) == \E i \in DOMAIN s : Holds(s[i])

irUsesNamedCall(body, callee) ==
  HasAny(Visited(body, "calls"), LAMBDA e : e.kind = "Call" /\ e.callee = callee)

hasByRef(params) == \E i \in DOMAIN params : params[i].mode = "BYREF"
programUsesByRefCell(body) ==
  \/ irUsesNamedCall(body, "_pp_cell")
  \/ HasAny(body, LAMBDA s :
       CASE s.kind = "Procedure" -> hasByRef(s.params)
         [] s.kind = "Class" -> HasAny(s.members, LAMBDA d :
              IF d.kind = "Method" THEN hasByRef(d.routine.params) ELSE FALSE)
         [] OTHER -> FALSE)

programUsesDeepCopy(body) ==
  HasAny(Visited(body, "copies"), LAMBDA e : e.kind = "DeepCopy")

\* collectUserTypeCtx: the types by kind, and the names that matter when
\* expressions are printed, whatever their scope.
collectUserTypeCtx(body) ==
  LET of(kind) == SelectSeq(body, LAMBDA s : s.kind = kind)
      names(kind) == { of(kind)[i].name : i \in DOMAIN of(kind) }
      enums == of("Enum")
      enumPointers == { of("Pointer")[i].name : i \in
        { j \in DOMAIN of("Pointer") : /\ of("Pointer")[j].target.kind = "NamedType"
                                       /\ of("Pointer")[j].target.name \in names("Enum") } }
      declared(types) ==
        LET ds == SelectSeq(body, LAMBDA s : IF s.kind # "Declare" THEN FALSE
                                             ELSE s.type.kind = "NamedType"
                                                  /\ s.type.name \in types)
        IN UNION { ToSet(ds[i].names) : i \in DOMAIN ds }
      taken == SelectSeq(Visited(body, "types"), LAMBDA e :
                 e.kind = "AddressOf" /\ e.target.kind = "Identifier")
  IN [ classes |-> names("Class"), pointers |-> names("Pointer"),
       sets |-> names("Set"),
       enums |-> [ n \in names("Enum") |->
                     LET i == CHOOSE i \in DOMAIN enums : enums[i].name = n IN
                     enums[i].members ],
       enumMembers |-> UNION { ToSet(enums[i].members) : i \in DOMAIN enums },
       enumVars |-> declared(names("Enum")), enumPointerVars |-> declared(enumPointers),
       cells |-> { taken[i].target.name : i \in DOMAIN taken } ]

programUsesUserTypes(u) == DOMAIN u.enums \cup u.pointers \cup u.sets # {}

(***************************************************************************)
(* Expressions.                                                            *)
(***************************************************************************)
BINARY_PRECEDENCE(op) ==
  CASE op = "OR" -> 1 [] op = "AND" -> 2 [] op \in Comparison -> 3
    [] op \in { "+", "-", "&" } -> 4 [] OTHER -> 5
UNARY_PRECEDENCE   == 6
POSTFIX_PRECEDENCE == 100

\* How Python reads `l op r`: comparisons in a row are a chain, and `not`
\* binds less than any operator but `and` and `or`.
RECURSIVE Grouped(_, _, _)
Grouped(op, l, r) ==
  LET loose(e) == e.kind = "Unary" /\ e.op = "NOT" /\ op \notin { "AND", "OR" } IN
  CASE loose(r) -> SyntaxError
    [] ~loose(r) /\ loose(l) -> [ l EXCEPT !.argument = Grouped(op, @, r) ]
    [] ~loose(r) /\ op \in Comparison ->
         IF l.kind = "Chain" THEN [ l EXCEPT !.rest = Append(@, << op, r >>) ]
         ELSE Chain(l, << << op, r >> >>)
    [] OTHER -> BinaryExpression(op, l, r)

InParentheses(e, prec, parentPrec) ==
  IF prec < parentPrec THEN GroupingExpression(e) ELSE e

RECURSIVE exprLooksEnumTyped(_, _)
exprLooksEnumTyped(u, e) ==
  CASE e.kind = "Grouping"   -> exprLooksEnumTyped(u, e.expression)
    [] e.kind = "Identifier" -> e.name \in u.enumMembers \cup u.enumVars
    [] e.kind = "Deref"      -> e.pointer.kind = "Identifier"
                                /\ e.pointer.name \in u.enumPointerVars
    [] e.kind = "Member"     -> e.object.kind = "Identifier"
                                /\ e.object.name \in DOMAIN u.enums
    [] OTHER -> FALSE

\* Mutant: DIV and MOD are printed as // and %.
floorOperator(op) == "none"
truncating(op) ==
  CASE op = "DIV" -> "_pp_div" [] op = "MOD" -> "_pp_mod" [] OTHER -> "none"

RECURSIVE printExpr(_, _, _)
printAll(u, es) == [ i \in DOMAIN es |-> printExpr(u, es[i], 0) ]

\* printPythonIndex: one subscript per index, counted from the lower bound.
printIndex(u, e) ==
  FoldLeft(LAMBDA base, i :
             LET k == printExpr(u, e.indices[i], 0) IN
             IndexExpression(base, <<
               IF i \in DOMAIN e.lowers
               THEN BinaryExpression("-", k, printExpr(u, e.lowers[i], 0)) ELSE k >>),
           printExpr(u, e.array, POSTFIX_PRECEDENCE),
           [ i \in DOMAIN e.indices |-> i ])

\* tryPrintBuiltinPython.
IsPrintedBuiltin(f, args) ==
  lookupBuiltin(f) /\ Len(args) = Len(CORE_BUILTINS[f].params)

emitPython(f, as) ==
  LET minus1 == BinaryExpression("-", as[2], Literal("INTEGER", 1)) IN
  CASE f = "LEFT"  -> Slice(as[1], NoEnd, as[2])
    [] f = "RIGHT" -> CallExpression("_pp_right", as)
    [] f = "MID"   -> Slice(as[1], minus1, BinaryExpression("+", minus1, as[3]))
    [] f = "UCASE" -> MethodCallExpression(as[1], "upper", << >>)
    [] OTHER -> CallExpression([ LENGTH |-> "len", INT |-> "int", ASC |-> "ord",
                                 CHR |-> "chr", IS_NUM |-> "_pp_is_num" ][f], as)

printBinary(u, e, parentPrec) ==
  LET prec == BINARY_PRECEDENCE(e.op)
      operands == << printExpr(u, e.left, 0), printExpr(u, e.right, 0) >>
  IN CASE truncating(e.op) # "none" -> CallExpression(truncating(e.op), operands)
       [] e.op \in { "+", "-" } /\ exprLooksEnumTyped(u, e.left) ->
            CallExpression(IF e.op = "+" THEN "_pp_enum_add" ELSE "_pp_enum_sub",
                           operands)
       [] OTHER -> InParentheses(Grouped(e.op, printExpr(u, e.left, prec),
                                         printExpr(u, e.right, prec + 1)),
                                 prec, parentPrec)

printMember(u, e) ==
  MemberExpression(printExpr(u, e.object, POSTFIX_PRECEDENCE), pyId(e.property))

pload(u, e) == CallExpression("_pp_pload", << printExpr(u, e.pointer, 0) >>)

\* A place by itself: the cell and not what it holds; a pointer's target is
\* no place of Python's (an INPUT to it is not rewritten).
printTarget(u, t) ==
  CASE t.kind = "Identifier" -> Identifier(pyId(t.name))
    [] t.kind = "Index"      -> printIndex(u, t)
    [] t.kind = "Member"     -> printMember(u, t)
    [] OTHER                 -> pload(u, t)

printMethodCall(u, e) ==
  LET super == e.object.kind = "Super" IN
  MethodCallExpression(IF super THEN SuperExpression
                       ELSE printExpr(u, e.object, POSTFIX_PRECEDENCE),
                       IF super /\ e.method = "NEW" THEN "__init__" ELSE pyId(e.method),
                       printAll(u, e.args))

printExpr(u, e, parentPrec) ==
  CASE e.kind = "Literal" ->
         IF e.type = "CHAR" THEN Literal("STRING", << e.value >>) ELSE e
    [] e.kind = "Identifier" ->
         IF e.name \in u.cells THEN CallExpression("_pp_load", << Identifier(pyId(e.name)) >>)
         ELSE Identifier(pyId(e.name))
    [] e.kind = "Index"  -> printIndex(u, e)
    [] e.kind = "Member" -> printMember(u, e)
    [] e.kind = "DeepCopy" -> CallExpression("copy.deepcopy", << printExpr(u, e.value, 0) >>)
    [] e.kind = "AddressOf" ->
         CallExpression("_pp_addr", <<
           IF e.target.kind = "Identifier" /\ e.target.name \in u.cells
           THEN Identifier(pyId(e.target.name))
           ELSE CallExpression("_pp_cell", << printTarget(u, e.target) >>) >>)
    [] e.kind = "Deref" -> pload(u, e)
    [] e.kind = "Call" ->
         IF IsPrintedBuiltin(e.callee, e.args)
         THEN emitPython(e.callee, printAll(u, e.args))
         ELSE CallExpression(pyId(e.callee), printAll(u, e.args))
    [] e.kind = "New" -> CallExpression(pyId(e.class), printAll(u, e.args))
    [] e.kind = "MethodCall" -> printMethodCall(u, e)
    [] e.kind = "Grouping" -> GroupingExpression(printExpr(u, e.expression, 0))
    [] e.kind = "ArrayLiteral" -> ArrayLiteral(printAll(u, e.elements))
    [] e.kind = "Unary" ->
         InParentheses(UnaryExpression(e.op, printExpr(u, e.argument, UNARY_PRECEDENCE)),
                       UNARY_PRECEDENCE, parentPrec)
    [] e.kind = "Binary" -> printBinary(u, e, parentPrec)
    [] OTHER -> e

(***************************************************************************)
(* Statements: one prints as a sequence of Python statements.              *)
(***************************************************************************)
scalarDefaultLiteral(type) ==
  CASE type \in { "INTEGER", "REAL" } -> Literal(type, 0)
    [] type = "BOOLEAN" -> Literal(type, FALSE)
    [] OTHER -> Literal("STRING", IF type = "CHAR" THEN << 32 >> ELSE << >>)

\* A class has no instance to begin with; any other named type is called.
elementDefaultExpr(u, t) ==
  CASE t.kind = "TypeName"  -> scalarDefaultLiteral(t.name)
    [] t.name \in u.classes -> NoneValue
    [] OTHER                -> CallExpression(pyId(t.name), << >>)

arrayDefaultExpr(u, t) ==
  FoldLeft(LAMBDA inner, d : Repeat(inner, printExpr(u, d[1], 0), printExpr(u, d[2], 0)),
           elementDefaultExpr(u, t.element),
           [ i \in DOMAIN t.dims |-> t.dims[Len(t.dims) + 1 - i] ])

\* A scalar is only announced, unless its address is taken.
printDeclarePython(u, names, t) ==
  LET declared(n) ==
        LET set(e) == AssignmentStatement(Identifier(pyId(n)), e) IN
        CASE t.kind = "TypeName" ->
               IF n \in u.cells
               THEN set(CallExpression("_pp_cell", << scalarDefaultLiteral(t.name) >>))
               ELSE Annotation(pyId(n))
          [] t.kind = "ArrayType" -> set(arrayDefaultExpr(u, t))
          [] OTHER ->
               set(CASE t.name \in u.classes \cup u.pointers -> NoneValue
                     [] t.name \in DOMAIN u.enums ->
                          MemberExpression(Identifier(pyId(t.name)),
                                           pyId(u.enums[t.name][1]))
                     [] t.name \in u.sets -> CallExpression("set", << >>)
                     [] OTHER -> CallExpression(pyId(t.name), << >>))
  IN [ i \in DOMAIN names |-> declared(names[i]) ]

dataclassField(u, f) ==
  << pyId(f.name), CASE f.type.kind = "TypeName"  -> scalarDefaultLiteral(f.type.name)
                     [] f.type.kind = "NamedType" -> CallExpression(pyId(f.type.name), << >>)
                     [] OTHER -> arrayDefaultExpr(u, f.type) >>

\* Storing into a place: a cell through its helper.
storing(u, target, v) ==
  IF target.kind = "Identifier" /\ target.name \in u.cells
  THEN ExpressionStatement(CallExpression("_pp_store", << Identifier(pyId(target.name)), v >>))
  ELSE AssignmentStatement(printTarget(u, target), v)

printAssignment(u, s) ==
  LET v == printExpr(u, s.value, 0) IN
  IF s.target.kind = "Deref"
  THEN ExpressionStatement(CallExpression("_pp_pstore",
                                          << printExpr(u, s.target.pointer, 0), v >>))
  ELSE storing(u, s.target, v)

RECURSIVE printBlock(_, _)
printRoutine(u, r, n, first) ==
  Def(n, first \o [ i \in DOMAIN r.params |-> pyId(r.params[i].name) ],
      printBlock(u, r.body))

\* Properties print nothing.
printClass(u, s) ==
  LET methods == SelectSeq(s.members, LAMBDA d : d.kind = "Method") IN
  PyClass(pyId(s.name), IF s.inherits = None THEN None ELSE pyId(s.inherits),
          [ i \in DOMAIN methods |->
              LET r == methods[i].routine IN
              printRoutine(u, r, IF r.name = "NEW" THEN "__init__" ELSE pyId(r.name),
                           << Self >>) ])

\* range excludes its stop.
rangeStop(end, descending) ==
  BinaryExpression(IF descending THEN "-" ELSE "+", end, Literal("INTEGER", 1))

printControl(u, s) ==
  CASE s.kind = "If" ->
         << IfStatement([ i \in DOMAIN s.clauses |->
                            << printExpr(u, s.clauses[i][1], 0),
                               printBlock(u, s.clauses[i][2]) >> ],
                        printBlock(u, s.alternate)) >>
    [] s.kind = "Case" ->
         << Match(printExpr(u, s.discriminant, 0),
                  [ i \in DOMAIN s.arms |->
                      [ label |-> printAll(u, s.arms[i].label),
                        body |-> printBlock(u, s.arms[i].body) ] ],
                  printBlock(u, s.otherwise)) >>
    [] s.kind = "While" ->
         << WhileStatement(printExpr(u, s.condition, 0), printBlock(u, s.body)) >>
    [] s.kind = "Repeat" ->
         << WhileStatement(TrueValue, printBlock(u, s.body)
              \o << IfStatement(<< << printExpr(u, s.condition, 0), << Break >> >> >>,
                                << >>) >>) >>
    [] OTHER ->
         << ForStatement(pyId(s.variable), printExpr(u, s.start, 0),
              rangeStop(printExpr(u, s.end, 0), isDescending(s.step)),
              printAll(u, s.step), printBlock(u, s.body)) >>

named(n, e) == AssignmentStatement(Identifier(pyId(n)), e)

\* The members of an enumeration are names of their own too; what the type of
\* a DEFINE is called does not matter to _pp_define.
printDeclaration(u, s) ==
  CASE s.kind = "Declare" -> printDeclarePython(u, s.names, s.type)
    [] s.kind = "Constant" -> << named(s.name, printExpr(u, s.value, 0)) >>
    [] s.kind = "Define" -> << named(s.name, CallExpression("_pp_define",
         << Literal("STRING", << >>) >> \o printAll(u, s.values))) >>
    [] IsRoutine(s) -> << printRoutine(u, s, pyId(s.name), << >>) >>
    [] s.kind = "Type" ->
         << Dataclass(pyId(s.name), [ i \in DOMAIN s.fields |->
                                        dataclassField(u, s.fields[i]) ]) >>
    [] s.kind = "Enum" ->
         << IntEnum(pyId(s.name), [ i \in DOMAIN s.members |-> pyId(s.members[i]) ]) >>
         \o [ i \in DOMAIN s.members |->
                named(s.members[i], MemberExpression(Identifier(pyId(s.name)),
                                                     pyId(s.members[i]))) ]
    [] s.kind = "Pointer" -> << named(s.name, Identifier("object")) >>
    [] s.kind = "Set"     -> << named(s.name, Identifier("set")) >>
    [] s.kind = "Class"   -> << printClass(u, s) >>
    [] OTHER -> << >>

printStatement(u, s) ==
  CASE s.kind = "Assign" -> << printAssignment(u, s) >>
    [] s.kind = "Input"  -> << storing(u, s.target, Input(s.valueType)) >>
    [] s.kind = "Output" ->
         LET shown(e) == IF programUsesUserTypes(u) THEN CallExpression("_pp_show", << e >>)
                         ELSE e
         IN << ExpressionStatement(CallExpression("print",
                 [ i \in DOMAIN s.expressions |->
                     shown(printExpr(u, s.expressions[i], 0)) ])) >>
    [] s.kind \in { "If", "Case", "While", "Repeat", "For" } -> printControl(u, s)
    [] s.kind = "CallStmt" ->
         << ExpressionStatement(CallExpression(pyId(s.callee), printAll(u, s.args))) >>
    [] s.kind = "Return"   -> << ReturnStatement(printExpr(u, s.value, 0)) >>
    [] s.kind = "ExprStmt" -> << ExpressionStatement(printExpr(u, s.expression, 0)) >>
    [] OTHER -> printDeclaration(u, s)

printBlock(u, body) == Each(body, LAMBDA s : printStatement(u, s))

(***************************************************************************)
(* printPython: the statements printed for each statement of the source,   *)
(* and the helpers and imports whose presence depends on a walk.  The      *)
(* others come with the text that calls them, and the helpers of pointers  *)
(* with any address taken or pointer followed.                             *)
(***************************************************************************)
needsPointerHelpers(body) ==
  HasAny(Visited(body, "printed"), LAMBDA e : e.kind \in { "AddressOf", "Deref" })

printPython(irs) ==
  LET body == FlattenSeq(irs)
      u    == collectUserTypeCtx(body)
  IN [ statements |-> [ i \in DOMAIN irs |-> printBlock(u, irs[i]) ],
       cells |-> u.cells,
       helpers |-> { h \in { "_pp_cell", "copy.deepcopy", "_pp_is_num" } :
           CASE h = "_pp_cell" -> programUsesByRefCell(body) \/ needsPointerHelpers(body)
             [] h = "copy.deepcopy" -> programUsesDeepCopy(body)
             [] OTHER -> irUsesNamedCall(body, "IS_NUM") } ]
=============================================================================
